--------------------------- MODULE ReadingProofs ---------------------------
(***************************************************************************)
(* Theorems about what the panel reads of the machine and keeps:           *)
(* StatusCache, for any number of requests and actions, and MetricsRollup, *)
(* for any windows, limits and faults.                                     *)
(***************************************************************************)
EXTENDS StatusCache, MetricsRollup, FiniteSetTheorems, SequenceTheorems, TLAPS

-----------------------------------------------------------------------------
(* The inductive invariant.  A generation counts the drops of its cache, so *)
(* a reading is as new as the generation it was begun under.                *)

\* Where the operator stands, in numbers.
ClockInv ==
  /\ op = "idle"    => gen["status"] = host /\ gen["containers"] = host /\ told = host
  /\ op = "acted"   => gen["status"] + 1 = host /\ gen["containers"] + 1 = host /\ told + 1 = host
  /\ op = "bumped"  => gen["status"] = host /\ gen["containers"] + 1 = host /\ told + 1 = host
  /\ op = "dropped" => gen["status"] = host /\ gen["containers"] = host /\ told + 1 = host

SourceInv ==
  /\ src["containers"].val # None => src["containers"].val >= gen["containers"]
  /\ src["containers"].fresh => src["containers"].val # None
  /\ src["adaptive"].fresh => src["adaptive"].val # None /\ src["adaptive"].val >= told

\* A reading under way is no older than the generation it began under.
ReadInv ==
  \A a \in Readers, s \in Sources :
    /\ rd[a][s].began <= Gate(s)
    /\ rd[a][s].pc \in {"store", "late"} => rd[a][s].val >= rd[a][s].began
    /\ rd[a][s].pc = "late" => s = "containers"

\* What a request collects is as new as the request and, outside the gap, as
\* new as the generation its build began under.
BuildInv ==
  \A r \in Requests :
    /\ req[r].need <= told
    /\ req[r].pc = "build" => req[r].began <= gen["status"]
    /\ req[r].pc = "build" /\ ~req[r].gap => req[r].began <= told
    /\ \A s \in Sources :
         /\ rd[r][s].pc # "off" => req[r].pc = "build"
         /\ rd[r][s].pc \in {"probe", "store", "late"} =>
              /\ rd[r][s].began >= req[r].need
              /\ ~req[r].gap => rd[r][s].began >= req[r].began
         /\ rd[r][s].pc = "got" =>
              /\ rd[r][s].val >= req[r].need
              /\ ~req[r].gap => rd[r][s].val >= req[r].began

\* A snapshot that is fresh is as new as the generation it was kept under.
SnapInv ==
  /\ snap.fresh => snap.val # None
  /\ snap.fresh /\ ~snap.gap => \A s \in Sources : snap.val[s] >= gen["status"]

IInv == TypeOK /\ ClockInv /\ SourceInv /\ ReadInv /\ BuildInv /\ SnapInv

-----------------------------------------------------------------------------
(* Types. *)

\* A step is one of these.
LEMMA StepCases ==
  ASSUME [Next]_vars
  PROVE  \/ UNCHANGED vars
         \/ Act \/ Bump \/ DropContainers \/ ExpireAdaptive \/ Expire \/ PageAsks
         \/ \E a \in Readers : ProbeTimesOut(a) \/ Reserve(a)
         \/ \E a \in Readers, s \in Sources : Hit(a, s) \/ Probe(a, s) \/ Store(a, s) \/ Enter(a, s)
         \/ \E r \in Requests : Ask(r) \/ Begin(r) \/ Finish(r)
  BY Zenon DEF Next, Operator, Reads

SrcRec == [val : Versions \cup {None}, fresh : BOOLEAN, holder : Readers \cup {None}]
RdRec == [pc : {"off", "ask", "probe", "store", "late", "got"}, began : Versions, val : Versions]
ReqRec == [pc : {"idle", "wait", "build"}, force : BOOLEAN,
           need : Versions, began : Versions, gap : BOOLEAN]
SnapRec == [val : Listing \cup {None}, fresh : BOOLEAN, gap : BOOLEAN, holder : Requests \cup {None}]

ScalarType ==
  /\ host \in Versions /\ told \in Versions /\ timeouts \in 0 .. Tolerance
  /\ op \in {"idle", "acted", "bumped", "dropped"}
  /\ gen \in [{"status", "containers"} -> Versions]
SrcType == src \in [Sources -> SrcRec]
RdType == rd \in [Readers -> [Sources -> RdRec]]
ReqType == req \in [Requests -> ReqRec]
SnapType == snap \in SnapRec

LEMMA TypeParts == TypeOK <=> ScalarType /\ SrcType /\ RdType /\ ReqType /\ SnapType
  BY DEF TypeOK, ScalarType, SrcType, RdType, ReqType, SnapType, SrcRec, RdRec, ReqRec, SnapRec

\* The four steps of the operator, and what all others leave alone.
LEMMA ScalarCases ==
  ASSUME [Next]_vars
  PROVE  \/ Act \/ Bump \/ DropContainers \/ ExpireAdaptive
         \/ /\ UNCHANGED <<host, op, told, gen>>
            /\ \/ UNCHANGED timeouts
               \/ \E a \in Readers : ProbeTimesOut(a)
               \/ \E a \in Readers, s \in Sources : Probe(a, s)
<1> DEFINE Apart == /\ UNCHANGED <<host, op, told, gen>>
                    /\ \/ UNCHANGED timeouts
                       \/ \E a \in Readers : ProbeTimesOut(a)
                       \/ \E a \in Readers, s \in Sources : Probe(a, s)
<1>1. CASE UNCHANGED vars \/ Expire \/ PageAsks
  BY <1>1 DEF vars, Expire, PageAsks
<1>2. ASSUME NEW a \in Readers, ProbeTimesOut(a) PROVE Apart
  BY <1>2 DEF ProbeTimesOut
<1>3. ASSUME NEW a \in Readers, NEW s \in Sources, Probe(a, s) PROVE Apart
  BY <1>3 DEF Probe
<1>4. ASSUME NEW a \in Readers, Reserve(a) PROVE Apart
  BY <1>4 DEF Reserve
<1>5. ASSUME NEW a \in Readers, NEW s \in Sources, Hit(a, s) \/ Store(a, s) \/ Enter(a, s)
      PROVE  Apart
  BY <1>5 DEF Hit, Store, Enter
<1>6. ASSUME NEW r \in Requests, Ask(r) \/ Begin(r) \/ Finish(r) PROVE Apart
  BY <1>6 DEF Ask, Begin, Finish
<1> HIDE DEF Apart
<1>7. Act \/ Bump \/ DropContainers \/ ExpireAdaptive \/ Apart \/ UNCHANGED vars \/ Expire \/ PageAsks
  BY StepCases, <1>2, <1>3, <1>4, <1>5, <1>6, Zenon
<1> QED
  BY <1>1, <1>7 DEF Apart

LEMMA ScalarStep == ASSUME TypeOK, ClockInv, [Next]_vars PROVE ScalarType'
<1> USE ConstantsAssumption DEF ScalarType, Versions
<1>t. ScalarType
  BY TypeParts
<1>1. CASE Act
  BY <1>t, <1>1 DEF Act
<1>2. CASE Bump
  BY <1>t, <1>2 DEF Bump, ClockInv
<1>3. CASE DropContainers
  BY <1>t, <1>3 DEF DropContainers, ClockInv
<1>4. CASE ExpireAdaptive
  BY <1>t, <1>4 DEF ExpireAdaptive
<1>5. ASSUME NEW a \in Readers, ProbeTimesOut(a) PROVE ScalarType'
  BY <1>t, <1>5 DEF ProbeTimesOut
<1>6. ASSUME NEW a \in Readers, NEW s \in Sources, Probe(a, s) PROVE ScalarType'
  BY <1>t, <1>6 DEF Probe
<1>7. CASE UNCHANGED <<host, op, told, gen, timeouts>>
  BY <1>t, <1>7
<1> HIDE DEF ScalarType, Versions
<1> QED
  BY <1>1, <1>2, <1>3, <1>4, <1>5, <1>6, <1>7, ScalarCases

LEMMA SrcStep == ASSUME TypeOK, [Next]_vars PROVE SrcType'
<1> USE ConstantsAssumption
<1>t. SrcType /\ RdType
  BY TypeParts
<1>1. CASE DropContainers
  BY <1>t, <1>1 DEF DropContainers, SrcType, SrcRec, Sources
<1>2. CASE ExpireAdaptive
  BY <1>t, <1>2 DEF ExpireAdaptive, SrcType, SrcRec, Sources
<1>3. CASE Expire
  <2>1. CASE UNCHANGED src
    BY <1>t, <2>1 DEF SrcType
  <2>2. ASSUME NEW s \in Sources, src' = [src EXCEPT ![s].fresh = FALSE] PROVE SrcType'
    BY <1>t, <2>2 DEF SrcType, SrcRec
  <2> QED
    BY <1>3, <2>1, <2>2 DEF Expire
<1>4. ASSUME NEW a \in Readers, Reserve(a) PROVE SrcType'
  BY <1>t, <1>4 DEF Reserve, SrcType, SrcRec
<1>5. ASSUME NEW a \in Readers, NEW s \in Sources, Store(a, s) PROVE SrcType'
  <2>1. rd[a][s].val \in Versions
    BY <1>t DEF RdType, RdRec
  <2>2. [val |-> rd[a][s].val, fresh |-> TRUE, holder |-> None] \in SrcRec
    BY <2>1 DEF SrcRec
  <2>3. [src[s] EXCEPT !.holder = None] \in SrcRec
    BY <1>t DEF SrcType, SrcRec
  <2> QED
    BY <1>t, <1>5, <2>2, <2>3 DEF Store, SrcType
<1>6. ASSUME NEW a \in Readers, NEW s \in Sources, Enter(a, s) PROVE SrcType'
  BY <1>t, <1>6 DEF Enter, SrcType, SrcRec
<1>7. CASE UNCHANGED src
  BY <1>t, <1>7 DEF SrcType
<1> QED
  BY <1>1, <1>2, <1>3, <1>4, <1>5, <1>6, <1>7, StepCases, Zenon
  DEF vars, Act, Bump, PageAsks, ProbeTimesOut, Hit, Probe, Ask, Begin, Finish

LEMMA RdUpdate ==
  ASSUME RdType, NEW a \in Readers, NEW s \in Sources, NEW x \in RdRec,
         rd' = [rd EXCEPT ![a][s] = x]
  PROVE  RdType'
  BY DEF RdType

LEMMA RdStep == ASSUME TypeOK, SourceInv, [Next]_vars PROVE RdType'
<1> USE ConstantsAssumption
<1>t. SrcType /\ RdType /\ ScalarType
  BY TypeParts
<1>n. NoReads \in [Sources -> RdRec]
  BY DEF NoReads, RdRec, Versions
<1>g. ASSUME NEW a \in Readers, NEW s \in Sources, NEW v \in Versions, Got(a, s, v) PROVE RdType'
  <2>1. [pc |-> "got", began |-> 0, val |-> v] \in RdRec
    BY DEF RdRec, Versions
  <2> QED
    BY <1>t, <1>n, <1>g, <2>1 DEF Got, RdType
<1>1. CASE PageAsks
  <2>1. "page" \in Readers /\ "containers" \in Sources
    BY DEF Readers, Sources
  <2>2. Asking \in RdRec
    BY DEF Asking, RdRec, Versions
  <2> QED
    BY <1>t, <1>1, <2>1, <2>2, RdUpdate DEF PageAsks
<1>2. ASSUME NEW a \in Readers, ProbeTimesOut(a) PROVE RdType'
  <2>1. "containers" \in Sources
    BY DEF Sources
  <2>2. ASSUME NEW p \in {"late", "store"}
        PROVE  [pc |-> p, began |-> rd[a]["containers"].began, val |-> host] \in RdRec
    BY <1>t, <2>1 DEF RdType, RdRec, ScalarType
  <2>3. PICK p \in {"late", "store"} :
          rd' = [rd EXCEPT ![a]["containers"] =
                   [pc |-> p, began |-> rd[a]["containers"].began, val |-> host]]
    BY <1>2 DEF ProbeTimesOut
  <2> QED
    BY <1>t, <2>1, <2>2, <2>3, RdUpdate
<1>3. ASSUME NEW a \in Readers, Reserve(a) PROVE RdType'
  BY <1>t, <1>g, <1>3 DEF Reserve, SrcType, SrcRec, Sources
<1>4. ASSUME NEW a \in Readers, NEW s \in Sources, Hit(a, s) PROVE RdType'
  BY <1>t, <1>g, <1>4 DEF Hit, SrcType, SrcRec, Sources, SourceInv
<1>5. ASSUME NEW a \in Readers, NEW s \in Sources, Probe(a, s) PROVE RdType'
  <2>1. [pc |-> "store", began |-> rd[a][s].began, val |-> host] \in RdRec
    BY <1>t DEF RdType, RdRec, ScalarType
  <2> QED
    BY <1>t, <1>5, <2>1, RdUpdate DEF Probe
<1>6. ASSUME NEW a \in Readers, NEW s \in Sources, Store(a, s) PROVE RdType'
  BY <1>t, <1>g, <1>6 DEF Store, RdType, RdRec
<1>7. ASSUME NEW a \in Readers, NEW s \in Sources, Enter(a, s) PROVE RdType'
  <2>1. Gate(s) \in Versions
    BY <1>t DEF Gate, ScalarType
  <2>2. [pc |-> "probe", began |-> Gate(s), val |-> 0] \in RdRec
    BY <2>1 DEF RdRec, Versions
  <2> QED
    BY <1>t, <1>7, <2>2, RdUpdate DEF Enter
<1>8. ASSUME NEW r \in Requests, Begin(r) PROVE RdType'
  <2>1. CASE UNCHANGED rd
    BY <1>t, <2>1 DEF RdType
  <2>2. CASE rd' = [rd EXCEPT ![r] = [s \in Sources |-> Asking]]
    <3>1. [s \in Sources |-> Asking] \in [Sources -> RdRec]
      BY DEF Asking, RdRec, Versions
    <3> QED
      BY <1>t, <2>2, <3>1 DEF RdType, Readers
  <2> QED
    BY <1>8, <2>1, <2>2 DEF Begin
<1>9. ASSUME NEW r \in Requests, Finish(r) PROVE RdType'
  BY <1>t, <1>n, <1>9 DEF Finish, RdType, Readers
<1>10. CASE UNCHANGED rd
  BY <1>t, <1>10 DEF RdType
<1> QED
  BY <1>1, <1>2, <1>3, <1>4, <1>5, <1>6, <1>7, <1>8, <1>9, <1>10, StepCases, Zenon
  DEF vars, Act, Bump, DropContainers, ExpireAdaptive, Expire, Ask

LEMMA RequestStep == ASSUME TypeOK, [Next]_vars PROVE ReqType' /\ SnapType'
<1> USE ConstantsAssumption
<1>t. ReqType /\ SnapType /\ RdType /\ ScalarType
  BY TypeParts
<1>n. NoCall \in ReqRec
  BY DEF NoCall, ReqRec, Versions
<1>1. CASE Bump
  BY <1>t, <1>1 DEF Bump, ReqType, SnapType, SnapRec
<1>2. CASE Expire
  BY <1>t, <1>2 DEF Expire, ReqType, SnapType, SnapRec
<1>3. ASSUME NEW r \in Requests, Ask(r) PROVE ReqType' /\ SnapType'
  <2>1. PICK force \in BOOLEAN :
          req' = [req EXCEPT ![r] = [req[r] EXCEPT !.pc = "wait", !.need = told, !.force = force]]
    BY <1>3 DEF Ask
  <2>2. [req[r] EXCEPT !.pc = "wait", !.need = told, !.force = force] \in ReqRec
    <3>1. req[r] \in ReqRec /\ told \in Versions
      BY <1>t DEF ReqType, ScalarType
    <3> QED
      BY <3>1 DEF ReqRec
  <2> QED
    BY <1>t, <1>3, <2>1, <2>2 DEF Ask, ReqType, SnapType
<1>4. ASSUME NEW r \in Requests, Begin(r) PROVE ReqType' /\ SnapType'
  <2>1. gen["status"] \in Versions /\ Gap \in BOOLEAN
    BY <1>t DEF ScalarType, Gap
  <2>2. ReqType'
    BY <1>t, <1>n, <1>4, <2>1 DEF Begin, ReqType, ReqRec
  <2>3. SnapType'
    BY <1>t, <1>4 DEF Begin, SnapType, SnapRec
  <2> QED
    BY <2>2, <2>3
<1>5. ASSUME NEW r \in Requests, Finish(r) PROVE ReqType' /\ SnapType'
  <2>1. [s \in Sources |-> rd[r][s].val] \in Listing
    BY <1>t DEF RdType, RdRec, Listing, Readers
  <2>2. req[r].gap \in BOOLEAN
    BY <1>t DEF ReqType, ReqRec
  <2>3. Published(r) \in SnapRec /\ [snap EXCEPT !.holder = None] \in SnapRec
    BY <1>t, <2>1, <2>2 DEF Published, SnapType, SnapRec
  <2>4. SnapType'
    BY <1>5, <2>3 DEF Finish, SnapType
  <2>5. ReqType'
    BY <1>t, <1>n, <1>5 DEF Finish, ReqType
  <2> QED
    BY <2>4, <2>5
<1>6. CASE UNCHANGED <<req, snap>>
  BY <1>t, <1>6 DEF ReqType, SnapType
<1> QED
  BY <1>1, <1>2, <1>3, <1>4, <1>5, <1>6, StepCases, Zenon
  DEF vars, Act, DropContainers, ExpireAdaptive, PageAsks, ProbeTimesOut, Reserve, Hit, Probe, Store, Enter

LEMMA TypeStep == ASSUME TypeOK, ClockInv, SourceInv, [Next]_vars PROVE TypeOK'
<1>1. TypeOK' <=> ScalarType' /\ SrcType' /\ RdType' /\ ReqType' /\ SnapType'
  BY DEF TypeOK, ScalarType, SrcType, RdType, ReqType, SnapType, SrcRec, RdRec, ReqRec, SnapRec
<1> QED
  BY <1>1, ScalarStep, SrcStep, RdStep, RequestStep

-----------------------------------------------------------------------------
(* Preservation, one lemma for each part. *)

LEMMA Numbers ==
  ASSUME TypeOK
  PROVE  /\ host \in Nat /\ told \in Nat /\ gen["status"] \in Nat /\ gen["containers"] \in Nat
         /\ \A s \in Sources : Gate(s) \in Nat
         /\ \A s \in Sources : src[s].val \in Nat \cup {None}
         /\ \A a \in Readers, s \in Sources : rd[a][s].began \in Nat /\ rd[a][s].val \in Nat
         /\ \A r \in Requests : req[r].need \in Nat /\ req[r].began \in Nat
  BY ConstantsAssumption, TypeParts
  DEF ScalarType, SrcType, SrcRec, RdType, RdRec, ReqType, ReqRec, Versions, Gate

LEMMA ClockStep == ASSUME TypeOK, ClockInv, [Next]_vars PROVE ClockInv'
<1>t. ScalarType
  BY TypeParts
<1>n. host \in Nat /\ told \in Nat /\ gen["status"] \in Nat /\ gen["containers"] \in Nat
  BY Numbers
<1>1. CASE Act
  BY <1>n, <1>1 DEF Act, ClockInv
<1>2. CASE Bump
  BY <1>t, <1>n, <1>2 DEF Bump, ClockInv, ScalarType
<1>3. CASE DropContainers
  BY <1>t, <1>n, <1>3 DEF DropContainers, ClockInv, ScalarType
<1>4. CASE ExpireAdaptive
  BY <1>n, <1>4 DEF ExpireAdaptive, ClockInv
<1>5. CASE UNCHANGED <<host, op, told, gen>>
  BY <1>5 DEF ClockInv
<1> QED
  BY <1>1, <1>2, <1>3, <1>4, <1>5, ScalarCases

LEMMA SourceStep ==
  ASSUME TypeOK, ClockInv, SourceInv, ReadInv, [Next]_vars
  PROVE  SourceInv'
<1> USE ConstantsAssumption
<1>t. SrcType
  BY TypeParts
<1>n. /\ host \in Nat /\ told \in Nat /\ gen["status"] \in Nat /\ gen["containers"] \in Nat
      /\ told <= gen["status"]
      /\ \A a \in Readers, s \in Sources : rd[a][s].began \in Nat /\ rd[a][s].val \in Nat
  BY Numbers, TypeParts DEF ClockInv, ScalarType
<1>1. CASE DropContainers
  BY <1>t, <1>1 DEF DropContainers, SourceInv, SrcType, SrcRec, Sources
<1>2. CASE ExpireAdaptive
  BY <1>t, <1>2 DEF ExpireAdaptive, SourceInv, SrcType, SrcRec, Sources
<1>3. CASE Expire
  BY <1>t, <1>3 DEF Expire, SourceInv, SrcType, SrcRec, Sources
<1>4. ASSUME NEW a \in Readers, Reserve(a) PROVE SourceInv'
  BY <1>t, <1>4 DEF Reserve, SourceInv, SrcType, SrcRec, Sources
<1>5. ASSUME NEW a \in Readers, NEW s \in Sources, Store(a, s) PROVE SourceInv'
  <2>1. CASE Superseded(a, s)
    BY <1>t, <1>5, <2>1 DEF Store, SourceInv, SrcType, SrcRec, Sources
  <2>2. CASE ~Superseded(a, s)
    <3>1. rd[a][s].val >= Gate(s) /\ rd[a][s].val # None
      BY <1>n, <1>5, <2>2 DEF Store, Superseded, ReadInv
    <3>2. src' = [src EXCEPT ![s] = [val |-> rd[a][s].val, fresh |-> TRUE, holder |-> None]]
      BY <1>5, <2>2 DEF Store
    <3>3. UNCHANGED <<told, gen>>
      BY <1>5 DEF Store
    <3>4. CASE s = "containers"
      BY <1>t, <1>n, <3>1, <3>2, <3>3, <3>4 DEF SourceInv, SrcType, Gate, Sources
    <3>5. CASE s = "adaptive"
      BY <1>t, <1>n, <3>1, <3>2, <3>3, <3>5 DEF SourceInv, SrcType, Gate, Sources
    <3> QED
      BY <3>4, <3>5 DEF Sources
  <2> QED
    BY <2>1, <2>2
<1>6. ASSUME NEW a \in Readers, NEW s \in Sources, Enter(a, s) PROVE SourceInv'
  BY <1>t, <1>6 DEF Enter, SourceInv, SrcType, SrcRec, Sources
<1>7. CASE Bump
  BY <1>7 DEF Bump, SourceInv, ClockInv
<1>8. CASE UNCHANGED <<src, told, gen>>
  BY <1>8 DEF SourceInv
<1> QED
  BY <1>1, <1>2, <1>3, <1>4, <1>5, <1>6, <1>7, <1>8, StepCases, Zenon
  DEF vars, Act, PageAsks, ProbeTimesOut, Hit, Probe, Ask, Begin, Finish

\* What a source serves as fresh is as new as the last invalidation.
LEMMA FreshIsNew ==
  ASSUME TypeOK, ClockInv, SourceInv, NEW s \in Sources, src[s].fresh
  PROVE  src[s].val \in Nat /\ src[s].val >= told
<1>n. /\ told \in Nat /\ gen["containers"] \in Nat
      /\ told <= gen["containers"]
      /\ src[s].val \in Nat \cup {None}
  BY Numbers, TypeParts DEF ClockInv, ScalarType
<1> QED
  BY <1>n DEF SourceInv, Sources

LEMMA ReadStep == ASSUME TypeOK, ClockInv, SourceInv, ReadInv, [Next]_vars PROVE ReadInv'
<1> USE ConstantsAssumption
<1>t. RdType
  BY TypeParts
<1>n. /\ host \in Nat /\ gen["status"] \in Nat /\ gen["containers"] \in Nat
      /\ gen["status"] <= host /\ gen["containers"] <= host
      /\ \A s \in Sources : Gate(s) \in Nat
      /\ \A a \in Readers, s \in Sources : rd[a][s].began \in Nat /\ rd[a][s].val \in Nat
  BY Numbers, TypeParts DEF ClockInv, ScalarType
<1>r. \A r \in Requests : r \in Readers
  BY DEF Readers
<1>g. ASSUME NEW a \in Readers, NEW s \in Sources, NEW x \in RdRec, UNCHANGED gen,
             rd' = [rd EXCEPT ![a][s] = x],
             x.began <= Gate(s),
             x.pc \in {"store", "late"} => x.val >= x.began,
             x.pc = "late" => s = "containers"
      PROVE  ReadInv'
  BY <1>t, <1>g DEF ReadInv, RdType, Gate
<1>o. ASSUME NEW a \in Readers, NEW s \in Sources, NEW v \in Nat, Got(a, s, v), UNCHANGED gen
      PROVE  ReadInv'
  BY <1>t, <1>n, <1>o DEF Got, NoReads, ReadInv, RdType, Gate
<1>1. CASE Bump
  BY <1>n, <1>1 DEF Bump, ReadInv, Gate, TypeOK
<1>2. CASE DropContainers
  BY <1>n, <1>2 DEF DropContainers, ReadInv, Gate, TypeOK
<1>3. CASE PageAsks
  BY <1>t, <1>n, <1>3 DEF PageAsks, Asking, ReadInv, RdType, Gate
<1>4. ASSUME NEW a \in Readers, ProbeTimesOut(a) PROVE ReadInv'
  BY <1>t, <1>n, <1>4 DEF ProbeTimesOut, ReadInv, RdType, Gate, Sources
<1>5. ASSUME NEW a \in Readers, Reserve(a) PROVE ReadInv'
  <2>1. src["containers"].val \in Nat
    BY <1>5, Numbers DEF Reserve, Sources
  <2> QED
    BY <1>o, <1>5, <2>1 DEF Reserve, Sources
<1>6. ASSUME NEW a \in Readers, NEW s \in Sources, Hit(a, s) PROVE ReadInv'
  BY <1>o, <1>6, FreshIsNew DEF Hit
<1>7. ASSUME NEW a \in Readers, NEW s \in Sources, Probe(a, s) PROVE ReadInv'
  <2>1. rd[a][s].began <= Gate(s)
    BY DEF ReadInv
  <2>2. Gate(s) <= host
    BY <1>n DEF Gate
  <2> QED
    BY <1>t, <1>n, <1>7, <2>1, <2>2 DEF Probe, ReadInv, RdType, Gate
<1>8. ASSUME NEW a \in Readers, NEW s \in Sources, Store(a, s) PROVE ReadInv'
  BY <1>n, <1>o, <1>8 DEF Store
<1>9. ASSUME NEW a \in Readers, NEW s \in Sources, Enter(a, s) PROVE ReadInv'
  BY <1>t, <1>n, <1>9 DEF Enter, ReadInv, RdType, Gate
<1>10. ASSUME NEW r \in Requests, Begin(r) PROVE ReadInv'
  BY <1>t, <1>n, <1>r, <1>10 DEF Begin, Asking, ReadInv, RdType, Gate
<1>11. ASSUME NEW r \in Requests, Finish(r) PROVE ReadInv'
  BY <1>t, <1>n, <1>r, <1>11 DEF Finish, NoReads, ReadInv, RdType, Gate
<1>12. CASE UNCHANGED <<rd, gen>>
  BY <1>12 DEF ReadInv, Gate
<1> QED
  BY <1>1, <1>2, <1>3, <1>4, <1>5, <1>6, <1>7, <1>8, <1>9, <1>10, <1>11, <1>12, StepCases, Zenon
  DEF vars, Act, ExpireAdaptive, Expire, Ask

LEMMA SnapStep == ASSUME TypeOK, ClockInv, BuildInv, SnapInv, [Next]_vars PROVE SnapInv'
<1>n. /\ told \in Nat /\ gen["status"] \in Nat /\ told <= gen["status"]
      /\ \A r \in Requests : req[r].began \in Nat
      /\ \A r \in Requests, s \in Sources : rd[r][s].val \in Nat
  BY Numbers, TypeParts DEF ClockInv, ScalarType, Readers
<1>t. SnapType
  BY TypeParts
<1>1. CASE Bump
  BY <1>t, <1>1 DEF Bump, SnapInv, SnapType, SnapRec
<1>2. CASE DropContainers
  BY <1>2 DEF DropContainers, SnapInv, TypeOK
<1>3. CASE Expire
  BY <1>t, <1>3 DEF Expire, SnapInv, SnapType, SnapRec
<1>4. ASSUME NEW r \in Requests, Begin(r) PROVE SnapInv'
  BY <1>t, <1>4 DEF Begin, SnapInv, SnapType, SnapRec
<1>5. ASSUME NEW r \in Requests, Finish(r) PROVE SnapInv'
  <2>1. CASE snap' = [snap EXCEPT !.holder = None]
    BY <1>t, <1>5, <2>1 DEF Finish, SnapInv, SnapType, SnapRec
  <2>2. CASE snap' = Published(r) /\ gen["status"] # req[r].began
    BY <1>t, <1>5, <2>2 DEF Finish, Published, SnapInv, SnapType, SnapRec
  <2>3. CASE snap' = Published(r) /\ gen["status"] = req[r].began
    <3>1. /\ snap'.val = [s \in Sources |-> rd[r][s].val]
          /\ snap'.gap = req[r].gap
      BY <2>3 DEF Published
    <3>2. [s \in Sources |-> rd[r][s].val] \in [Sources -> Versions]
      BY TypeParts DEF RdType, RdRec, Readers
    <3>3. [s \in Sources |-> rd[r][s].val] # None
      BY <3>2, NoneIsNoListing DEF Listing
    <3> QED
      BY <1>n, <1>5, <2>3, <3>1, <3>3 DEF Finish, Collected, BuildInv, SnapInv
  <2> QED
    BY <1>5, <2>1, <2>2, <2>3 DEF Finish
<1>6. CASE UNCHANGED <<snap, gen>>
  BY <1>6 DEF SnapInv
<1> QED
  BY <1>1, <1>2, <1>3, <1>4, <1>5, <1>6, StepCases, Zenon
  DEF vars, Act, ExpireAdaptive, PageAsks, ProbeTimesOut, Reserve, Hit, Probe, Store, Enter, Ask

LEMMA BuildStep ==
  ASSUME TypeOK, ClockInv, SourceInv, ReadInv, BuildInv, [Next]_vars
  PROVE  BuildInv'
<1> USE ConstantsAssumption
<1>t. RdType /\ ReqType /\ SnapType
  BY TypeParts
<1>n. /\ told \in Nat /\ gen["status"] \in Nat /\ gen["containers"] \in Nat
      /\ told <= gen["status"] /\ told <= gen["containers"]
      /\ ~Gap => gen["status"] = told
      /\ \A s \in Sources : Gate(s) \in Nat /\ told <= Gate(s)
      /\ \A r \in Requests : req[r].need \in Nat /\ req[r].began \in Nat
      /\ \A a \in Readers, s \in Sources : rd[a][s].began \in Nat /\ rd[a][s].val \in Nat
  BY Numbers, TypeParts DEF ClockInv, ScalarType, Gap, Gate
<1>r. \A r \in Requests : r \in Readers /\ r # "page"
  BY DEF Readers
<1>1. CASE Bump
  BY <1>n, <1>1 DEF Bump, BuildInv, TypeOK
<1>2. CASE DropContainers
  BY <1>2 DEF DropContainers, BuildInv, TypeOK
<1>3. CASE ExpireAdaptive
  <2>1. told' \in Nat /\ told <= told'
    BY <1>n, <1>3, Numbers DEF ExpireAdaptive, ClockInv
  <2> QED
    BY <1>n, <1>3, <2>1 DEF ExpireAdaptive, BuildInv
<1>4. CASE PageAsks
  BY <1>t, <1>r, <1>4 DEF PageAsks, BuildInv, RdType
<1>5. ASSUME NEW a \in Readers, ProbeTimesOut(a) PROVE BuildInv'
  BY <1>t, <1>r, <1>5 DEF ProbeTimesOut, BuildInv, RdType, Sources
<1>o. ASSUME NEW a \in Readers, NEW s \in Sources, NEW v \in Nat, Got(a, s, v),
             UNCHANGED <<told, gen, req>>, rd[a][s].pc # "off",
             a \in Requests => /\ v >= req[a].need
                               /\ ~req[a].gap => v >= req[a].began
      PROVE  BuildInv'
  <2>1. CASE a = "page"
    <3>1. \A r \in Requests : rd'[r] = rd[r]
      BY <1>t, <1>r, <1>o, <2>1 DEF Got, RdType
    <3> QED
      BY <1>o, <3>1 DEF BuildInv
  <2>2. CASE a # "page"
    <3>1. a \in Requests
      BY <2>2 DEF Readers
    <3>2. \A r \in Requests, q \in Sources :
            rd'[r][q] = IF r = a /\ q = s THEN [pc |-> "got", began |-> 0, val |-> v] ELSE rd[r][q]
      BY <1>t, <1>r, <1>o, <2>2 DEF Got, RdType
    <3>3. req[a].pc = "build"
      BY <1>o, <3>1 DEF BuildInv
    <3>4. rd'[a][s].pc = "got" /\ rd'[a][s].val = v
      BY <3>1, <3>2
    <3>5. \A r \in Requests, q \in Sources : ~(r = a /\ q = s) => rd'[r][q] = rd[r][q]
      BY <3>2
    <3>6. UNCHANGED <<told, gen, req>>
      BY <1>o
    <3>7. a \in Requests => /\ v >= req[a].need
                            /\ ~req[a].gap => v >= req[a].began
      BY <1>o
    <3>8. ASSUME NEW r \in Requests, NEW q \in Sources
          PROVE  /\ rd'[r][q].pc # "off" => req[r].pc = "build"
                 /\ rd'[r][q].pc \in {"probe", "store", "late"} =>
                      /\ rd'[r][q].began >= req[r].need
                      /\ ~req[r].gap => rd'[r][q].began >= req[r].began
                 /\ rd'[r][q].pc = "got" =>
                      /\ rd'[r][q].val >= req[r].need
                      /\ ~req[r].gap => rd'[r][q].val >= req[r].began
      <4>1. CASE r = a /\ q = s
        <5>1. rd'[r][q].pc = "got" /\ rd'[r][q].val = v
          BY <3>4, <4>1, Zenon
        <5>2. /\ req[r].pc = "build" /\ v >= req[r].need
              /\ ~req[r].gap => v >= req[r].began
          <6>1. r = a
            BY <4>1
          <6>2. req[r].pc = "build"
            BY <3>3, <6>1
          <6>3. v >= req[r].need
            BY <3>1, <3>7, <6>1, Zenon
          <6>4. ~req[r].gap => v >= req[r].began
            BY <3>1, <3>7, <6>1, Zenon
          <6> QED
            BY <6>2, <6>3, <6>4
        <5> QED
          BY <5>1, <5>2
      <4>2. CASE ~(r = a /\ q = s)
        <5>1. rd'[r][q] = rd[r][q]
          BY <3>5, <4>2
        <5> QED
          BY <5>1 DEF BuildInv
      <4> QED
        BY <4>1, <4>2
    <3> QED
      BY <3>6, <3>8 DEF BuildInv
  <2> QED
    BY <2>1, <2>2
<1>6. ASSUME NEW a \in Readers, Reserve(a) PROVE BuildInv'
  <2>1. src["containers"].val \in Nat /\ src["containers"].val >= gen["containers"]
    BY <1>6, Numbers DEF Reserve, Sources, SourceInv
  <2>2. rd[a]["containers"].began = gen["containers"] /\ "containers" \in Sources
    BY <1>6 DEF Reserve, Superseded, Gate, Sources
  <2> QED
    BY <1>n, <1>o, <1>6, <2>1, <2>2 DEF Reserve, BuildInv
<1>7. ASSUME NEW a \in Readers, NEW s \in Sources, Hit(a, s) PROVE BuildInv'
  <2>1. src[s].val \in Nat /\ src[s].val >= told
    BY <1>7, FreshIsNew DEF Hit
  <2> QED
    BY <1>n, <1>o, <1>7, <2>1 DEF Hit, BuildInv
<1>8. ASSUME NEW a \in Readers, NEW s \in Sources, Probe(a, s) PROVE BuildInv'
  BY <1>t, <1>r, <1>8 DEF Probe, BuildInv, RdType
<1>9. ASSUME NEW a \in Readers, NEW s \in Sources, Store(a, s) PROVE BuildInv'
  <2>1. rd[a][s].val >= rd[a][s].began
    BY <1>9 DEF Store, ReadInv
  <2> QED
    BY <1>n, <1>o, <1>9, <2>1 DEF Store, BuildInv
<1>10. ASSUME NEW a \in Readers, NEW s \in Sources, Enter(a, s) PROVE BuildInv'
  BY <1>t, <1>n, <1>r, <1>10 DEF Enter, BuildInv, RdType
<1>11. ASSUME NEW r \in Requests, Ask(r) PROVE BuildInv'
  BY <1>t, <1>n, <1>11 DEF Ask, BuildInv, ReqType, ReqRec
<1>12. ASSUME NEW r \in Requests, Begin(r) PROVE BuildInv'
  <2>1. CASE ~req[r].force /\ snap.fresh
    <3>1. rd' = rd /\ req' = [req EXCEPT ![r] = NoCall]
      BY <1>12, <2>1 DEF Begin
    <3>2. \A s \in Sources : rd[r][s].pc = "off"
      BY <1>12 DEF Begin, BuildInv
    <3> QED
      BY <1>t, <1>n, <1>12, <3>1, <3>2 DEF Begin, NoCall, BuildInv, ReqType
  <2>2. CASE ~(~req[r].force /\ snap.fresh)
    <3>0. req' = [req EXCEPT ![r].pc = "build", ![r].began = gen["status"], ![r].gap = Gap]
      BY <1>12, <2>2, Zenon DEF Begin
    <3>1. /\ req'[r].pc = "build" /\ req'[r].began = gen["status"] /\ req'[r].gap = Gap
          /\ req'[r].need = req[r].need
          /\ \A i \in Requests \ {r} : req'[i] = req[i]
      BY <1>t, <3>0 DEF ReqType, ReqRec
    <3>2. /\ \A s \in Sources : rd'[r][s].pc = "ask"
          /\ \A i \in Requests \ {r} : rd'[i] = rd[i]
      BY <1>t, <1>r, <1>12, <2>2 DEF Begin, Asking, RdType
    <3>3. UNCHANGED <<told, gen>>
      BY <1>12 DEF Begin
    <3> QED
      BY <1>n, <3>1, <3>2, <3>3 DEF BuildInv
  <2> QED
    BY <2>1, <2>2
<1>13. ASSUME NEW r \in Requests, Finish(r) PROVE BuildInv'
  BY <1>t, <1>n, <1>r, <1>13 DEF Finish, NoReads, NoCall, BuildInv, ReqType, ReqRec, RdType
<1>14. CASE UNCHANGED <<told, gen, req, rd>>
  BY <1>14 DEF BuildInv
<1> QED
  BY <1>1, <1>2, <1>3, <1>4, <1>5, <1>6, <1>7, <1>8, <1>9, <1>10, <1>11, <1>12, <1>13, <1>14,
     StepCases, Zenon
  DEF vars, Act, Expire

-----------------------------------------------------------------------------
(* The theorems. *)

LEMMA InvInit == Init => IInv
<1>1. Init => TypeOK
  BY ConstantsAssumption
  DEF Init, TypeOK, NoCall, NoReads, Versions, Sources, Readers, Listing
<1>2. Init => ClockInv /\ SourceInv /\ ReadInv /\ BuildInv /\ SnapInv
  BY ConstantsAssumption
  DEF Init, ClockInv, SourceInv, ReadInv, BuildInv, SnapInv, NoCall, NoReads, Gate, Sources, Readers
<1> QED
  BY <1>1, <1>2 DEF IInv

LEMMA InvStep == IInv /\ [Next]_vars => IInv'
  BY TypeStep, ClockStep, SourceStep, ReadStep, BuildStep, SnapStep DEF IInv

LEMMA InvAlways == Spec => []IInv
  BY InvInit, InvStep, PTL DEF Spec

\* The state keeps its type.
THEOREM TypeCorrect == Spec => []TypeOK
<1>1. IInv => TypeOK
  BY DEF IInv
<1> QED
  BY <1>1, InvAlways, PTL

\* For any number of requests and actions, what is served after invalidate_status
\* returned shows the action, through both levels of caches (full_status,
\* invalidate_status).
THEOREM ActionAlwaysShown == Spec => []ActionShown
<1>1. ASSUME IInv PROVE ActionShown
  <2>n. /\ told \in Nat /\ gen["status"] \in Nat /\ told <= gen["status"]
    BY <1>1, Numbers, TypeParts DEF IInv, ClockInv, ScalarType
  <2>1. ASSUME NEW r \in Requests, Collected(r), NEW s \in Sources
        PROVE  rd[r][s].val >= req[r].need
    BY <1>1, <2>1 DEF IInv, BuildInv, Collected
  <2>2. ASSUME snap.fresh, ~snap.gap, NEW s \in Sources PROVE snap.val[s] >= told
    <3>1. snap.val[s] >= gen["status"]
      BY <1>1, <2>2 DEF IInv, SnapInv
    <3>2. snap.val \in Listing \cup {None}
      BY <1>1, TypeParts DEF IInv, SnapType, SnapRec
    <3>3. snap.val[s] \in Nat
      BY <1>1, <2>2, <3>2, ConstantsAssumption DEF IInv, SnapInv, Listing, Versions
    <3> QED
      BY <2>n, <3>1, <3>3
  <2> QED
    BY <2>1, <2>2 DEF ActionShown
<1> QED
  BY <1>1, InvAlways, PTL

\* The listing serves as fresh only what was read after its last drop, however
\* often docker ps times out (_refresh).
THEOREM ListingIsNew == Spec => []FreshSinceDrop
<1>1. IInv => FreshSinceDrop
  BY FreshIsNew DEF IInv, FreshSinceDrop, Sources
<1> QED
  BY <1>1, InvAlways, PTL

-----------------------------------------------------------------------------
(* The snapshot never goes back.  One reader at a time probes a source,     *)
(* which nobody serves as fresh meanwhile, and one request at a time builds *)
(* the snapshot.  So whatever may still be handed out, from a cache or by a *)
(* probe under way, is no older than what has been handed out before.       *)

InFlight(a, s) == rd[a][s].pc \in {"probe", "store", "late"}

Usable(s) == IF s = "containers" THEN src[s].val # None ELSE src[s].fresh

\* Probes and builds exclude each other; a listing whose refresh was overtaken
\* by a drop stays dropped.
HeldInv ==
  /\ \A a \in Readers, s \in Sources : InFlight(a, s) => src[s].holder = a /\ ~src[s].fresh
  /\ \A r \in Requests : req[r].pc = "build" => snap.holder = r
  /\ \A a \in Readers :
       InFlight(a, "containers") /\ Superseded(a, "containers") => src["containers"].val = None

\* Nothing has been read that has not happened.
PastInv ==
  /\ \A s \in Sources : src[s].val # None => src[s].val <= host
  /\ \A a \in Readers, s \in Sources : rd[a][s].val <= host

\* Nobody will be handed out anything older than v.
NoneOlder(v, s) ==
  /\ v <= host
  /\ Usable(s) => v <= src[s].val
  /\ \A a \in Readers : rd[a][s].pc \in {"store", "late"} => v <= rd[a][s].val

AgeInv ==
  \A s \in Sources :
    /\ snap.val # None => NoneOlder(snap.val[s], s)
    /\ \A r \in Requests : rd[r][s].pc = "got" =>
         /\ NoneOlder(rd[r][s].val, s)
         /\ snap.val # None => snap.val[s] <= rd[r][s].val

KeptInv == IInv /\ HeldInv /\ PastInv /\ AgeInv

\* The reads under way after a reader was handed its value.
LEMMA GotPoint ==
  ASSUME TypeOK, NEW a \in Readers, NEW s \in Sources, NEW v \in Nat, Got(a, s, v)
  PROVE  /\ rd'[a][s].pc \in {"off", "got"} /\ rd'[a][s].val \in {0, v}
         /\ rd'[a][s].pc = "got" => rd'[a][s].val = v
         /\ \A b \in Readers, q \in Sources : b # a \/ q # s => rd'[b][q] = rd[b][q]
<1>1. NoReads[s].pc = "off" /\ NoReads[s].val = 0
  BY DEF NoReads
<1> DEFINE x == IF a = "page" THEN NoReads[s] ELSE [pc |-> "got", began |-> 0, val |-> v]
<1>2. rd' = [rd EXCEPT ![a][s] = x]
  BY DEF Got
<1>3. /\ rd'[a][s] = x
      /\ \A b \in Readers, q \in Sources : b # a \/ q # s => rd'[b][q] = rd[b][q]
  <2> HIDE DEF x
  <2> QED
    BY <1>2, TypeParts DEF RdType
<1>4. CASE a = "page"
  BY <1>1, <1>3, <1>4
<1>5. CASE a # "page"
  BY <1>3, <1>5
<1> QED
  BY <1>4, <1>5

\* A step that hands v, a reading of s, to a: v was cached or a has just probed
\* it, and the source is left with nothing older.
HandsOut(a, s, v) ==
  /\ v <= host
  /\ Got(a, s, v)
  /\ UNCHANGED <<host, op, told, gen, snap, req>>
  /\ \/ v = src[s].val /\ Usable(s)
     \/ v = rd[a][s].val /\ rd[a][s].pc \in {"store", "late"}
  /\ Usable(s)' => \/ src'[s].val = v
                   \/ src'[s].val = src[s].val /\ Usable(s) /\ v <= src[s].val
  /\ src'[s].val # None => src'[s].val <= host
  /\ \A q \in Sources : q # s => src'[q] = src[q]
  /\ \A b \in Readers : b # a => ~InFlight(b, s)

\* The steps that hand out a reading (_refresh, _adaptive_info).
LEMMA HandOut ==
  ASSUME KeptInv, NEW a \in Readers, NEW s \in Sources,
         Hit(a, s) \/ Store(a, s) \/ (s = "containers" /\ Reserve(a))
  PROVE  \E v \in Nat : HandsOut(a, s, v)
<1> USE DEF KeptInv, IInv
<1>n. /\ src[s].val \in Nat \cup {None} /\ rd[a][s].val \in Nat /\ None \notin Nat
      /\ host \in Nat
  BY Numbers, ConstantsAssumption
<1>1. CASE Hit(a, s)
  <2>1. src[s].val \in Nat /\ Usable(s)
    BY <1>1, FreshIsNew DEF Hit, Usable, SourceInv
  <2>2. src' = src
    BY <1>1 DEF Hit
  <2>3. \A b \in Readers : ~InFlight(b, s)
    BY <1>1 DEF Hit, HeldInv
  <2>4. src[s].val <= host
    BY <1>n, <2>1 DEF PastInv
  <2>5. HandsOut(a, s, src[s].val)
    BY <1>1, <1>n, <2>1, <2>2, <2>3, <2>4 DEF Hit, HandsOut
  <2> QED
    BY <2>1, <2>5
<1>2. CASE s = "containers" /\ Reserve(a)
  <2>1. src[s].val \in Nat /\ Usable(s) /\ InFlight(a, s)
    BY <1>2, <1>n DEF Reserve, Usable, InFlight
  <2>2. src' = [src EXCEPT ![s].fresh = TRUE, ![s].holder = None]
    BY <1>2 DEF Reserve
  <2>3. src'[s].val = src[s].val /\ \A q \in Sources : q # s => src'[q] = src[q]
    BY <2>2, TypeParts DEF SrcType, SrcRec
  <2>4. \A b \in Readers : b # a => ~InFlight(b, s)
    BY <2>1 DEF HeldInv
  <2>5. src[s].val <= host
    BY <1>n, <2>1 DEF PastInv
  <2>6. Got(a, s, src[s].val) /\ UNCHANGED <<host, op, told, gen, snap, req>>
    BY <1>2 DEF Reserve
  <2>7. HandsOut(a, s, src[s].val)
    BY <1>n, <2>1, <2>3, <2>4, <2>5, <2>6 DEF HandsOut
  <2> QED
    BY <2>1, <2>7
<1>3. CASE Store(a, s)
  <2>1. rd[a][s].pc \in {"store", "late"} /\ InFlight(a, s)
    BY <1>3 DEF Store, InFlight
  <2>2. \A b \in Readers : b # a => ~InFlight(b, s)
    BY <2>1 DEF HeldInv
  <2>3. rd[a][s].val <= host
    BY DEF PastInv
  <2>4. UNCHANGED <<host, op, told, gen, snap, req>> /\ Got(a, s, rd[a][s].val)
    BY <1>3 DEF Store
  <2>5. CASE Superseded(a, s)
    <3>1. src' = [src EXCEPT ![s] = [src[s] EXCEPT !.holder = None]]
      BY <1>3, <2>5 DEF Store
    <3>2. /\ src'[s].val = src[s].val /\ src'[s].fresh = src[s].fresh
          /\ \A q \in Sources : q # s => src'[q] = src[q]
      BY <3>1, TypeParts DEF SrcType, SrcRec
    <3>3. ~Usable(s)
      BY <2>1, <2>5 DEF HeldInv, Usable
    <3>4. ~Usable(s)'
      BY <3>2, <3>3 DEF Usable
    <3>5. src'[s].val # None => src'[s].val <= host
      BY <3>2 DEF PastInv
    <3>6. HandsOut(a, s, rd[a][s].val)
      BY <2>1, <2>2, <2>3, <2>4, <3>2, <3>4, <3>5 DEF HandsOut
    <3> QED
      BY <1>n, <3>6
  <2>6. CASE ~Superseded(a, s)
    <3>1. src' = [src EXCEPT ![s] = [val |-> rd[a][s].val, fresh |-> TRUE, holder |-> None]]
      BY <1>3, <2>6 DEF Store
    <3>2. /\ src'[s] = [val |-> rd[a][s].val, fresh |-> TRUE, holder |-> None]
          /\ \A q \in Sources : q # s => src'[q] = src[q]
      BY <3>1, TypeParts DEF SrcType
    <3>3. src'[s].val = rd[a][s].val
      BY <3>2
    <3>6. HandsOut(a, s, rd[a][s].val)
      BY <1>n, <2>1, <2>2, <2>3, <2>4, <3>2, <3>3 DEF HandsOut
    <3> QED
      BY <1>n, <3>6
  <2> QED
    BY <2>5, <2>6
<1> QED
  BY <1>1, <1>2, <1>3

-----------------------------------------------------------------------------
(* Every step keeps KeptInv. *)

\* NoneOlder in the next state, of a value of this one.
NoneOlderNext(v, s) ==
  /\ v <= host'
  /\ (IF s = "containers" THEN src'[s].val # None ELSE src'[s].fresh) => v <= src'[s].val
  /\ \A a \in Readers : rd'[a][s].pc \in {"store", "late"} => v <= rd'[a][s].val

LEMMA HandOutCases ==
  ASSUME KeptInv, [Next]_vars
  PROVE  \/ UNCHANGED vars
         \/ Act \/ Bump \/ DropContainers \/ ExpireAdaptive \/ Expire \/ PageAsks
         \/ \E a \in Readers : ProbeTimesOut(a)
         \/ \E a \in Readers, s \in Sources : Probe(a, s) \/ Enter(a, s)
         \/ \E a \in Readers, s \in Sources, v \in Nat : HandsOut(a, s, v)
         \/ \E r \in Requests : Ask(r) \/ Begin(r) \/ Finish(r)
<1>1. "containers" \in Sources
  BY DEF Sources
<1>2. ASSUME NEW a \in Readers, NEW s \in Sources, Hit(a, s) \/ Store(a, s)
      PROVE  \E v \in Nat : HandsOut(a, s, v)
  BY <1>2, HandOut
<1>3. ASSUME NEW a \in Readers, Reserve(a)
      PROVE  \E v \in Nat : HandsOut(a, "containers", v)
  BY <1>1, <1>3, HandOut
<1> QED
  BY <1>1, <1>2, <1>3, StepCases, Zenon

\* What has been handed out stays the oldest there is.
LEMMA AgeKept ==
  ASSUME KeptInv, [Next]_vars, NEW v \in Nat, NEW s \in Sources, NoneOlder(v, s)
  PROVE  NoneOlderNext(v, s)
<1> USE DEF KeptInv, IInv
<1>t. RdType /\ SrcType
  BY TypeParts
<1>n. host \in Nat /\ None \notin Nat /\ "page" \in Readers /\ "containers" \in Sources
  BY Numbers, ConstantsAssumption DEF Readers, Sources
<1>o. /\ v <= host
      /\ Usable(s) => v <= src[s].val
      /\ \A a \in Readers : rd[a][s].pc \in {"store", "late"} => v <= rd[a][s].val
  BY DEF NoneOlder
<1>1. CASE UNCHANGED <<host, src, rd>>
  BY <1>o, <1>1 DEF NoneOlderNext, Usable
<1>2. CASE Act
  BY <1>n, <1>o, <1>2 DEF Act, NoneOlderNext, Usable
<1>3. CASE DropContainers
  BY <1>t, <1>o, <1>3 DEF DropContainers, NoneOlderNext, Usable, SrcType, SrcRec, Sources
<1>4. CASE ExpireAdaptive
  BY <1>t, <1>o, <1>4 DEF ExpireAdaptive, NoneOlderNext, Usable, SrcType, SrcRec, Sources
<1>5. CASE Expire
  BY <1>t, <1>o, <1>5 DEF Expire, NoneOlderNext, Usable, SrcType, SrcRec
<1>6. CASE PageAsks
  <2>1. rd'["page"]["containers"] = Asking /\ UNCHANGED <<host, src>>
    BY <1>t, <1>n, <1>6 DEF PageAsks, RdType
  <2>2. \A b \in Readers, q \in Sources : b # "page" \/ q # "containers" => rd'[b][q] = rd[b][q]
    BY <1>t, <1>n, <1>6 DEF PageAsks, RdType
  <2> QED
    BY <1>o, <2>1, <2>2 DEF Asking, NoneOlderNext, Usable
<1>7. ASSUME NEW a \in Readers, ProbeTimesOut(a) PROVE NoneOlderNext(v, s)
  <2>1. PICK p \in {"late", "store"} :
          rd' = [rd EXCEPT ![a]["containers"] =
                   [pc |-> p, began |-> rd[a]["containers"].began, val |-> host]]
    BY <1>7 DEF ProbeTimesOut
  <2>2. /\ rd'[a]["containers"].val = host /\ UNCHANGED <<host, src>>
        /\ \A b \in Readers, q \in Sources : b # a \/ q # "containers" => rd'[b][q] = rd[b][q]
    BY <1>t, <1>n, <1>7, <2>1 DEF ProbeTimesOut, RdType
  <2> QED
    BY <1>n, <1>o, <2>2 DEF NoneOlderNext, Usable
<1>8. ASSUME NEW a \in Readers, NEW q \in Sources, Probe(a, q) PROVE NoneOlderNext(v, s)
  <2>1. /\ rd'[a][q].val = host /\ UNCHANGED <<host, src>>
        /\ \A b \in Readers, z \in Sources : b # a \/ z # q => rd'[b][z] = rd[b][z]
    BY <1>t, <1>8 DEF Probe, RdType
  <2> QED
    BY <1>n, <1>o, <2>1 DEF NoneOlderNext, Usable
<1>9. ASSUME NEW a \in Readers, NEW q \in Sources, Enter(a, q) PROVE NoneOlderNext(v, s)
  <2>1. /\ rd'[a][q].pc = "probe" /\ UNCHANGED host
        /\ \A b \in Readers, z \in Sources : b # a \/ z # q => rd'[b][z] = rd[b][z]
    BY <1>t, <1>9 DEF Enter, RdType
  <2>2. src'[s].val = src[s].val /\ src'[s].fresh = src[s].fresh
    BY <1>t, <1>9 DEF Enter, SrcType, SrcRec
  <2> QED
    BY <1>o, <2>1, <2>2 DEF NoneOlderNext, Usable
<1>10. ASSUME NEW a \in Readers, NEW q \in Sources, NEW w \in Nat, HandsOut(a, q, w)
       PROVE  NoneOlderNext(v, s)
  <2>1. /\ rd'[a][q].pc \in {"off", "got"}
        /\ \A b \in Readers, z \in Sources : b # a \/ z # q => rd'[b][z] = rd[b][z]
    BY <1>10, GotPoint DEF HandsOut
  <2>2. CASE s # q
    BY <1>o, <1>10, <2>1, <2>2 DEF HandsOut, NoneOlderNext, Usable
  <2>3. CASE s = q
    <3>1. v <= w
      BY <1>o, <1>10, <2>3 DEF HandsOut
    <3>2. Usable(s)' => v <= src'[s].val
      BY <1>o, <1>10, <2>3, <3>1 DEF HandsOut
    <3> QED
      BY <1>o, <1>10, <2>1, <2>3, <3>2 DEF HandsOut, NoneOlderNext, Usable
  <2> QED
    BY <2>2, <2>3
<1>11. ASSUME NEW r \in Requests, Begin(r) PROVE NoneOlderNext(v, s)
  <2>1. \A b \in Readers : rd'[b][s] = rd[b][s] \/ rd'[b][s].pc = "ask"
    BY <1>t, <1>11 DEF Begin, Asking, RdType
  <2> QED
    BY <1>o, <1>11, <2>1 DEF Begin, NoneOlderNext, Usable
<1>12. ASSUME NEW r \in Requests, Finish(r) PROVE NoneOlderNext(v, s)
  <2>1. \A b \in Readers : rd'[b][s] = rd[b][s] \/ rd'[b][s].pc = "off"
    BY <1>t, <1>12 DEF Finish, NoReads, RdType
  <2> QED
    BY <1>o, <1>12, <2>1 DEF Finish, NoneOlderNext, Usable
<1> QED
  BY <1>1, <1>2, <1>3, <1>4, <1>5, <1>6, <1>7, <1>8, <1>9, <1>10, <1>11, <1>12,
     HandOutCases, Zenon
  DEF vars, Bump, Ask

\* A reader moves on with one of its reads, which is then not under way.
MovesOn(a, s, pcs) ==
  /\ rd'[a][s].pc \in pcs
  /\ \A b \in Readers, q \in Sources : b # a \/ q # s => rd'[b][q] = rd[b][q]

LEMMA HeldStep == ASSUME KeptInv, [Next]_vars PROVE HeldInv'
<1> USE ConstantsAssumption DEF KeptInv, IInv
<1>t. RdType /\ SrcType /\ ReqType /\ SnapType
  BY TypeParts
<1>n. "page" \in Readers /\ "containers" \in Sources /\ None \notin Readers /\ Requests \subseteq Readers
  BY DEF Readers, Sources
<1>1. CASE UNCHANGED <<src, rd, req, gen>> /\ snap'.holder = snap.holder
  BY <1>1 DEF HeldInv, InFlight, Superseded, Gate
<1>2. CASE Bump
  BY <1>t, <1>2 DEF Bump, HeldInv, InFlight, Superseded, Gate, TypeOK, SnapType, SnapRec
<1>3. CASE DropContainers
  <2>1. \A s \in Sources : src'[s].holder = src[s].holder /\ (src'[s].fresh => src[s].fresh)
    BY <1>t, <1>3 DEF DropContainers, SrcType, SrcRec
  <2>2. src'["containers"].val = None
    BY <1>t, <1>n, <1>3 DEF DropContainers, SrcType, SrcRec
  <2> QED
    BY <1>3, <2>1, <2>2 DEF DropContainers, HeldInv, InFlight
<1>4. CASE ExpireAdaptive
  <2>1. \A s \in Sources : /\ src'[s].holder = src[s].holder /\ (src'[s].fresh => src[s].fresh)
                           /\ src'[s].val = src[s].val
    BY <1>t, <1>4 DEF ExpireAdaptive, SrcType, SrcRec
  <2> QED
    BY <1>4, <1>n, <2>1 DEF ExpireAdaptive, HeldInv, InFlight, Superseded, Gate
<1>5. CASE Expire
  <2>1. \A s \in Sources : /\ src'[s].holder = src[s].holder /\ (src'[s].fresh => src[s].fresh)
                           /\ src'[s].val = src[s].val
    BY <1>t, <1>5 DEF Expire, SrcType, SrcRec
  <2>2. snap'.holder = snap.holder
    BY <1>t, <1>5 DEF Expire, SnapType, SnapRec
  <2> QED
    BY <1>5, <1>n, <2>1, <2>2 DEF Expire, HeldInv, InFlight, Superseded, Gate
<1>6. CASE PageAsks
  <2>1. \A a \in Readers, s \in Sources : InFlight(a, s)' => rd'[a][s] = rd[a][s]
    BY <1>t, <1>n, <1>6 DEF PageAsks, Asking, RdType, InFlight
  <2> QED
    BY <1>6, <1>n, <2>1 DEF PageAsks, HeldInv, InFlight, Superseded, Gate
<1>7. ASSUME NEW a \in Readers, ProbeTimesOut(a) PROVE HeldInv'
  <2>1. \A b \in Readers, s \in Sources :
          /\ rd'[b][s].began = rd[b][s].began
          /\ InFlight(b, s)' => InFlight(b, s)
    BY <1>t, <1>n, <1>7 DEF ProbeTimesOut, RdType, RdRec, InFlight
  <2> QED
    BY <1>7, <1>n, <2>1 DEF ProbeTimesOut, HeldInv, Superseded, Gate
<1>8. ASSUME NEW a \in Readers, NEW q \in Sources, Probe(a, q) PROVE HeldInv'
  <2>1. \A b \in Readers, s \in Sources :
          /\ rd'[b][s].began = rd[b][s].began
          /\ InFlight(b, s)' => InFlight(b, s)
    BY <1>t, <1>8 DEF Probe, RdType, RdRec, InFlight
  <2> QED
    BY <1>8, <1>n, <2>1 DEF Probe, HeldInv, Superseded, Gate
<1>9. ASSUME NEW a \in Readers, NEW q \in Sources, Enter(a, q) PROVE HeldInv'
  <2>1. \A b \in Readers : ~InFlight(b, q)
    BY <1>9, <1>n DEF Enter, HeldInv
  <2>2. /\ rd'[a][q].began = Gate(q)
        /\ \A b \in Readers, z \in Sources : b # a \/ z # q => rd'[b][z] = rd[b][z]
    BY <1>t, <1>9 DEF Enter, RdType
  <2>3. /\ src'[q].holder = a /\ ~src'[q].fresh
        /\ \A z \in Sources : z # q => src'[z] = src[z]
    BY <1>t, <1>9 DEF Enter, SrcType, SrcRec
  <2>4. UNCHANGED <<gen, snap, req>>
    BY <1>9 DEF Enter
  <2>5. ASSUME NEW b \in Readers, NEW z \in Sources, InFlight(b, z)'
        PROVE  /\ src'[z].holder = b /\ ~src'[z].fresh
               /\ z = "containers" /\ Superseded(b, z)' => src'[z].val = None
    <3>1. CASE b = a /\ z = q
      BY <2>2, <2>3, <2>4, <3>1 DEF Superseded, Gate
    <3>2. CASE ~(b = a /\ z = q)
      BY <2>1, <2>2, <2>3, <2>4, <2>5, <3>2 DEF HeldInv, InFlight, Superseded, Gate
    <3> QED
      BY <3>1, <3>2
  <2> QED
    BY <1>n, <2>4, <2>5 DEF HeldInv
<1>10. ASSUME NEW a \in Readers, NEW q \in Sources, NEW w \in Nat, HandsOut(a, q, w)
       PROVE  HeldInv'
  <2>1. MovesOn(a, q, {"off", "got"})
    BY <1>10, GotPoint DEF HandsOut, MovesOn
  <2>2. ASSUME NEW b \in Readers, NEW z \in Sources, InFlight(b, z)'
        PROVE  z # q /\ src'[z] = src[z] /\ rd'[b][z] = rd[b][z] /\ InFlight(b, z)
    BY <1>10, <2>1, <2>2 DEF HandsOut, MovesOn, InFlight
  <2>3. UNCHANGED <<gen, snap, req>>
    BY <1>10 DEF HandsOut
  <2> QED
    BY <1>n, <2>2, <2>3 DEF HeldInv, Superseded, Gate
<1>11. ASSUME NEW r \in Requests, Ask(r) PROVE HeldInv'
  <2>1. \A i \in Requests : req'[i].pc = "build" => req[i].pc = "build"
    BY <1>t, <1>11 DEF Ask, ReqType, ReqRec
  <2> QED
    BY <1>11, <1>n, <2>1 DEF Ask, HeldInv, InFlight, Superseded, Gate
<1>12. ASSUME NEW r \in Requests, Begin(r) PROVE HeldInv'
  <2>1. \A b \in Readers, s \in Sources : InFlight(b, s)' => rd'[b][s] = rd[b][s]
    BY <1>t, <1>n, <1>12 DEF Begin, Asking, RdType, InFlight
  <2>2. \A i \in Requests : req[i].pc # "build"
    BY <1>12, <1>n DEF Begin, HeldInv
  <2>3. \A i \in Requests : req'[i].pc = "build" => snap'.holder = i
    BY <1>t, <1>12, <2>2 DEF Begin, NoCall, ReqType, ReqRec, SnapType, SnapRec
  <2> QED
    BY <1>12, <1>n, <2>1, <2>3 DEF Begin, HeldInv, InFlight, Superseded, Gate
<1>13. ASSUME NEW r \in Requests, Finish(r) PROVE HeldInv'
  <2>1. \A b \in Readers, s \in Sources : InFlight(b, s)' => rd'[b][s] = rd[b][s]
    BY <1>t, <1>n, <1>13 DEF Finish, NoReads, RdType, InFlight
  <2>2. \A i \in Requests : req[i].pc = "build" => i = r
    BY <1>13, <1>n DEF Finish, Collected, HeldInv
  <2>3. \A i \in Requests : req'[i].pc # "build"
    BY <1>t, <1>13, <2>2 DEF Finish, NoCall, ReqType, ReqRec
  <2> QED
    BY <1>13, <1>n, <2>1, <2>3 DEF Finish, HeldInv, InFlight, Superseded, Gate
<1> QED
  BY <1>1, <1>2, <1>3, <1>4, <1>5, <1>6, <1>7, <1>8, <1>9, <1>10, <1>11, <1>12, <1>13,
     HandOutCases, Zenon
  DEF vars, Act

LEMMA PastStep == ASSUME KeptInv, [Next]_vars PROVE PastInv'
<1> USE DEF KeptInv, IInv
<1>t. RdType /\ SrcType
  BY TypeParts
<1>n. /\ host \in Nat /\ None \notin Nat /\ "page" \in Readers /\ "containers" \in Sources
      /\ Requests \subseteq Readers
      /\ \A s \in Sources : src[s].val \in Nat \cup {None}
      /\ \A a \in Readers, s \in Sources : rd[a][s].val \in Nat
  BY Numbers, ConstantsAssumption DEF Readers, Sources
<1>1. CASE UNCHANGED <<src, rd, host>>
  BY <1>1 DEF PastInv
<1>2. CASE Act
  BY <1>n, <1>2 DEF Act, PastInv
<1>3. CASE DropContainers \/ ExpireAdaptive \/ Expire
  <2>1. /\ \A s \in Sources : src'[s].val \in {src[s].val, None}
        /\ UNCHANGED <<rd, host>>
    BY <1>t, <1>3 DEF DropContainers, ExpireAdaptive, Expire, SrcType, SrcRec
  <2> QED
    BY <2>1 DEF PastInv
<1>4. CASE PageAsks
  <2>1. /\ \A b \in Readers, s \in Sources : rd'[b][s].val \in {rd[b][s].val, 0}
        /\ UNCHANGED <<src, host>>
    BY <1>t, <1>n, <1>4 DEF PageAsks, Asking, RdType
  <2> QED
    BY <1>n, <2>1 DEF PastInv
<1>5. ASSUME NEW a \in Readers,
             ProbeTimesOut(a) \/ \E q \in Sources : Probe(a, q)
      PROVE  PastInv'
  <2>1. /\ \A b \in Readers, s \in Sources : rd'[b][s].val \in {rd[b][s].val, host}
        /\ UNCHANGED <<src, host>>
    <3>1. CASE ProbeTimesOut(a)
      BY <1>t, <1>n, <3>1 DEF ProbeTimesOut, RdType, RdRec
    <3>2. ASSUME NEW q \in Sources, Probe(a, q)
          PROVE  /\ \A b \in Readers, s \in Sources : rd'[b][s].val \in {rd[b][s].val, host}
                 /\ UNCHANGED <<src, host>>
      BY <1>t, <3>2 DEF Probe, RdType, RdRec
    <3> QED
      BY <1>5, <3>1, <3>2
  <2> QED
    BY <1>n, <2>1 DEF PastInv
<1>6. ASSUME NEW a \in Readers, NEW q \in Sources, Enter(a, q) PROVE PastInv'
  <2>1. /\ \A b \in Readers, s \in Sources : rd'[b][s].val \in {rd[b][s].val, 0}
        /\ \A s \in Sources : src'[s].val = src[s].val
        /\ UNCHANGED host
    BY <1>t, <1>6 DEF Enter, RdType, SrcType, SrcRec
  <2> QED
    BY <1>n, <2>1 DEF PastInv
<1>7. ASSUME NEW a \in Readers, NEW q \in Sources, NEW w \in Nat, HandsOut(a, q, w)
      PROVE  PastInv'
  <2>1. \A b \in Readers, s \in Sources : rd'[b][s].val \in {rd[b][s].val, 0, w}
    BY <1>7, GotPoint DEF HandsOut
  <2> QED
    BY <1>n, <1>7, <2>1 DEF HandsOut, PastInv
<1>8. ASSUME NEW r \in Requests, Begin(r) \/ Finish(r) PROVE PastInv'
  <2>1. /\ \A b \in Readers, s \in Sources : rd'[b][s].val \in {rd[b][s].val, 0}
        /\ UNCHANGED <<src, host>>
    <3>1. CASE Begin(r)
      BY <1>t, <1>n, <3>1 DEF Begin, Asking, RdType
    <3>2. CASE Finish(r)
      BY <1>t, <1>n, <3>2 DEF Finish, NoReads, RdType
    <3> QED
      BY <1>8, <3>1, <3>2
  <2> QED
    BY <1>n, <2>1 DEF PastInv
<1> QED
  BY <1>1, <1>2, <1>3, <1>4, <1>5, <1>6, <1>7, <1>8, HandOutCases, Zenon
  DEF vars, Bump, Ask

\* The readings a request may be handed next are no older than its snapshot.
LEMMA AgeStep == ASSUME KeptInv, [Next]_vars PROVE AgeInv'
<1> USE DEF KeptInv, IInv
<1>t. RdType /\ SnapType
  BY TypeParts
<1>n. /\ None \notin Requests /\ "page" \in Readers /\ "containers" \in Sources
      /\ Requests \subseteq Readers /\ "page" \notin Requests
      /\ \A a \in Readers, s \in Sources : rd[a][s].val \in Nat
  BY Numbers, ConstantsAssumption DEF Readers, Sources
<1>v. ASSUME snap.val # None, NEW s \in Sources PROVE snap.val[s] \in Nat
  BY <1>t, <1>v DEF SnapType, SnapRec, Listing, Versions
<1>s. ASSUME snap.val # None, NEW s \in Sources PROVE NoneOlderNext(snap.val[s], s)
  BY <1>v, <1>s, AgeKept DEF AgeInv
<1>g. ASSUME NEW r \in Requests, NEW s \in Sources, rd[r][s].pc = "got"
      PROVE  NoneOlderNext(rd[r][s].val, s)
  BY <1>n, <1>g, AgeKept DEF AgeInv
\* No request is handed anything.
<1>k. ASSUME snap'.val = snap.val,
             \A r \in Requests, s \in Sources : rd'[r][s].pc = "got" => rd'[r][s] = rd[r][s]
      PROVE  AgeInv'
  BY <1>s, <1>g, <1>k DEF AgeInv, NoneOlder, NoneOlderNext, Usable
<1>1. CASE UNCHANGED rd /\ snap'.val = snap.val
  BY <1>k, <1>1
<1>2. CASE Bump
  BY <1>t, <1>k, <1>2 DEF Bump, SnapType, SnapRec
<1>3. CASE Expire
  BY <1>t, <1>k, <1>3 DEF Expire, SnapType, SnapRec
<1>4. CASE PageAsks
  BY <1>t, <1>n, <1>k, <1>4 DEF PageAsks, RdType
<1>5. ASSUME NEW a \in Readers, ProbeTimesOut(a) PROVE AgeInv'
  <2>1. \A r \in Requests, s \in Sources : rd'[r][s].pc = "got" => rd'[r][s] = rd[r][s]
    BY <1>t, <1>n, <1>5 DEF ProbeTimesOut, RdType
  <2> QED
    BY <1>k, <1>5, <2>1 DEF ProbeTimesOut
<1>6. ASSUME NEW a \in Readers, NEW q \in Sources, Probe(a, q) PROVE AgeInv'
  <2>1. \A r \in Requests, s \in Sources : rd'[r][s].pc = "got" => rd'[r][s] = rd[r][s]
    BY <1>t, <1>n, <1>6 DEF Probe, RdType
  <2> QED
    BY <1>k, <1>6, <2>1 DEF Probe
<1>7. ASSUME NEW a \in Readers, NEW q \in Sources, Enter(a, q) PROVE AgeInv'
  <2>1. \A r \in Requests, s \in Sources : rd'[r][s].pc = "got" => rd'[r][s] = rd[r][s]
    BY <1>t, <1>n, <1>7 DEF Enter, RdType
  <2> QED
    BY <1>k, <1>7, <2>1 DEF Enter
<1>8. ASSUME NEW a \in Readers, NEW q \in Sources, NEW w \in Nat, HandsOut(a, q, w)
      PROVE  AgeInv'
  <2>1. /\ rd'[a][q].pc \in {"off", "got"}
        /\ rd'[a][q].pc = "got" => rd'[a][q].val = w
        /\ \A b \in Readers, z \in Sources : b # a \/ z # q => rd'[b][z] = rd[b][z]
    BY <1>8, GotPoint DEF HandsOut
  <2>2. NoneOlderNext(w, q)
    BY <1>8, <2>1 DEF HandsOut, NoneOlderNext, Usable, InFlight
  <2>3. snap.val # None => snap.val[q] <= w
    BY <1>8 DEF HandsOut, AgeInv, NoneOlder
  <2>4. snap' = snap
    BY <1>8 DEF HandsOut
  <2>5. ASSUME NEW r \in Requests, NEW s \in Sources, rd'[r][s].pc = "got"
        PROVE  /\ NoneOlderNext(rd'[r][s].val, s)
               /\ snap.val # None => snap.val[s] <= rd'[r][s].val
    <3>1. CASE r = a /\ s = q
      BY <2>1, <2>2, <2>3, <2>5, <3>1
    <3>2. CASE ~(r = a /\ s = q)
      <4>1. rd'[r][s] = rd[r][s]
        BY <1>n, <2>1, <3>2
      <4> QED
        BY <1>g, <2>5, <4>1 DEF AgeInv
    <3> QED
      BY <3>1, <3>2
  <2> QED
    BY <1>s, <2>4, <2>5 DEF AgeInv, NoneOlder, NoneOlderNext, Usable
<1>9. ASSUME NEW r \in Requests, Begin(r) PROVE AgeInv'
  <2>1. \A i \in Requests, s \in Sources : rd'[i][s].pc = "got" => rd'[i][s] = rd[i][s]
    BY <1>t, <1>n, <1>9 DEF Begin, Asking, RdType
  <2>2. snap'.val = snap.val
    BY <1>t, <1>9 DEF Begin, SnapType, SnapRec
  <2> QED
    BY <1>k, <2>1, <2>2
<1>10. ASSUME NEW r \in Requests, Finish(r) PROVE AgeInv'
  <2>1. \A i \in Requests : req[i].pc = "build" => i = r
    BY <1>10, <1>n DEF Finish, Collected, HeldInv
  <2>2. \A i \in Requests, s \in Sources : rd'[i][s].pc # "got"
    BY <1>t, <1>n, <1>10, <2>1 DEF Finish, NoReads, RdType, BuildInv
  <2>3. CASE snap'.val = snap.val
    BY <1>k, <2>2, <2>3
  <2>4. CASE snap'.val = [s \in Sources |-> rd[r][s].val]
    <3>1. \A s \in Sources : NoneOlderNext(snap'.val[s], s)
      BY <1>g, <1>10, <2>4 DEF Finish, Collected
    <3> QED
      BY <2>2, <3>1 DEF AgeInv, NoneOlder, NoneOlderNext, Usable
  <2> QED
    BY <1>t, <1>10, <2>3, <2>4 DEF Finish, Published, SnapType, SnapRec
<1>11. ASSUME NEW r \in Requests, Ask(r) PROVE AgeInv'
  BY <1>k, <1>11 DEF Ask
<1> QED
  BY <1>1, <1>2, <1>3, <1>4, <1>5, <1>6, <1>7, <1>8, <1>9, <1>10, <1>11,
     HandOutCases, Zenon
  DEF vars, Act, DropContainers, ExpireAdaptive

LEMMA KeptInit == Init => KeptInv
<1>1. ConstantsAssumption
  BY ConstantsAssumption
<1>2. Init => HeldInv /\ PastInv /\ AgeInv
  BY <1>1 DEF Init, HeldInv, InFlight, PastInv, AgeInv, NoCall, NoReads, Sources, Readers
<1> QED
  BY <1>2, InvInit DEF KeptInv

LEMMA KeptStep == KeptInv /\ [Next]_vars => KeptInv'
<1> SUFFICES ASSUME KeptInv, [Next]_vars PROVE KeptInv'
  OBVIOUS
<1>1. IInv'
  BY InvStep DEF KeptInv
<1> QED
  BY <1>1, HeldStep, PastStep, AgeStep DEF KeptInv

\* For any number of requests and actions, neither an invalidation nor a failed or
\* superseded build takes the snapshot away, and none puts an older one in its place:
\* what a build collected was handed out after what the last build was handed
\* (full_status, cached_status).
THEOREM SnapshotNeverGoesBack == Spec => SnapshotKept
<1>1. ASSUME KeptInv, [Next]_vars, snap.val # None
      PROVE  snap'.val # None /\ \A s \in Sources : snap'.val[s] >= snap.val[s]
  <2>t. SnapType /\ RdType
    BY <1>1, TypeParts DEF KeptInv, IInv
  <2>v. \A s \in Sources : snap.val[s] \in Nat
    BY <1>1, <2>t, ConstantsAssumption DEF SnapType, SnapRec, Listing, Versions
  <2>1. CASE snap'.val = snap.val
    BY <1>1, <2>v, <2>1
  <2>2. ASSUME NEW r \in Requests, Finish(r), snap' = Published(r), gen["status"] = req[r].began
        PROVE  snap'.val # None /\ \A s \in Sources : snap'.val[s] >= snap.val[s]
    <3>1. snap'.val = [s \in Sources |-> rd[r][s].val]
      BY <2>2 DEF Published
    <3>2. snap'.val \in Listing
      BY <2>t, <3>1 DEF RdType, RdRec, Listing, Readers
    <3>3. \A s \in Sources : snap.val[s] <= rd[r][s].val
      BY <1>1, <2>2 DEF Finish, Collected, KeptInv, AgeInv
    <3>4. \A s \in Sources : snap'.val[s] \in Nat
      BY <3>2, ConstantsAssumption DEF Listing, Versions
    <3> QED
      BY <2>v, <3>1, <3>2, <3>3, <3>4, NoneIsNoListing
  <2>3. ASSUME NEW r \in Requests, Finish(r) \/ Begin(r), ~(Finish(r) /\ snap' = Published(r) /\ gen["status"] = req[r].began)
        PROVE  snap'.val = snap.val
    BY <2>t, <2>3 DEF Finish, Begin, Published, SnapType, SnapRec
  <2>4. CASE Bump \/ Expire
    BY <2>t, <2>4, <2>1 DEF Bump, Expire, SnapType, SnapRec
  <2> QED
    BY <1>1, <2>1, <2>2, <2>3, <2>4, StepCases, Zenon
    DEF vars, Act, DropContainers, ExpireAdaptive, PageAsks, ProbeTimesOut, Reserve, Hit, Probe,
        Store, Enter, Ask
<1>2. KeptInv /\ [Next]_vars
        => [snap.val # None => /\ snap'.val # None
                               /\ \A s \in Sources : snap'.val[s] >= snap.val[s]]_vars
  BY <1>1
<1>3. Spec => []KeptInv
  BY KeptInit, KeptStep, PTL DEF Spec
<1> QED
  BY <1>2, <1>3, PTL DEF Spec, SnapshotKept

-----------------------------------------------------------------------------
(* MetricsRollup.  The arithmetic of windows. *)

\* A window starts at a multiple of its length, and holds the tick it is taken of.
LEMMA FloorHolds ==
  ASSUME NEW t \in Nat, NEW win \in Nat \ {0}
  PROVE  /\ Floor(t, win) \in Nat /\ Floor(t, win) % win = 0
         /\ Floor(t, win) <= t /\ t < Floor(t, win) + win
<1> DEFINE q == t \div win
<1>1. q \in Nat /\ t = q * win + (t % win) /\ t % win \in 0 .. win - 1
  OBVIOUS
<1>2. Floor(t, win) = q * win
  BY DEF Floor
<1>3. q * win \in Nat /\ (q * win) % win = 0
  BY <1>1
<1> HIDE DEF q
<1> QED
  BY <1>1, <1>2, <1>3

LEMMA Multiple ==
  ASSUME NEW t \in Nat, NEW win \in Nat \ {0}, t % win = 0
  PROVE  \E k \in Nat : t = k * win
<1> DEFINE q == t \div win
<1>1. q \in Nat /\ t = q * win + (t % win)
  OBVIOUS
<1> HIDE DEF q
<1> QED
  BY <1>1

LEMMA MultipleOf ==
  ASSUME NEW k \in Nat, NEW win \in Nat \ {0}
  PROVE  k * win \in Nat /\ (k * win) % win = 0
OBVIOUS

LEMMA Product ==
  ASSUME NEW i \in Nat, NEW j \in Nat, NEW w \in Nat
  PROVE  /\ (i + 1) * w = i * w + w /\ i * w \in Nat
         /\ i <= j => i * w <= j * w
OBVIOUS

LEMMA NextMultiple ==
  ASSUME NEW a \in Nat, NEW b \in Nat, NEW win \in Nat \ {0},
         a % win = 0, b % win = 0, a < b + win
  PROVE  a <= b
<1>1. PICK i \in Nat : a = i * win
  BY Multiple
<1>2. PICK j \in Nat : b = j * win
  BY Multiple
<1>3. CASE i <= j
  BY <1>1, <1>2, <1>3, Product
<1>4. CASE j + 1 <= i
  <2>1. (j + 1) * win <= i * win /\ (j + 1) * win = j * win + win
    BY <1>4, Product
  <2> QED
    BY <1>1, <1>2, <2>1
<1> QED
  BY <1>3, <1>4

LEMMA MultipleAfter ==
  ASSUME NEW a \in Nat, NEW win \in Nat \ {0}, a % win = 0
  PROVE  (a + win) \in Nat /\ (a + win) % win = 0
<1>1. PICK i \in Nat : a = i * win
  BY Multiple
<1>2. i + 1 \in Nat /\ a + win = (i + 1) * win
  BY <1>1, Product
<1>3. ((i + 1) * win) % win = 0
  BY <1>2, MultipleOf
<1> QED
  BY <1>2, <1>3

LEMMA HourIsFives ==
  ASSUME NEW a \in Nat, a % Win1h = 0
  PROVE  a % Win5 = 0
<1>1. Win5 \in Nat \ {0} /\ Win1h \in Nat \ {0} /\ Win1h % Win5 = 0
  BY MetricsAssumption
<1>2. PICK i \in Nat : a = i * Win1h
  BY <1>1, Multiple
<1>3. PICK j \in Nat : Win1h = j * Win5
  BY <1>1, Multiple
<1>4. i * j \in Nat /\ i * (j * Win5) = (i * j) * Win5
  BY <1>1
<1>5. a = (i * j) * Win5
  BY <1>2, <1>3, <1>4
<1> QED
  BY <1>1, <1>4, <1>5, MultipleOf

LEMMA FloorIsLast ==
  ASSUME NEW t \in Nat, NEW a \in Nat, NEW win \in Nat \ {0}, a % win = 0, a <= t
  PROVE  a <= Floor(t, win)
<1>1. a < Floor(t, win) + win
  BY FloorHolds
<1> QED
  BY <1>1, FloorHolds, NextMultiple

LEMMA FloorMonotone ==
  ASSUME NEW s \in Nat, NEW t \in Nat, NEW win \in Nat \ {0}, s <= t
  PROVE  Floor(s, win) <= Floor(t, win)
<1>1. Floor(s, win) <= t
  BY FloorHolds
<1> QED
  BY <1>1, FloorHolds, FloorIsLast

LEMMA HourOfFive ==
  ASSUME NEW t \in Nat
  PROVE  Floor(Floor(t, Win5), Win1h) = Floor(t, Win1h)
<1>1. Win5 \in Nat \ {0} /\ Win1h \in Nat \ {0}
  BY MetricsAssumption
<1> DEFINE f == Floor(t, Win5) h == Floor(t, Win1h)
<1>2. f \in Nat /\ f <= t /\ h \in Nat /\ h % Win1h = 0 /\ h <= t
  BY <1>1, FloorHolds
<1>3. h <= f
  BY <1>1, <1>2, HourIsFives, FloorIsLast
<1>4. h <= Floor(f, Win1h) /\ Floor(f, Win1h) <= h
  BY <1>1, <1>2, <1>3, FloorIsLast, FloorMonotone
<1>5. Floor(f, Win1h) \in Nat
  BY <1>1, <1>2, FloorHolds
<1> QED
  BY <1>2, <1>4, <1>5
-----------------------------------------------------------------------------
(* Types. *)

Row == [t : Nat, ids : SUBSET Ids]

\* The rows of a tier start at a window.
RowOf(win) == {r \in Row : r.t % win = 0}

Aligned(w) == w \in Marks /\ w.w5 % Win5 = 0 /\ w.w1h % Win1h = 0

Sampler == [at : Steps, n : Nat, buf : Seq(Row), w : Marks, loaded : BOOLEAN,
            now : Nat, rows : Seq(Row), from : Nat]

\* The window of the tier that a pass has read for.
WinOf(x) == IF x.from = 5 THEN Win5 ELSE Win1h

SamplerOK(x) ==
  /\ x \in Sampler /\ Len(x.buf) <= FlushEvery /\ Aligned(x.w)
  /\ x.at # "append" => x.rows = <<>>
  /\ x.at = "append" => x.from \in {1, 5} /\ x.rows \in Seq(RowOf(WinOf(x)))

RollShapes ==
  /\ now \in 0 .. MaxTime /\ high \in now .. MaxTime
  /\ raw \in Seq(Row) /\ Len(raw) <= MaxRaw + Slack + FlushEvery
  /\ five \in Seq(RowOf(Win5)) /\ hour \in Seq(RowOf(Win1h))
  /\ Aligned(saved)
  /\ proc \in [Procs -> Sampler] /\ \A p \in Procs : SamplerOK(proc[p])
  /\ faults \in 0 .. MaxFaults
  /\ journal \subseteq Row /\ folded \subseteq RowOf(Win5)
  /\ late \subseteq Ids
  /\ given \in [five : SUBSET Ids, hour : SUBSET Ids]

LEMMA Bounds ==
  /\ Win5 \in Nat \ {0} /\ Win1h \in Nat \ {0} /\ Win1h % Win5 = 0
  /\ FlushEvery \in Nat /\ MaxRaw \in Nat /\ Slack \in Nat /\ Retain5 \in Nat
  /\ MaxTime \in Nat /\ Jump \in Nat /\ MaxFaults \in Nat
BY MetricsAssumption

\* The rows of a sequence are what it is a sequence of.
LEMMA RowsOf ==
  ASSUME NEW R, NEW s \in Seq(R) PROVE Rows(s) \subseteq R /\ DOMAIN s = 1 .. Len(s)
BY DEF Rows

LEMMA RollTypes == ASSUME RollShapes PROVE RollTypeOK
<1>1. ASSUME NEW r \in Row PROVE IsRow(r)
  BY <1>1 DEF Row, IsRow
<1>2. \A s \in {raw, five, hour} : s \in Seq(Row)
  <2>1. RowOf(Win5) \subseteq Row /\ RowOf(Win1h) \subseteq Row
    BY DEF RowOf
  <2> QED
    BY <2>1, SeqMonotonic DEF RollShapes
<1>3. \A s \in {raw, five, hour} : \A i \in DOMAIN s : IsRow(s[i])
  BY <1>1, <1>2
<1>4. \A p \in Procs : SamplerOK(proc[p])
  BY DEF RollShapes
<1>5. ASSUME NEW p \in Procs
      PROVE  /\ proc[p].at \in Steps /\ proc[p].w \in Marks /\ proc[p].loaded \in BOOLEAN
             /\ Len(proc[p].buf) <= FlushEvery
             /\ proc[p].w.w5 % Win5 = 0 /\ proc[p].w.w1h % Win1h = 0
  BY <1>4 DEF SamplerOK, Sampler, Aligned
<1> QED
  BY <1>3, <1>5 DEF RollShapes, RollTypeOK, Aligned

\* The sampler of one process goes on, the others stay.
LEMMA SamplerMoves ==
  ASSUME RollShapes, NEW p \in Procs, NEW x, SamplerOK(x), proc' = [proc EXCEPT ![p] = x]
  PROVE  proc' \in [Procs -> Sampler] /\ \A q \in Procs : SamplerOK(proc'[q])
BY DEF RollShapes, SamplerOK

\* A fault counts.
LEMMA FaultType ==
  ASSUME RollShapes, NEW kind, Fault(kind) PROVE faults' \in 0 .. MaxFaults
BY Bounds DEF RollShapes, Fault

\* What a flush leaves in the journal.
LEMMA FlushType ==
  ASSUME RollShapes, NEW buf \in Seq(Row), Flushed(buf)
  PROVE  /\ raw' \in Seq(Row) /\ Len(raw') <= MaxRaw + Slack + FlushEvery
         /\ journal' \subseteq Row /\ journal \subseteq journal'
         /\ journal' \subseteq journal \cup Rows(buf)
         /\ Rows(raw) \subseteq journal => Rows(raw') \subseteq journal'
         /\ faults' \in 0 .. MaxFaults
<1>1. CASE /\ raw' \in IF Len(raw \o buf) > MaxRaw + Slack
                       THEN {raw \o buf, Trimmed(raw \o buf)} ELSE {raw \o buf}
           /\ Len(raw') <= MaxRaw + Slack + FlushEvery
           /\ journal' = journal \cup Rows(buf)
           /\ UNCHANGED faults
  <2>1. raw \in Seq(Row) /\ journal \subseteq Row /\ faults \in 0 .. MaxFaults
    BY DEF RollShapes
  <2>0. raw \o buf \in Seq(Row)
    BY <2>1, ConcatProperties
  <2>2. PICK s \in Seq(Row) : s = raw \o buf
    BY <2>0
  <2>3. Rows(s) \subseteq Rows(raw) \cup Rows(buf)
    <3>1. /\ Len(s) = Len(raw) + Len(buf)
          /\ \A i \in 1 .. Len(s) : s[i] = IF i <= Len(raw) THEN raw[i] ELSE buf[i - Len(raw)]
      BY <2>1, <2>2, ConcatProperties
    <3>2. \A i \in 1 .. Len(s) : \/ i \in 1 .. Len(raw)
                                 \/ i - Len(raw) \in 1 .. Len(buf) /\ ~(i <= Len(raw))
      BY <2>1, <2>2, <3>1
    <3> QED
      BY <2>1, <2>2, <3>1, <3>2 DEF Rows
  <2>4. ASSUME Len(s) > MaxRaw + Slack
        PROVE  Trimmed(s) \in Seq(Row) /\ Rows(Trimmed(s)) \subseteq Rows(s)
    <3>1. PICK m \in 1 .. Len(s) + 1 : m = Len(s) - MaxRaw + 1
      <4>1. Len(s) \in Nat /\ MaxRaw \in Nat /\ Slack \in Nat
        BY Bounds, LenProperties
      <4>2. Len(s) - MaxRaw + 1 \in 1 .. Len(s) + 1
        BY <2>4, <4>1
      <4> QED
        BY <4>2
    <3>2. \A i \in m .. Len(s) : s[i] \in Row
      BY <2>2, <3>1
    <3>a. m \in Int /\ Len(s) \in Int /\ Trimmed(s) = SubSeq(s, m, Len(s))
      BY <2>2, <3>1, LenProperties DEF Trimmed
    <3>b. /\ SubSeq(s, m, Len(s)) \in Seq(Row)
          /\ Len(SubSeq(s, m, Len(s))) = IF m <= Len(s) THEN Len(s) - m + 1 ELSE 0
          /\ \A i \in 1 .. Len(s) - m + 1 : SubSeq(s, m, Len(s))[i] = s[m + i - 1]
      BY ONLY <3>2, <3>a, SubSeqProperties
    <3>3. /\ Trimmed(s) \in Seq(Row)
          /\ Len(Trimmed(s)) = IF m <= Len(s) THEN Len(s) - m + 1 ELSE 0
          /\ \A i \in 1 .. Len(s) - m + 1 : Trimmed(s)[i] = s[m + i - 1]
      BY <3>a, <3>b
    <3>c. m \in 1 .. Len(s) + 1 /\ Len(s) \in Nat
      BY <3>1, LenProperties
    <3>d. Len(Trimmed(s)) = Len(s) - m + 1
      BY ONLY <3>3, <3>c
    <3>4. \A i \in 1 .. Len(Trimmed(s)) : m + i - 1 \in 1 .. Len(s) /\ Trimmed(s)[i] = s[m + i - 1]
      <4> DEFINE l == Len(s)
      <4>1. \A i \in 1 .. l - m + 1 : m + i - 1 \in 1 .. l
        <5> HIDE DEF l
        <5>1. m \in Nat \ {0} /\ l \in Nat
          BY <3>c DEF l
        <5> QED
          BY ONLY <5>1
      <4> QED
        BY ONLY <3>3, <3>d, <4>1
    <3>5. Rows(Trimmed(s)) \subseteq Rows(s)
      <4>1. DOMAIN Trimmed(s) = 1 .. Len(Trimmed(s)) /\ DOMAIN s = 1 .. Len(s)
        BY <3>3
      <4> QED
        BY <3>4, <4>1 DEF Rows
    <3> QED
      BY <3>3, <3>5
  <2>5. raw' \in Seq(Row) /\ Rows(raw') \subseteq Rows(s)
    BY <1>1, <2>2, <2>4
  <2>6. Rows(buf) \subseteq Row
    BY RowsOf
  <2> QED
    BY <1>1, <2>1, <2>3, <2>5, <2>6
<1>2. CASE buf # <<>> /\ Fault("append") /\ UNCHANGED <<raw, journal>>
  BY <1>2, FaultType DEF RollShapes
<1> QED
  BY <1>1, <1>2 DEF Flushed
-----------------------------------------------------------------------------
(* What a pass reads and what a trim keeps. *)

Climbs(s) == \A i, j \in DOMAIN s : i < j => s[i].t < s[j].t

\* A set of numbers below a bound in ascending order has each of them once.
LEMMA AscentOf ==
  ASSUME NEW S \in SUBSET Nat, NEW n \in Nat, \A x \in S : x <= n, NEW f \in Ascents(S)
  PROVE  /\ DOMAIN f = 1 .. Cardinality(S) /\ Cardinality(S) \in Nat
         /\ \A i \in DOMAIN f : f[i] \in S
         /\ \A i, j \in DOMAIN f : i < j => f[i] < f[j]
         /\ \A x \in S : \E i \in DOMAIN f : f[i] = x
<1>1. IsFiniteSet(S) /\ Cardinality(S) \in Nat
  BY FS_BoundedSetOfNaturals, FS_CardinalityType
<1> DEFINE c == Cardinality(S)
<1>2. f \in [1 .. c -> S] /\ \A i, j \in DOMAIN f : i < j => f[i] < f[j]
  BY DEF Ascents
<1>3. IsFiniteSet(1 .. c) /\ Cardinality(1 .. c) = c
  <2>1. 1 \in Int /\ c \in Int /\ (IF 1 > c THEN 0 ELSE c - 1 + 1) = c
    BY <1>1
  <2> QED
    BY <2>1, FS_Interval
<1>a. c \in Nat
  BY <1>1
<1> HIDE DEF c
<1>4. f \in Injection(1 .. c, S)
  <2>1. ASSUME NEW i \in 1 .. c, NEW j \in 1 .. c, f[i] = f[j] PROVE i = j
    <3>0. f[i] \in S /\ f[j] \in S /\ i \in DOMAIN f /\ j \in DOMAIN f
      BY <1>2
    <3>1. f[i] \in Nat /\ i \in Nat /\ j \in Nat
      <4>1. f[i] \in Nat
        BY ONLY <3>0, S \in SUBSET Nat
      <4> QED
        BY <1>a, <2>1, <4>1
    <3>2. ~(i < j) /\ ~(j < i)
      BY <1>2, <2>1, <3>0, <3>1
    <3> QED
      BY <3>1, <3>2
  <2>2. f \in [1 .. c -> S] /\ \A i, j \in 1 .. c : f[i] = f[j] => i = j
    BY <1>2, <2>1
  <2> QED
    BY <1>2, <2>2 DEF Injection, IsInjective
<1>5. f \in Surjection(1 .. c, S)
  BY <1>1, <1>3, <1>4, FS_Injection DEF c
<1> QED
  BY <1>1, <1>2, <1>5 DEF Surjection, c

\* Rows made of those of s from w to to, none of which the first row's time leaves out.
Covers(rows, s, w, to) ==
  /\ \A r \in Rows(s) : w <= r.t /\ r.t < to /\ s[1].t <= r.t =>
       \E i \in DOMAIN rows : r.ids \subseteq rows[i].ids
  /\ (\A r \in Rows(s) : r.ids # {}) => \A i \in DOMAIN rows : rows[i].ids # {}

\* The rows a pass makes: one of each window from the watermark to the target that has
\* rows beneath it, of those rows, in order.
LEMMA Aggregated ==
  ASSUME NEW s \in Seq(Row), NEW w \in Nat, NEW to \in Nat, NEW win \in Nat \ {0},
         w % win = 0, NEW rows \in Aggregate(s, w, to, win)
  PROVE  /\ rows \in Seq(RowOf(win)) /\ Climbs(rows)
         /\ \A i \in DOMAIN rows : w <= rows[i].t /\ rows[i].t < to
         /\ \A i \in DOMAIN rows : \A d \in rows[i].ids :
              \E r \in Rows(s) : d \in r.ids /\ Floor(r.t, win) = rows[i].t
         /\ Covers(rows, s, w, to)
<1>0. Rows(s) \subseteq Row
  BY RowsOf
<1>1. CASE s = <<>>
  <2>1. rows = <<>>
    BY <1>1 DEF Aggregate
  <2>2. Rows(s) = {} /\ DOMAIN rows = {} /\ rows \in Seq(RowOf(win))
    BY <1>1, <2>1 DEF Rows
  <2> QED
    BY <2>2 DEF Climbs, Covers
<1>2. CASE s # <<>>
  <2> DEFINE first == Floor(s[1].t, win)
             from == Start(s, w, win)
             In == {r \in Rows(s) : from <= r.t /\ r.t < to}
             Window(t) == [t |-> t, ids |-> UNION {r.ids : r \in {q \in In : Floor(q.t, win) = t}}]
             S == {Floor(r.t, win) : r \in In}
  <2>1. s[1] \in Row /\ s[1] \in Rows(s)
    BY <1>2, LenProperties, EmptySeq DEF Rows
  <2>2. first \in Nat /\ first % win = 0 /\ first <= s[1].t
    BY <2>1, FloorHolds DEF Row
  <2>3. from \in Nat /\ from % win = 0 /\ w <= from /\ (from = w \/ from = first)
    BY <2>2 DEF Start, Greater
  <2>4. PICK f \in Ascents(S) : rows = [i \in DOMAIN f |-> Window(f[i])]
    BY <1>2 DEF Aggregate, Windows
  <2> HIDE DEF from, first
  <2>5. \A r \in In : r \in Row /\ r \in Rows(s) /\ from <= r.t /\ r.t < to
    BY <1>0
  <2>6. \A r \in In : /\ Floor(r.t, win) \in Nat /\ Floor(r.t, win) % win = 0
                      /\ from <= Floor(r.t, win) /\ Floor(r.t, win) < to
    <3>1. ASSUME NEW r \in In
          PROVE  /\ Floor(r.t, win) \in Nat /\ Floor(r.t, win) % win = 0
                 /\ from <= Floor(r.t, win) /\ Floor(r.t, win) < to
      <4>1. r.t \in Nat /\ from <= r.t /\ r.t < to
        BY <2>5, <3>1 DEF Row
      <4>2. Floor(r.t, win) \in Nat /\ Floor(r.t, win) % win = 0 /\ Floor(r.t, win) <= r.t
        BY <4>1, FloorHolds
      <4>3. from <= Floor(r.t, win)
        BY <2>3, <4>1, FloorIsLast
      <4> QED
        BY <4>1, <4>2, <4>3
    <3> HIDE DEF In
    <3> QED
      BY <3>1
  <2>7. \A t \in S : \E r \in In : t = Floor(r.t, win)
    OBVIOUS
  <2>8. \A t \in S : t \in Nat /\ t % win = 0 /\ from <= t /\ t < to
    BY <2>6, <2>7
  <2>9. \A t \in S : /\ Window(t).t = t /\ Window(t).ids \subseteq Ids
                     /\ Window(t) \in RowOf(win)
    <3>1. ASSUME NEW t \in S PROVE Window(t).ids \subseteq Ids
      BY <2>5 DEF Row
    <3> QED
      BY <2>8, <3>1 DEF RowOf, Row
  <2>10. \A t \in S : \A d \in Window(t).ids :
           \E r \in Rows(s) : d \in r.ids /\ Floor(r.t, win) = t
    BY <2>5
  <2>11. \A r \in In : r.ids \subseteq Window(Floor(r.t, win)).ids /\ Floor(r.t, win) \in S
    OBVIOUS
  <2> HIDE DEF S, In, Window
  <2>12. /\ DOMAIN f = 1 .. Cardinality(S) /\ Cardinality(S) \in Nat
         /\ \A i \in DOMAIN f : f[i] \in S
         /\ \A i, j \in DOMAIN f : i < j => f[i] < f[j]
         /\ \A t \in S : \E i \in DOMAIN f : f[i] = t
    <3>1. S \in SUBSET Nat /\ \A t \in S : t <= to
      BY <2>8
    <3> QED
      BY ONLY <2>4, <3>1, to \in Nat, AscentOf
  <2>13. DOMAIN rows = DOMAIN f /\ \A i \in DOMAIN f : rows[i] = Window(f[i]) /\ rows[i].t = f[i]
    BY <2>4, <2>9, <2>12
  <2>14. rows \in Seq(RowOf(win))
    <3>1. rows \in [1 .. Cardinality(S) -> RowOf(win)]
      BY <2>4, <2>9, <2>12
    <3> QED
      BY <2>12, <3>1
  <2>15. Climbs(rows)
    BY <2>12, <2>13 DEF Climbs
  <2>16. \A i \in DOMAIN rows : w <= rows[i].t /\ rows[i].t < to
    <3>1. ASSUME NEW i \in DOMAIN rows PROVE w <= rows[i].t /\ rows[i].t < to
      <4>1. f[i] \in S /\ rows[i].t = f[i]
        BY <2>12, <2>13
      <4>2. f[i] \in Nat /\ from <= f[i] /\ f[i] < to
        BY <2>8, <4>1
      <4> QED
        BY <2>3, <4>1, <4>2
    <3> QED
      BY <3>1
  <2>17. \A i \in DOMAIN rows : \A d \in rows[i].ids :
           \E r \in Rows(s) : d \in r.ids /\ Floor(r.t, win) = rows[i].t
    BY <2>10, <2>12, <2>13
  <2>18. ASSUME NEW r \in Rows(s), w <= r.t, r.t < to, s[1].t <= r.t
         PROVE  \E i \in DOMAIN rows : r.ids \subseteq rows[i].ids
    <3>1. r \in Row /\ r.t \in Nat /\ s[1].t \in Nat
      BY <1>0, <2>1 DEF Row
    <3>2. from <= r.t
      BY <2>2, <2>3, <2>18, <3>1
    <3>3. r \in In
      BY <2>18, <3>2 DEF In
    <3> QED
      BY <2>11, <2>12, <2>13, <3>3
  <2>19. ASSUME \A r \in Rows(s) : r.ids # {}, NEW i \in DOMAIN rows PROVE rows[i].ids # {}
    <3>1. f[i] \in S /\ rows[i] = Window(f[i])
      BY <2>12, <2>13
    <3>2. PICK r \in In : f[i] = Floor(r.t, win)
      BY <2>7, <3>1
    <3>3. r.ids # {} /\ r.ids \subseteq Window(f[i]).ids
      BY <2>5, <2>11, <2>19, <3>2
    <3> QED
      BY <3>1, <3>3
  <2>20. Covers(rows, s, w, to)
    BY <2>18, <2>19 DEF Covers
  <2> QED
    BY <2>14, <2>15, <2>16, <2>17, <2>20
<1> QED
  BY <1>1, <1>2

\* A trim keeps rows of the journal in their order, and those that are young.
LEMMA AgedRows ==
  ASSUME NEW R \in SUBSET Row, NEW s \in Seq(R), NEW t \in Nat, NEW u \in Aged(s, t)
  PROVE  /\ u \in Seq(R) /\ Rows(u) \subseteq Rows(s)
         /\ Climbs(s) => Climbs(u)
<1> DEFINE D == {i \in DOMAIN s : s[i].t >= t - Retain5}
<1>1. CASE u = s
  BY <1>1
<1>2. CASE u \in {[i \in DOMAIN f |-> s[f[i]]] : f \in Ascents(D)}
  <2>1. PICK f \in Ascents(D) : u = [i \in DOMAIN f |-> s[f[i]]]
    BY <1>2
  <2>2. D \in SUBSET Nat /\ Len(s) \in Nat /\ \A i \in D : i <= Len(s)
    BY LenProperties
  <2>3. D \subseteq DOMAIN s
    OBVIOUS
  <2> HIDE DEF D
  <2>4. /\ DOMAIN f = 1 .. Cardinality(D) /\ Cardinality(D) \in Nat
        /\ \A i \in DOMAIN f : f[i] \in D
        /\ \A i, j \in DOMAIN f : i < j => f[i] < f[j]
    BY <2>2, AscentOf
  <2>5. DOMAIN u = DOMAIN f /\ \A i \in DOMAIN f : u[i] = s[f[i]] /\ f[i] \in DOMAIN s /\ u[i] \in R
    BY <2>1, <2>3, <2>4
  <2>6. u \in [1 .. Cardinality(D) -> R]
    BY <2>1, <2>4, <2>5
  <2>7. u \in Seq(R)
    BY <2>4, <2>6
  <2>8. Rows(u) \subseteq Rows(s)
    BY <2>5 DEF Rows
  <2> QED
    BY <2>4, <2>5, <2>7, <2>8 DEF Climbs
<1> QED
  BY <1>1, <1>2 DEF Aged
-----------------------------------------------------------------------------
(* The steps keep the types. *)

LEMMA OffType ==
  /\ SamplerOK(Off) /\ Off \in Sampler /\ Off.at = "off" /\ Off.buf = <<>> /\ Off.rows = <<>>
  /\ Off.w = Zero /\ Off.loaded = FALSE
<1>1. Aligned(Zero)
  BY Bounds DEF Aligned, Zero, Marks
<1>2. SamplerOK(Off)
  BY <1>1, Bounds DEF SamplerOK, Off, Zero, Sampler, Steps, Marks
<1> QED
  BY <1>2 DEF SamplerOK, Off

LEMMA RollTypeInit == RollInit => RollShapes
<1> SUFFICES ASSUME RollInit PROVE RollShapes
  OBVIOUS
<1>1. Aligned(Zero)
  BY Bounds DEF Aligned, Zero, Marks
<1>2. SamplerOK(Off)
  BY OffType
<1>3. raw = <<>> /\ five = <<>> /\ hour = <<>> /\ Len(<<>>) = 0 /\ \A R : <<>> \in Seq(R)
  BY EmptySeq DEF RollInit
<1>4. proc \in [Procs -> Sampler] /\ \A p \in Procs : SamplerOK(proc[p])
  BY <1>2 DEF RollInit, SamplerOK
<1> QED
  BY <1>1, <1>3, <1>4, Bounds DEF RollInit, RollShapes

\* The marks that a process holds or would load.
LEMMA MarkedType ==
  ASSUME RollShapes, NEW p \in Procs PROVE Aligned(Marked(p)) /\ Aligned(LoadedMarks)
<1>1. ASSUME NEW win \in Nat \ {0}, NEW s \in Seq(RowOf(win))
      PROVE  Proven(s, win) \in Nat /\ Proven(s, win) % win = 0
  <2>1. CASE s = <<>>
    BY <1>1, <2>1 DEF Proven
  <2>2. CASE s # <<>>
    <3>1. s[Len(s)] \in RowOf(win)
      BY <2>2, LenProperties, EmptySeq
    <3> QED
      BY <2>2, <3>1, MultipleAfter DEF Proven, RowOf, Row
  <2> QED
    BY <2>1, <2>2
<1>2. Aligned(LoadedMarks)
  <2>1. /\ Proven(five, Win5) \in Nat /\ Proven(five, Win5) % Win5 = 0
        /\ Proven(hour, Win1h) \in Nat /\ Proven(hour, Win1h) % Win1h = 0
    BY <1>1, Bounds DEF RollShapes
  <2>2. Aligned(saved)
    BY DEF RollShapes
  <2> QED
    BY <2>1, <2>2 DEF Aligned, LoadedMarks, Greater, Marks
<1> QED
  BY <1>2 DEF Marked, RollShapes, SamplerOK

LEMMA FloorOfClock ==
  ASSUME NEW t \in Nat
  PROVE  /\ Floor(t, Win5) \in Nat /\ Floor(t, Win5) % Win5 = 0
         /\ Floor(t, Win1h) \in Nat /\ Floor(t, Win1h) % Win1h = 0
BY FloorHolds, Bounds

LEMMA HourTargetType ==
  ASSUME RollShapes, NEW p \in Procs
  PROVE  HourTarget(p) \in Nat /\ HourTarget(p) % Win1h = 0
<1>1. proc[p].now \in Nat /\ proc[p].w.w5 \in Nat
  BY DEF RollShapes, SamplerOK, Sampler, Marks
<1> QED
  BY <1>1, FloorOfClock DEF HourTarget

\* The sampler of p goes on to x and the files are as they were.
LEMMA OnlySampler ==
  ASSUME RollShapes, NEW p \in Procs, NEW x, SamplerOK(x), proc' = [proc EXCEPT ![p] = x],
         UNCHANGED <<now, raw, five, hour, saved, high, journal, folded, late>>,
         faults' \in 0 .. MaxFaults, given' \in [five : SUBSET Ids, hour : SUBSET Ids]
  PROVE  RollShapes'
<1>1. proc' \in [Procs -> Sampler] /\ \A q \in Procs : SamplerOK(proc'[q])
  BY SamplerMoves
<1> QED
  BY <1>1 DEF RollShapes

LEMMA SampleType == ASSUME RollShapes, NEW p \in Procs, Sample(p) PROVE RollShapes'
<1> DEFINE row == [t |-> now, ids |-> {<<p, proc[p].n>>}]
           buf == Append(proc[p].buf, row)
<1>0. SamplerOK(proc[p]) /\ now \in 0 .. MaxTime
  BY DEF RollShapes
<1>1. SamplerOK(proc[p]) /\ proc[p].at = "sample" /\ now \in Nat /\ proc[p].n \in Nat
  BY <1>0, Bounds DEF Sample, SamplerOK, Sampler
<1>2. row \in Row /\ row.ids \subseteq Ids
  BY <1>1 DEF Row, Ids
<1> HIDE DEF row
<1>3. proc[p].buf \in Seq(Row) /\ buf \in Seq(Row)
  BY <1>1, <1>2, AppendProperties DEF SamplerOK, Sampler
<1>4. late' \subseteq Ids
  BY <1>2 DEF Sample, RollShapes, row
<1> HIDE DEF buf
<1>5. /\ UNCHANGED <<now, five, hour, saved, high, folded, given>>
      /\ \/ /\ Len(buf) < FlushEvery
            /\ proc' = [proc EXCEPT ![p].at = "roll", ![p].n = proc[p].n + 1, ![p].buf = buf]
            /\ UNCHANGED <<raw, journal, faults>>
         \/ /\ Flushed(buf)
            /\ proc' = [proc EXCEPT ![p].at = "roll", ![p].n = proc[p].n + 1, ![p].buf = <<>>]
  BY DEF Sample, buf, row
<1>6. ASSUME NEW b \in Seq(Row), Len(b) <= FlushEvery,
             proc' = [proc EXCEPT ![p].at = "roll", ![p].n = proc[p].n + 1, ![p].buf = b]
      PROVE  proc' \in [Procs -> Sampler] /\ \A q \in Procs : SamplerOK(proc'[q])
  <2> DEFINE x == [proc[p] EXCEPT !.at = "roll", !.n = proc[p].n + 1, !.buf = b]
  <2>1. SamplerOK(x)
    <3>1. /\ x \in Sampler /\ x.at = "roll" /\ x.buf = b /\ x.w = proc[p].w
          /\ x.rows = proc[p].rows
      <4>1. proc[p] \in Sampler /\ proc[p].n + 1 \in Nat /\ "roll" \in Steps
        BY <1>1 DEF SamplerOK, Steps
      <4> QED
        BY <1>6, <4>1 DEF Sampler
    <3>2. proc[p].rows = <<>> /\ Aligned(proc[p].w)
      BY <1>1 DEF SamplerOK
    <3> HIDE DEF x
    <3> QED
      BY <1>6, <3>1, <3>2 DEF SamplerOK
  <2>2. proc' = [proc EXCEPT ![p] = x]
    BY <1>6
  <2> QED
    BY <2>1, <2>2, SamplerMoves
<1>7. CASE /\ Len(buf) < FlushEvery
           /\ proc' = [proc EXCEPT ![p].at = "roll", ![p].n = proc[p].n + 1, ![p].buf = buf]
           /\ UNCHANGED <<raw, journal, faults>>
  <2>1. Len(buf) <= FlushEvery
    BY <1>3, <1>7, Bounds, LenProperties
  <2>2. proc' \in [Procs -> Sampler] /\ \A q \in Procs : SamplerOK(proc'[q])
    BY <1>3, <1>6, <1>7, <2>1
  <2> QED
    BY <1>4, <1>5, <1>7, <2>2 DEF RollShapes
<1>8. CASE /\ Flushed(buf)
           /\ proc' = [proc EXCEPT ![p].at = "roll", ![p].n = proc[p].n + 1, ![p].buf = <<>>]
  <2>1. <<>> \in Seq(Row) /\ Len(<<>>) <= FlushEvery
    BY Bounds
  <2>2. proc' \in [Procs -> Sampler] /\ \A q \in Procs : SamplerOK(proc'[q])
    BY <1>6, <1>8, <2>1
  <2>3. /\ raw' \in Seq(Row) /\ Len(raw') <= MaxRaw + Slack + FlushEvery
        /\ journal' \subseteq Row /\ faults' \in 0 .. MaxFaults
    BY <1>3, <1>8, FlushType
  <2> QED
    BY <1>4, <1>5, <2>2, <2>3 DEF RollShapes
<1> QED
  BY <1>5, <1>7, <1>8

LEMMA EnterType ==
  ASSUME RollShapes, NEW p \in Procs, EnterFive(p) \/ PassFive(p) PROVE RollShapes'
<1>1. SamplerOK(proc[p]) /\ proc[p].at = "roll" /\ now \in Nat /\ Aligned(Marked(p))
  BY Bounds, MarkedType DEF EnterFive, PassFive, RollShapes
<1>2. CASE EnterFive(p)
  <2> DEFINE x == [proc[p] EXCEPT !.at = "five", !.buf = <<>>, !.now = now,
                                  !.w = Marked(p), !.loaded = TRUE]
  <2>1. /\ Flushed(proc[p].buf) /\ proc' = [proc EXCEPT ![p] = x]
        /\ UNCHANGED <<now, five, hour, saved, high, folded, late, given>>
    BY <1>2 DEF EnterFive, FlushPending
  <2>2. SamplerOK(x)
    <3>1. <<>> \in Seq(Row) /\ Len(<<>>) <= FlushEvery
      BY Bounds
    <3> QED
      BY <1>1, <3>1 DEF SamplerOK, Sampler, Steps, Aligned
  <2>3. proc' \in [Procs -> Sampler] /\ \A q \in Procs : SamplerOK(proc'[q])
    BY <2>1, <2>2, SamplerMoves
  <2>4. proc[p].buf \in Seq(Row)
    BY <1>1 DEF SamplerOK, Sampler
  <2>5. /\ raw' \in Seq(Row) /\ Len(raw') <= MaxRaw + Slack + FlushEvery
        /\ journal' \subseteq Row /\ faults' \in 0 .. MaxFaults
    BY <2>1, <2>4, FlushType
  <2> QED
    BY <2>1, <2>3, <2>5 DEF RollShapes
<1>3. CASE PassFive(p)
  <2> DEFINE x == [proc[p] EXCEPT !.at = "hour", !.now = now, !.w = Marked(p), !.loaded = TRUE]
  <2>1. SamplerOK(x)
    BY <1>1 DEF SamplerOK, Sampler, Steps, Aligned
  <2>2. proc' = [proc EXCEPT ![p] = x]
    BY <1>3 DEF PassFive
  <2> QED
    BY <1>3, <2>1, <2>2, OnlySampler DEF PassFive, RollShapes
<1> QED
  BY <1>2, <1>3

LEMMA ReadType ==
  ASSUME RollShapes, NEW p \in Procs, ReadFive(p) \/ ReadHour(p) \/ PassHour(p) \/ ReadsNothing(p)
  PROVE  RollShapes'
<1>1. SamplerOK(proc[p]) /\ proc[p].w.w5 \in Nat /\ proc[p].w.w1h \in Nat /\ proc[p].now \in Nat
      /\ proc[p].w.w5 % Win5 = 0 /\ proc[p].w.w1h % Win1h = 0
  BY DEF RollShapes, SamplerOK, Sampler, Aligned, Marks
<1>2. CASE ReadFive(p)
  <2>1. PICK rows \in Aggregate(raw, proc[p].w.w5, Floor(proc[p].now, Win5), Win5) :
          proc' = [proc EXCEPT ![p].at = "append", ![p].from = 5, ![p].rows = rows]
    BY <1>2 DEF ReadFive
  <2>2. rows \in Seq(RowOf(Win5))
    <3>1. raw \in Seq(Row) /\ Floor(proc[p].now, Win5) \in Nat /\ Win5 \in Nat \ {0}
      BY <1>1, FloorOfClock, Bounds DEF RollShapes
    <3> QED
      BY <1>1, <2>1, <3>1, Aggregated
  <2> DEFINE x == [proc[p] EXCEPT !.at = "append", !.from = 5, !.rows = rows]
  <2>3. SamplerOK(x)
    <3>1. x \in Sampler
      <4>1. RowOf(Win5) \subseteq Row
        BY DEF RowOf
      <4>2. rows \in Seq(Row)
        BY <2>2, <4>1, SeqMonotonic
      <4> QED
        BY <1>1, <4>2 DEF SamplerOK, Sampler, Steps
    <3>2. x.at = "append" /\ x.from = 5 /\ x.rows = rows /\ x.buf = proc[p].buf /\ x.w = proc[p].w
      BY <1>1 DEF SamplerOK, Sampler
    <3> HIDE DEF x
    <3> QED
      BY <1>1, <2>2, <3>1, <3>2 DEF SamplerOK, WinOf
  <2>4. proc' = [proc EXCEPT ![p] = x]
    BY <2>1
  <2> QED
    BY <1>2, <2>3, <2>4, OnlySampler DEF ReadFive, RollShapes
<1>3. CASE ReadHour(p)
  <2>1. PICK rows \in Aggregate(five, proc[p].w.w1h, HourTarget(p), Win1h) :
          proc' = [proc EXCEPT ![p].at = "append", ![p].from = 1, ![p].rows = rows]
    BY <1>3 DEF ReadHour
  <2>2. rows \in Seq(RowOf(Win1h))
    <3>1. five \in Seq(Row)
      <4>1. RowOf(Win5) \subseteq Row
        BY DEF RowOf
      <4> QED
        BY <4>1, SeqMonotonic DEF RollShapes
    <3>2. HourTarget(p) \in Nat /\ Win1h \in Nat \ {0}
      BY HourTargetType, Bounds
    <3> QED
      BY <1>1, <2>1, <3>1, <3>2, Aggregated
  <2> DEFINE x == [proc[p] EXCEPT !.at = "append", !.from = 1, !.rows = rows]
  <2>3. SamplerOK(x)
    <3>1. x \in Sampler
      <4>1. RowOf(Win1h) \subseteq Row
        BY DEF RowOf
      <4>2. rows \in Seq(Row)
        BY <2>2, <4>1, SeqMonotonic
      <4> QED
        BY <1>1, <4>2 DEF SamplerOK, Sampler, Steps
    <3>2. x.at = "append" /\ x.from = 1 /\ x.rows = rows /\ x.buf = proc[p].buf /\ x.w = proc[p].w
      BY <1>1 DEF SamplerOK, Sampler
    <3> HIDE DEF x
    <3> QED
      BY <1>1, <2>2, <3>1, <3>2 DEF SamplerOK, WinOf
  <2>4. proc' = [proc EXCEPT ![p] = x]
    BY <2>1
  <2> QED
    BY <1>3, <2>3, <2>4, OnlySampler DEF ReadHour, RollShapes
<1>4. CASE PassHour(p)
  <2> DEFINE x == [proc[p] EXCEPT !.at = "save"]
  <2>1. SamplerOK(x)
    BY <1>1, <1>4 DEF PassHour, SamplerOK, Sampler, Steps, Aligned
  <2>2. proc' = [proc EXCEPT ![p] = x]
    BY <1>4 DEF PassHour
  <2> QED
    BY <1>4, <2>1, <2>2, OnlySampler DEF PassHour, RollShapes
<1>5. CASE ReadsNothing(p)
  <2>1. faults' \in 0 .. MaxFaults
    BY <1>5, FaultType DEF ReadsNothing
  <2>2. \A R : R \subseteq Row => Samples(R) \subseteq Ids
    BY DEF Samples, Row
  <2>3. given' \in [five : SUBSET Ids, hour : SUBSET Ids]
    <3>1. given \in [five : SUBSET Ids, hour : SUBSET Ids] /\ journal \subseteq Row /\ folded \subseteq Row
      BY DEF RollShapes, RowOf
    <3>2. /\ Samples({r \in journal : r.t < Floor(proc[p].now, Win5)}) \subseteq Ids
          /\ Samples({f \in folded : f.t < HourTarget(p)}) \subseteq Ids
      BY <2>2, <3>1
    <3> QED
      <4>1. \/ given' = [given EXCEPT !.five =
                           given.five \cup Samples({r \in journal : r.t < Floor(proc[p].now, Win5)})]
            \/ given' = [given EXCEPT !.hour = given.hour \cup Samples({f \in folded : f.t < HourTarget(p)})]
        BY <1>5 DEF ReadsNothing
      <4> QED
        BY <3>1, <3>2, <4>1
  <2>4. PICK from \in {1, 5} : proc' = [proc EXCEPT ![p].at = "append", ![p].from = from]
    BY <1>5 DEF ReadsNothing
  <2> DEFINE x == [proc[p] EXCEPT !.at = "append", !.from = from]
  <2>5. SamplerOK(x)
    <3>1. proc[p].rows = <<>>
      BY <1>1, <1>5 DEF ReadsNothing, SamplerOK
    <3>2. x \in Sampler
      <4>1. from \in Nat /\ proc[p] \in Sampler
        BY <1>1, <2>4 DEF SamplerOK
      <4> QED
        BY <4>1 DEF Sampler, Steps
    <3>a. x.rows = <<>> /\ x.from \in {1, 5} /\ x.buf = proc[p].buf /\ x.w = proc[p].w
      <4>1. proc[p] \in Sampler /\ from \in {1, 5}
        BY <1>1, <2>4 DEF SamplerOK
      <4> QED
        BY <3>1, <4>1 DEF Sampler
    <3>3. \A R : <<>> \in Seq(R)
      OBVIOUS
    <3> HIDE DEF x
    <3> QED
      BY <1>1, <3>2, <3>3, <3>a DEF SamplerOK
  <2>6. proc' = [proc EXCEPT ![p] = x]
    BY <2>4
  <2> QED
    BY <1>5, <2>1, <2>3, <2>5, <2>6, OnlySampler DEF ReadsNothing
<1> QED
  BY <1>2, <1>3, <1>4, <1>5
LEMMA AppendType ==
  ASSUME RollShapes, NEW p \in Procs,
         AppendFive(p) \/ AppendHour(p) \/ AppendFails(p) \/ Save(p)
  PROVE  RollShapes'
<1>1. SamplerOK(proc[p]) /\ proc[p] \in Sampler /\ proc[p].now \in Nat
  BY DEF RollShapes, SamplerOK, Sampler
<1>2. CASE AppendFive(p)
  <2>1. proc[p].rows \in Seq(RowOf(Win5)) /\ five \in Seq(RowOf(Win5))
    BY <1>1, <1>2 DEF AppendFive, SamplerOK, WinOf, RollShapes
  <2>2. five \o proc[p].rows \in Seq(RowOf(Win5)) /\ Rows(proc[p].rows) \subseteq RowOf(Win5)
    BY <2>1, ConcatProperties, RowsOf
  <2>3. RowOf(Win5) \in SUBSET Row
    BY DEF RowOf
  <2>4. five' \in Seq(RowOf(Win5))
    BY <1>1, <1>2, <2>2, <2>3, AgedRows DEF AppendFive
  <2>5. folded' \subseteq RowOf(Win5)
    BY <1>2, <2>2 DEF AppendFive, RollShapes
  <2> DEFINE w == [proc[p].w EXCEPT !.w5 = Floor(proc[p].now, Win5)]
             x == [proc[p] EXCEPT !.at = "hour", !.rows = <<>>, !.w = w]
  <2>6. Aligned(w)
    BY <1>1, FloorOfClock DEF SamplerOK, Aligned, Marks
  <2>7. proc' = [proc EXCEPT ![p] = x]
    BY <1>2 DEF AppendFive
  <2> HIDE DEF w
  <2>8. SamplerOK(x)
    <3>0. w \in Marks /\ <<>> \in Seq(Row)
      BY <2>6 DEF Aligned
    <3>1. x \in Sampler
      BY <1>1, <3>0 DEF Sampler, Steps
    <3>2. x.at = "hour" /\ x.rows = <<>> /\ x.w = w /\ x.buf = proc[p].buf
      BY <1>1 DEF Sampler
    <3> HIDE DEF x
    <3> QED
      BY <1>1, <2>6, <3>1, <3>2 DEF SamplerOK
  <2>9. proc' \in [Procs -> Sampler] /\ \A q \in Procs : SamplerOK(proc'[q])
    BY <2>7, <2>8, SamplerMoves
  <2> QED
    BY <1>2, <2>4, <2>5, <2>9 DEF AppendFive, RollShapes
<1>3. CASE AppendHour(p)
  <2>1. proc[p].rows \in Seq(RowOf(Win1h)) /\ hour \in Seq(RowOf(Win1h))
    BY <1>1, <1>3 DEF AppendHour, SamplerOK, WinOf, RollShapes
  <2>2. hour' \in Seq(RowOf(Win1h))
    BY <1>3, <2>1, ConcatProperties DEF AppendHour
  <2> DEFINE w == [proc[p].w EXCEPT !.w1h = HourTarget(p)]
             x == [proc[p] EXCEPT !.at = "save", !.rows = <<>>, !.w = w]
  <2>3. Aligned(w)
    BY <1>1, HourTargetType DEF SamplerOK, Aligned, Marks
  <2>4. proc' = [proc EXCEPT ![p] = x]
    BY <1>3 DEF AppendHour
  <2> HIDE DEF w
  <2>5. SamplerOK(x)
    <3>0. w \in Marks /\ <<>> \in Seq(Row)
      BY <2>3 DEF Aligned
    <3>1. x \in Sampler
      BY <1>1, <3>0 DEF Sampler, Steps
    <3>2. x.at = "save" /\ x.rows = <<>> /\ x.w = w /\ x.buf = proc[p].buf
      BY <1>1 DEF Sampler
    <3> HIDE DEF x
    <3> QED
      BY <1>1, <2>3, <3>1, <3>2 DEF SamplerOK
  <2>6. proc' \in [Procs -> Sampler] /\ \A q \in Procs : SamplerOK(proc'[q])
    BY <2>4, <2>5, SamplerMoves
  <2> QED
    BY <1>3, <2>2, <2>6 DEF AppendHour, RollShapes
<1>4. CASE AppendFails(p)
  <2>1. faults' \in 0 .. MaxFaults
    BY <1>4, FaultType DEF AppendFails
  <2>2. PICK at \in {"hour", "save"} :
          proc' = [proc EXCEPT ![p].at = at, ![p].rows = <<>>, ![p].w = proc[p].w]
    BY <1>4 DEF AppendFails, LeftAlone
  <2> DEFINE x == [proc[p] EXCEPT !.at = at, !.rows = <<>>, !.w = proc[p].w]
  <2>3. SamplerOK(x)
    <3>1. at \in Steps /\ proc[p].w \in Marks /\ <<>> \in Seq(Row)
      BY <1>1, <2>2 DEF Sampler, Steps
    <3>2. x \in Sampler /\ x.at = at /\ x.rows = <<>> /\ x.w = proc[p].w /\ x.buf = proc[p].buf
      BY <1>1, <3>1 DEF Sampler
    <3> HIDE DEF x
    <3> QED
      BY <1>1, <2>2, <3>2 DEF SamplerOK
  <2>4. proc' = [proc EXCEPT ![p] = x]
    BY <2>2
  <2> QED
    BY <1>4, <2>1, <2>3, <2>4, OnlySampler DEF AppendFails, RollShapes
<1>5. CASE Save(p)
  <2>1. faults' \in 0 .. MaxFaults /\ Aligned(saved')
    BY <1>1, <1>5, FaultType DEF Save, RollShapes, SamplerOK
  <2> DEFINE x == [proc[p] EXCEPT !.at = "rest"]
  <2>2. SamplerOK(x)
    BY <1>1, <1>5 DEF Save, SamplerOK, Sampler, Steps, Aligned
  <2>3. proc' = [proc EXCEPT ![p] = x]
    BY <1>5 DEF Save
  <2>4. proc' \in [Procs -> Sampler] /\ \A q \in Procs : SamplerOK(proc'[q])
    BY <2>2, <2>3, SamplerMoves
  <2> QED
    BY <1>5, <2>1, <2>4 DEF Save, RollShapes
<1> QED
  BY <1>2, <1>3, <1>4, <1>5

\* What the passing of time leaves of a sampler.
LEMMA Woken ==
  ASSUME NEW t, Passes(t), RollShapes, NEW p \in Procs
  PROVE  /\ proc[p].at \in {"off", "stopped", "rest", "roll"}
         /\ proc'[p] = [proc[p] EXCEPT !.at = Wakes[proc[p].at]]
         /\ Wakes[proc[p].at] \in {"off", "sample", "roll"}
         /\ Wakes[proc[p].at] = "sample" <=> proc[p].at = "rest"
         /\ Wakes[proc[p].at] = "roll" <=> proc[p].at = "roll"
<1>1. proc[p].at \in DOMAIN Wakes /\ proc'[p] = [proc[p] EXCEPT !.at = Wakes[proc[p].at]]
  BY DEF Passes
<1>2. DOMAIN Wakes = {"off", "stopped", "rest", "roll"}
  BY DEF Wakes
<1>3. /\ Wakes["off"] = "off" /\ Wakes["stopped"] = "off"
      /\ Wakes["rest"] = "sample" /\ Wakes["roll"] = "roll"
  BY DEF Wakes
<1>4. proc[p].at = "off" \/ proc[p].at = "stopped" \/ proc[p].at = "rest" \/ proc[p].at = "roll"
  BY <1>1, <1>2
<1> QED
  BY <1>1, <1>3, <1>4

LEMMA PassesType ==
  ASSUME RollShapes, NEW t \in Nat, Passes(t), faults' \in 0 .. MaxFaults,
         given' \in [five : SUBSET Ids, hour : SUBSET Ids]
  PROVE  RollShapes'
<1>1. ASSUME NEW p \in Procs PROVE SamplerOK(proc'[p])
  <2>1. SamplerOK(proc[p]) /\ proc[p] \in Sampler
    BY DEF RollShapes, SamplerOK
  <2>2. PICK at \in {"off", "sample", "roll"} : proc'[p] = [proc[p] EXCEPT !.at = at]
    BY Woken
  <2>3. proc[p].rows = <<>>
    BY <2>1, Woken DEF SamplerOK
  <2>4. /\ proc'[p] \in Sampler /\ proc'[p].at = at /\ proc'[p].rows = <<>>
        /\ proc'[p].buf = proc[p].buf /\ proc'[p].w = proc[p].w
    BY <2>1, <2>2, <2>3 DEF Sampler, Steps
  <2> QED
    BY <2>1, <2>2, <2>4 DEF SamplerOK
<1>2. proc' = [p \in Procs |-> proc'[p]]
  BY DEF Passes
<1>3. proc' \in [Procs -> Sampler]
  BY <1>1, <1>2 DEF SamplerOK
<1>4. now' \in 0 .. MaxTime /\ high' \in now' .. MaxTime
  <2>1. now' = t /\ t <= MaxTime /\ high' = Greater(high, t) /\ high \in 0 .. MaxTime /\ MaxTime \in Nat
    <3>1. now \in 0 .. MaxTime /\ high \in now .. MaxTime /\ MaxTime \in Nat
      BY Bounds DEF RollShapes
    <3> QED
      BY <3>1 DEF Passes
  <2> QED
    BY <2>1 DEF Greater
<1> QED
  BY <1>1, <1>3, <1>4 DEF Passes, RollShapes

LEMMA TimeType ==
  ASSUME RollShapes, Tick \/ LongSleep \/ ClockBack PROVE RollShapes'
<1>1. now \in Nat /\ Jump \in Nat /\ now + 1 \in Nat /\ now + Jump \in Nat
  <2>1. now \in 0 .. MaxTime /\ MaxTime \in Nat /\ Jump \in Nat
    BY Bounds DEF RollShapes
  <2> QED
    BY <2>1
<1>2. given \in [five : SUBSET Ids, hour : SUBSET Ids] /\ faults \in 0 .. MaxFaults
  BY DEF RollShapes
<1>3. CASE Tick
  BY <1>1, <1>2, <1>3, PassesType DEF Tick
<1>4. CASE LongSleep
  <2>1. Taken \subseteq Ids
    <3>1. \A p \in Procs : proc[p].n \in Nat
      BY DEF RollShapes, Sampler
    <3>2. \A p \in Procs : (0 .. proc[p].n - 1) \subseteq Nat
      BY <3>1
    <3> QED
      BY <3>2 DEF Taken, Ids
  <2>2. given' = [given EXCEPT !.hour = given.hour \cup (Taken \ Samples(Rows(hour)))]
    BY <1>4 DEF LongSleep
  <2>3. given' \in [five : SUBSET Ids, hour : SUBSET Ids]
    BY <1>2, <2>1, <2>2
  <2> QED
    BY <1>1, <1>4, <2>3, FaultType, PassesType DEF LongSleep
<1>5. CASE ClockBack
  <2>1. now - Jump \in Nat
    BY <1>1, <1>5 DEF ClockBack
  <2> QED
    BY <1>2, <1>5, <2>1, FaultType, PassesType DEF ClockBack
<1> QED
  BY <1>3, <1>4, <1>5

LEMMA LifeType ==
  ASSUME RollShapes, NEW p \in Procs, Boot(p) \/ Stop(p) \/ Crash(p) PROVE RollShapes'
<1>1. SamplerOK(proc[p]) /\ proc[p].n \in Nat /\ proc[p].buf \in Seq(Row)
  BY DEF RollShapes, SamplerOK, Sampler
<1>2. ASSUME NEW at \in {"sample", "stopped", "off"}
      PROVE  SamplerOK([Off EXCEPT !.at = at, !.n = proc[p].n])
  <2>1. Aligned(Zero)
    BY Bounds DEF Aligned, Zero, Marks
  <2> DEFINE x == [Off EXCEPT !.at = at, !.n = proc[p].n]
  <2>2. x.at = at /\ x.rows = <<>> /\ x.w = Zero /\ x.buf = <<>> /\ Len(<<>>) <= FlushEvery
    BY Bounds DEF Off
  <2>3. x \in Sampler
    <3>1. at \in Steps
      BY <1>2 DEF Steps
    <3> QED
      BY <1>1, <3>1, OffType DEF Sampler
  <2> HIDE DEF x
  <2>4. SamplerOK(x)
    BY <2>1, <2>2, <2>3 DEF SamplerOK
  <2> QED
    BY <2>4 DEF x
<1>3. CASE Boot(p)
  BY <1>2, <1>3, OnlySampler DEF Boot, RollShapes
<1>4. CASE Crash(p)
  <2>1. proc' = [proc EXCEPT ![p] = [Off EXCEPT !.at = "off", !.n = proc[p].n]]
    <3>1. [Off EXCEPT !.n = proc[p].n] = [Off EXCEPT !.at = "off", !.n = proc[p].n]
      BY OffType DEF Sampler
    <3> QED
      BY <1>4, <3>1 DEF Crash
  <2>2. faults' \in 0 .. MaxFaults
    BY <1>4, FaultType DEF Crash
  <2> QED
    BY <1>2, <1>4, <2>1, <2>2, OnlySampler DEF Crash, RollShapes
<1>5. CASE Stop(p)
  <2>1. proc' \in [Procs -> Sampler] /\ \A q \in Procs : SamplerOK(proc'[q])
    BY <1>2, <1>5, SamplerMoves DEF Stop
  <2>2. /\ raw' \in Seq(Row) /\ Len(raw') <= MaxRaw + Slack + FlushEvery
        /\ journal' \subseteq Row /\ faults' \in 0 .. MaxFaults
    BY <1>1, <1>5, FlushType DEF Stop
  <2> QED
    BY <1>5, <2>1, <2>2 DEF Stop, RollShapes
<1> QED
  BY <1>3, <1>4, <1>5

\* A step is one of these.
LEMMA RollCases ==
  ASSUME [RollNext]_rollVars
  PROVE  \/ UNCHANGED rollVars
         \/ Tick \/ LongSleep \/ ClockBack
         \/ \E p \in Procs : \/ Sample(p) \/ EnterFive(p) \/ PassFive(p) \/ ReadFive(p)
                             \/ AppendFive(p) \/ ReadHour(p) \/ PassHour(p) \/ AppendHour(p)
                             \/ ReadsNothing(p) \/ AppendFails(p) \/ Save(p)
                             \/ Boot(p) \/ Stop(p) \/ Crash(p)
BY DEF RollNext, Rollup

LEMMA RollTypeStep == ASSUME RollShapes, [RollNext]_rollVars PROVE RollShapes'
<1>1. CASE UNCHANGED rollVars
  BY <1>1 DEF rollVars, RollShapes
<1> QED
  BY <1>1, RollCases, TimeType, SampleType, EnterType, ReadType, AppendType, LifeType

\* Rows are rows, the raw journal stays near its limit, the watermarks are whole windows
\* (metrics.py, metrics_rollup.py).
THEOREM RollTypeCorrect == RollSpec => []RollTypeOK
<1>1. RollShapes /\ [RollNext]_rollVars => RollShapes'
  BY RollTypeStep
<1>2. RollShapes => RollTypeOK
  BY RollTypes
<1> QED
  BY RollTypeInit, <1>1, <1>2, PTL DEF RollSpec
-----------------------------------------------------------------------------
(* No double count.  A sample is of one tick, a row of a tier is made of   *)
(* samples of its window (OriginInv), and a tier climbs: a pass reads from *)
(* the watermark on, above which the tier has no row (ClimbInv).           *)

AllRows == journal \cup UNION {Rows(proc[p].buf) : p \in Procs}

\* The raw journal holds what it took; a sample bears the next number of its process,
\* and has one time.
StampInv ==
  /\ Rows(raw) \subseteq journal
  /\ \A r \in AllRows : \A d \in r.ids : d[2] < proc[d[1]].n
  /\ \A r, q \in AllRows : r.ids \cap q.ids # {} => r.t = q.t

\* The rows are of their windows' samples.
TrueOf(s, win) ==
  \A i \in DOMAIN s : \A d \in s[i].ids : \E r \in journal : d \in r.ids /\ Floor(r.t, win) = s[i].t

OriginInv ==
  /\ TrueOf(five, Win5) /\ TrueOf(hour, Win1h)
  /\ \A p \in Procs : TrueOf(proc[p].rows, WinOf(proc[p]))

Below(s, m) == \A i \in DOMAIN s : s[i].t < m

\* The watermark a pass starts from, and what it will set it to.
Low(p) == IF proc[p].from = 5 THEN proc[p].w.w5 ELSE proc[p].w.w1h
Top(p) == IF proc[p].from = 5 THEN Floor(proc[p].now, Win5) ELSE HourTarget(p)

ClimbOf(p) ==
  /\ proc[p].at \in {"five", "hour", "append", "save"} => proc[p].loaded
  /\ proc[p].loaded => Below(five, proc[p].w.w5) /\ Below(hour, proc[p].w.w1h)
  /\ proc[p].at = "five" => proc[p].w.w5 <= Floor(proc[p].now, Win5)
  /\ proc[p].at = "append" =>
       /\ Low(p) <= Top(p) /\ Climbs(proc[p].rows) /\ Below(proc[p].rows, Top(p))
       /\ \A i \in DOMAIN proc[p].rows : Low(p) <= proc[p].rows[i].t

ClimbInv == Climbs(five) /\ Climbs(hour) /\ \A p \in Procs : ClimbOf(p)
\* What a step other than a sample does to the rows that are kept: none is new.
RowsStay ==
  /\ \A p \in Procs : /\ proc'[p].n = proc[p].n
                      /\ proc'[p].buf = proc[p].buf \/ proc'[p].buf = <<>>
  /\ journal \subseteq journal' /\ journal' \subseteq AllRows
  /\ Rows(raw') \subseteq journal'

LEMMA FlushStays ==
  ASSUME RollShapes, Rows(raw) \subseteq journal, NEW p \in Procs, Flushed(proc[p].buf)
  PROVE  /\ journal \subseteq journal' /\ journal' \subseteq AllRows
         /\ Rows(raw') \subseteq journal'
<1>1. proc[p].buf \in Seq(Row)
  BY DEF RollShapes, Sampler
<1>2. /\ journal \subseteq journal' /\ journal' \subseteq journal \cup Rows(proc[p].buf)
      /\ Rows(raw') \subseteq journal'
  BY <1>1, FlushType
<1> QED
  BY <1>2 DEF AllRows

LEMMA Stays ==
  ASSUME RollShapes, Rows(raw) \subseteq journal,
         \/ Tick \/ LongSleep \/ ClockBack
         \/ \E p \in Procs : \/ EnterFive(p) \/ PassFive(p) \/ ReadFive(p)
                             \/ AppendFive(p) \/ ReadHour(p) \/ PassHour(p) \/ AppendHour(p)
                             \/ ReadsNothing(p) \/ AppendFails(p) \/ Save(p)
                             \/ Boot(p) \/ Stop(p) \/ Crash(p)
  PROVE  RowsStay
<1>0. proc \in [Procs -> Sampler]
  BY DEF RollShapes
<1>1. ASSUME UNCHANGED <<raw, journal>>,
             \A p \in Procs : /\ proc'[p].n = proc[p].n
                              /\ proc'[p].buf = proc[p].buf \/ proc'[p].buf = <<>>
      PROVE  RowsStay
  BY <1>1 DEF RowsStay, AllRows
<1>2. CASE Tick \/ LongSleep \/ ClockBack
  <2>1. PICK t : Passes(t)
    BY <1>2 DEF Tick, LongSleep, ClockBack
  <2>2. \A p \in Procs : proc'[p].n = proc[p].n /\ proc'[p].buf = proc[p].buf
    BY <1>0, <2>1, Woken DEF Sampler
  <2> QED
    BY <1>1, <2>1, <2>2 DEF Passes
<1>3. ASSUME NEW p \in Procs, EnterFive(p) PROVE RowsStay
  <2>1. Flushed(proc[p].buf)
    BY <1>3 DEF EnterFive, FlushPending
  <2>2. proc' = [proc EXCEPT ![p].at = "five", ![p].buf = <<>>, ![p].now = now,
                             ![p].w = Marked(p), ![p].loaded = TRUE]
    BY <1>3 DEF EnterFive, FlushPending
  <2>3. \A q \in Procs : /\ proc'[q].n = proc[q].n
                         /\ proc'[q].buf = proc[q].buf \/ proc'[q].buf = <<>>
    BY <1>0, <2>2 DEF Sampler
  <2>4. /\ journal \subseteq journal' /\ journal' \subseteq AllRows
        /\ Rows(raw') \subseteq journal'
    BY ONLY RollShapes, Rows(raw) \subseteq journal, p \in Procs, <2>1, FlushStays
  <2> QED
    BY <2>3, <2>4 DEF RowsStay
<1>4. ASSUME NEW p \in Procs, PassFive(p) PROVE RowsStay
  <2>1. \A q \in Procs : proc'[q].n = proc[q].n /\ proc'[q].buf = proc[q].buf
    BY <1>0, <1>4 DEF PassFive, Sampler
  <2>2. UNCHANGED <<raw, journal>>
    BY <1>4 DEF PassFive
  <2> QED
    BY <1>1, <2>1, <2>2
<1>5. ASSUME NEW p \in Procs, ReadFive(p) \/ ReadHour(p) PROVE RowsStay
  <2>1. PICK from, rows : proc' = [proc EXCEPT ![p].at = "append", ![p].from = from, ![p].rows = rows]
    BY <1>5 DEF ReadFive, ReadHour
  <2>2. \A q \in Procs : proc'[q].n = proc[q].n /\ proc'[q].buf = proc[q].buf
    BY <1>0, <2>1 DEF Sampler
  <2>3. UNCHANGED <<raw, journal>>
    BY <1>5 DEF ReadFive, ReadHour
  <2> QED
    BY <1>1, <2>2, <2>3
<1>6. ASSUME NEW p \in Procs, PassHour(p) PROVE RowsStay
  BY <1>0, <1>1, <1>6 DEF PassHour, Sampler
<1>7. ASSUME NEW p \in Procs, ReadsNothing(p) PROVE RowsStay
  <2>1. PICK from : proc' = [proc EXCEPT ![p].at = "append", ![p].from = from]
    BY <1>7 DEF ReadsNothing
  <2> QED
    BY <1>0, <1>1, <1>7, <2>1 DEF ReadsNothing, Sampler
<1>8. ASSUME NEW p \in Procs, AppendFive(p) PROVE RowsStay
  BY <1>0, <1>1, <1>8 DEF AppendFive, Sampler
<1>9. ASSUME NEW p \in Procs, AppendHour(p) PROVE RowsStay
  BY <1>0, <1>1, <1>9 DEF AppendHour, Sampler
<1>10. ASSUME NEW p \in Procs, AppendFails(p) PROVE RowsStay
  BY <1>0, <1>1, <1>10 DEF AppendFails, Sampler
<1>11. ASSUME NEW p \in Procs, Save(p) PROVE RowsStay
  BY <1>0, <1>1, <1>11 DEF Save, Sampler
<1>12. ASSUME NEW p \in Procs, NEW at, proc' = [proc EXCEPT ![p] = [Off EXCEPT !.at = at, !.n = proc[p].n]]
       PROVE  \A q \in Procs : /\ proc'[q].n = proc[q].n
                               /\ proc'[q].buf = proc[q].buf \/ proc'[q].buf = <<>>
  BY <1>0, <1>12, OffType DEF Sampler
<1>13. ASSUME NEW p \in Procs, Boot(p) PROVE RowsStay
  BY <1>1, <1>12, <1>13 DEF Boot
<1>14. ASSUME NEW p \in Procs, Stop(p) PROVE RowsStay
  BY <1>12, <1>14, FlushStays DEF Stop, RowsStay
<1>15. ASSUME NEW p \in Procs, Crash(p) PROVE RowsStay
  <2>1. \A q \in Procs : /\ proc'[q].n = proc[q].n
                         /\ proc'[q].buf = proc[q].buf \/ proc'[q].buf = <<>>
    BY <1>0, <1>15, OffType DEF Crash, Sampler
  <2> QED
    BY <1>1, <1>15, <2>1 DEF Crash
<1> QED
  BY <1>2, <1>3, <1>4, <1>5, <1>6, <1>7, <1>8, <1>9, <1>10, <1>11, <1>13, <1>14, <1>15

LEMMA StampInit == RollInit => StampInv
<1> SUFFICES ASSUME RollInit PROVE StampInv
  OBVIOUS
<1>1. Rows(<<>>) = {}
  BY DEF Rows
<1>2. AllRows = {}
  BY <1>1, OffType DEF RollInit, AllRows
<1> QED
  BY <1>1, <1>2 DEF RollInit, StampInv

LEMMA AllRowsType == ASSUME RollShapes PROVE AllRows \subseteq Row
<1>1. \A p \in Procs : Rows(proc[p].buf) \subseteq Row
  BY RowsOf DEF RollShapes, Sampler
<1> QED
  BY <1>1 DEF AllRows, RollShapes

LEMMA StampStays == ASSUME RollShapes, StampInv, RowsStay PROVE StampInv'
<1>1. Rows(<<>>) = {}
  BY DEF Rows
<1>2. \A p \in Procs : Rows(proc'[p].buf) \subseteq Rows(proc[p].buf)
  BY <1>1 DEF RowsStay
<1>3. AllRows' \subseteq AllRows
  BY <1>2 DEF RowsStay, AllRows
<1>4. ASSUME NEW r \in AllRows', NEW d \in r.ids PROVE d[2] < proc'[d[1]].n
  <2>1. r \in AllRows /\ d \in Ids
    BY <1>3, <1>4, AllRowsType DEF Row
  <2>2. d[1] \in Procs
    BY <2>1 DEF Ids
  <2> QED
    BY <1>4, <2>1, <2>2 DEF StampInv, RowsStay
<1> QED
  BY <1>3, <1>4 DEF StampInv, RowsStay

\* The sample of this step is new.
LEMMA StampSample ==
  ASSUME RollShapes, StampInv, NEW p \in Procs, Sample(p) PROVE StampInv' /\ journal \subseteq journal'
<1> DEFINE row == [t |-> now, ids |-> {<<p, proc[p].n>>}]
           buf == Append(proc[p].buf, row)
<1>0. proc \in [Procs -> Sampler] /\ proc[p].n \in Nat /\ now \in Nat /\ proc[p].buf \in Seq(Row)
  <2>1. now \in 0 .. MaxTime /\ proc \in [Procs -> Sampler]
    BY DEF RollShapes
  <2> QED
    BY <2>1 DEF Sampler
<1>1. row \in Row /\ row.ids = {<<p, proc[p].n>>} /\ row.t = now
  BY <1>0 DEF Row, Ids
<1> HIDE DEF row
<1>2. buf \in Seq(Row) /\ Rows(buf) = Rows(proc[p].buf) \cup {row}
  <2>1. /\ buf \in Seq(Row) /\ Len(buf) = Len(proc[p].buf) + 1
        /\ \A i \in 1 .. Len(proc[p].buf) : buf[i] = proc[p].buf[i]
        /\ buf[Len(proc[p].buf) + 1] = row
    BY <1>0, <1>1, AppendProperties
  <2>2. DOMAIN buf = DOMAIN proc[p].buf \cup {Len(proc[p].buf) + 1}
    <3>1. DOMAIN buf = 1 .. Len(proc[p].buf) + 1 /\ DOMAIN proc[p].buf = 1 .. Len(proc[p].buf)
          /\ Len(proc[p].buf) \in Nat
      BY <1>0, <2>1, LenProperties
    <3> QED
      BY <3>1
  <2>3. DOMAIN proc[p].buf = 1 .. Len(proc[p].buf)
    BY <1>0, LenProperties
  <2> HIDE DEF buf
  <2> QED
    BY <2>1, <2>2, <2>3 DEF Rows
<1>3. PICK left \in {buf, <<>>} :
        proc' = [proc EXCEPT ![p].at = "roll", ![p].n = proc[p].n + 1, ![p].buf = left]
  BY DEF Sample, buf, row
<1>4. /\ journal \subseteq journal' /\ journal' \subseteq journal \cup Rows(buf)
      /\ Rows(raw') \subseteq journal'
  <2>1. Flushed(buf) \/ UNCHANGED <<raw, journal>>
    BY DEF Sample, buf, row
  <2>2. Rows(raw) \subseteq journal
    BY DEF StampInv
  <2> QED
    BY <1>2, <2>1, <2>2, FlushType
<1> HIDE DEF buf
<1>5. /\ proc'[p].n = proc[p].n + 1 /\ proc'[p].buf \in {buf, <<>>}
      /\ \A q \in Procs \ {p} : proc'[q] = proc[q]
  BY <1>0, <1>3 DEF Sampler
<1>6. AllRows' \subseteq AllRows \cup {row}
  <2>1. Rows(<<>>) = {}
    BY DEF Rows
  <2>2. \A q \in Procs : Rows(proc'[q].buf) \subseteq Rows(proc[q].buf) \cup {row}
    BY <1>2, <1>5, <2>1
  <2>3. journal' \subseteq journal \cup Rows(proc[p].buf) \cup {row}
    BY <1>2, <1>4
  <2> QED
    BY <2>2, <2>3 DEF AllRows
<1>7. ASSUME NEW r \in AllRows
      PROVE  r.ids \cap row.ids = {} /\ \A d \in r.ids : d[2] < proc'[d[1]].n
  <2>1. r.ids \subseteq Ids /\ \A d \in r.ids : d[2] < proc[d[1]].n
    BY <1>7, AllRowsType DEF Row, StampInv
  <2>2. <<p, proc[p].n>> \notin r.ids
    <3>1. <<p, proc[p].n>>[1] = p /\ <<p, proc[p].n>>[2] = proc[p].n /\ ~(proc[p].n < proc[p].n)
      BY <1>0
    <3> QED
      BY <2>1, <3>1
  <2>3. ASSUME NEW d \in r.ids PROVE d[2] < proc'[d[1]].n
    <3>1. d[1] \in Procs /\ d[2] \in Nat /\ d[2] < proc[d[1]].n
      BY <2>1 DEF Ids
    <3> QED
      BY <1>0, <1>5, <3>1
  <2> QED
    BY <1>1, <2>2, <2>3
<1>8. \A d \in row.ids : d[2] < proc'[d[1]].n
  BY <1>0, <1>1, <1>5
<1> QED
  BY <1>4, <1>6, <1>7, <1>8 DEF StampInv
LEMMA StampStep ==
  ASSUME RollShapes, StampInv, [RollNext]_rollVars PROVE StampInv' /\ journal \subseteq journal'
<1>1. CASE UNCHANGED rollVars
  BY <1>1 DEF rollVars, StampInv, AllRows
<1>2. ASSUME NEW p \in Procs, Sample(p) PROVE StampInv' /\ journal \subseteq journal'
  BY <1>2, StampSample
<1>3. CASE RowsStay
  BY <1>3, StampStays DEF RowsStay
<1>4. Rows(raw) \subseteq journal
  BY DEF StampInv
<1> QED
  BY <1>1, <1>2, <1>3, <1>4, RollCases, Stays

-----------------------------------------------------------------------------
(* Where the rows come from. *)

LEMMA OriginInit == RollInit => OriginInv
<1> SUFFICES ASSUME RollInit PROVE OriginInv
  OBVIOUS
<1>1. \A win : TrueOf(<<>>, win)
  BY DEF TrueOf
<1> QED
  BY <1>1, OffType DEF RollInit, OriginInv

\* What was true stays so.
LEMMA StillTrue ==
  ASSUME journal \subseteq journal', NEW s, NEW win, TrueOf(s, win)
  PROVE  \A i \in DOMAIN s : \A d \in s[i].ids : \E r \in journal' : d \in r.ids /\ Floor(r.t, win) = s[i].t
BY DEF TrueOf

LEMMA TrueRows ==
  ASSUME NEW s, NEW u, NEW win, TrueOf(s, win), Rows(u) \subseteq Rows(s)
  PROVE  TrueOf(u, win)
BY DEF TrueOf, Rows

LEMMA JoinedRows ==
  ASSUME NEW R, NEW s \in Seq(R), NEW u \in Seq(R)
  PROVE  Rows(s \o u) = Rows(s) \cup Rows(u)
<1>1. /\ Len(s \o u) = Len(s) + Len(u) /\ s \o u \in Seq(R)
      /\ \A i \in 1 .. Len(s) + Len(u) :
           (s \o u)[i] = IF i <= Len(s) THEN s[i] ELSE u[i - Len(s)]
  BY ConcatProperties
<1>2. /\ DOMAIN (s \o u) = 1 .. Len(s) + Len(u) /\ DOMAIN s = 1 .. Len(s) /\ DOMAIN u = 1 .. Len(u)
      /\ Len(s) \in Nat /\ Len(u) \in Nat
  BY <1>1, LenProperties
<1> DEFINE v == s \o u
<1>3. \A i \in DOMAIN v : v[i] \in Rows(s) \cup Rows(u)
  <2>1. ASSUME NEW i \in DOMAIN v PROVE v[i] \in Rows(s) \cup Rows(u)
    <3>1. CASE i <= Len(s)
      BY <1>1, <1>2, <3>1 DEF Rows
    <3>2. CASE ~(i <= Len(s))
      <4>1. i - Len(s) \in DOMAIN u /\ v[i] = u[i - Len(s)]
        BY <1>1, <1>2, <3>2
      <4> QED
        BY <4>1 DEF Rows
    <3> QED
      BY <3>1, <3>2
  <2> QED
    BY <2>1
<1>4. \A i \in DOMAIN s : i \in DOMAIN v /\ v[i] = s[i]
  BY <1>1, <1>2
<1>5. \A i \in DOMAIN u : i + Len(s) \in DOMAIN v /\ v[i + Len(s)] = u[i]
  <2>1. ASSUME NEW i \in DOMAIN u PROVE i + Len(s) \in DOMAIN v /\ v[i + Len(s)] = u[i]
    <3>1. i \in Nat /\ i >= 1 /\ i <= Len(u)
      BY <1>2
    <3>2. i + Len(s) \in 1 .. Len(s) + Len(u) /\ ~(i + Len(s) <= Len(s)) /\ (i + Len(s)) - Len(s) = i
      BY <1>2, <3>1
    <3> QED
      BY <1>1, <1>2, <3>2
  <2> QED
    BY <2>1
<1> HIDE DEF v
<1>6. Rows(v) = Rows(s) \cup Rows(u)
  BY <1>3, <1>4, <1>5 DEF Rows
<1> QED
  BY <1>6 DEF v

LEMMA TrueJoined ==
  ASSUME NEW R, NEW s \in Seq(R), NEW u \in Seq(R), NEW win, TrueOf(s, win), TrueOf(u, win)
  PROVE  TrueOf(s \o u, win)
<1>1. Rows(s \o u) = Rows(s) \cup Rows(u)
  BY JoinedRows
<1>2. \A r \in Rows(s) \cup Rows(u) : \A d \in r.ids : \E q \in journal : d \in q.ids /\ Floor(q.t, win) = r.t
  BY DEF TrueOf, Rows
<1>3. \A i \in DOMAIN (s \o u) : (s \o u)[i] \in Rows(s \o u)
  BY DEF Rows
<1> QED
  BY <1>1, <1>2, <1>3 DEF TrueOf

\* The rows that a pass has read keep their origin when the other samplers go on.
LEMMA OriginQuiet ==
  ASSUME OriginInv, journal \subseteq journal', UNCHANGED <<five, hour>>,
         \A p \in Procs : \/ proc'[p].rows = proc[p].rows /\ proc'[p].from = proc[p].from
                          \/ proc'[p].rows = <<>>
  PROVE  OriginInv'
<1>1. TrueOf(five, Win5)' /\ TrueOf(hour, Win1h)'
  BY StillTrue DEF OriginInv, TrueOf
<1>2. ASSUME NEW p \in Procs PROVE TrueOf(proc[p].rows, WinOf(proc[p]))'
  <2>1. CASE proc'[p].rows = <<>>
    BY <2>1 DEF TrueOf
  <2>2. CASE proc'[p].rows = proc[p].rows /\ proc'[p].from = proc[p].from
    <3>1. TrueOf(proc[p].rows, WinOf(proc[p])) /\ WinOf(proc[p])' = WinOf(proc[p])
      BY <2>2 DEF OriginInv, WinOf
    <3> QED
      BY <2>2, <3>1, StillTrue DEF TrueOf
  <2> QED
    BY <2>1, <2>2
<1> QED
  BY <1>1, <1>2 DEF OriginInv

\* What a pass reads is true of the tier beneath.
LEMMA ReadTrue ==
  ASSUME RollShapes, StampInv, OriginInv, NEW p \in Procs, ReadFive(p) \/ ReadHour(p)
  PROVE  TrueOf(proc'[p].rows, WinOf(proc'[p]))
<1>1. /\ proc \in [Procs -> Sampler] /\ proc[p].now \in Nat /\ proc[p].w.w5 \in Nat /\ proc[p].w.w1h \in Nat
      /\ proc[p].w.w5 % Win5 = 0 /\ proc[p].w.w1h % Win1h = 0
  BY DEF RollShapes, SamplerOK, Sampler, Aligned, Marks
<1>2. CASE ReadFive(p)
  <2>1. PICK rows \in Aggregate(raw, proc[p].w.w5, Floor(proc[p].now, Win5), Win5) :
          proc' = [proc EXCEPT ![p].at = "append", ![p].from = 5, ![p].rows = rows]
    BY <1>2 DEF ReadFive
  <2>2. proc'[p].rows = rows /\ proc'[p].from = 5
    BY <1>1, <2>1 DEF Sampler
  <2>3. raw \in Seq(Row) /\ Floor(proc[p].now, Win5) \in Nat /\ Win5 \in Nat \ {0}
    BY <1>1, FloorOfClock, Bounds DEF RollShapes
  <2>4. \A i \in DOMAIN rows : \A d \in rows[i].ids :
          \E r \in Rows(raw) : d \in r.ids /\ Floor(r.t, Win5) = rows[i].t
    BY <1>1, <2>1, <2>3, Aggregated
  <2>5. Rows(raw) \subseteq journal
    BY DEF StampInv
  <2> QED
    BY <2>2, <2>4, <2>5 DEF TrueOf, WinOf
<1>3. CASE ReadHour(p)
  <2>1. PICK rows \in Aggregate(five, proc[p].w.w1h, HourTarget(p), Win1h) :
          proc' = [proc EXCEPT ![p].at = "append", ![p].from = 1, ![p].rows = rows]
    BY <1>3 DEF ReadHour
  <2>2. proc'[p].rows = rows /\ proc'[p].from = 1
    BY <1>1, <2>1 DEF Sampler
  <2>3. five \in Seq(Row) /\ HourTarget(p) \in Nat /\ Win1h \in Nat \ {0}
    <3>1. RowOf(Win5) \subseteq Row
      BY DEF RowOf
    <3> QED
      BY <3>1, SeqMonotonic, HourTargetType, Bounds DEF RollShapes
  <2>4. \A i \in DOMAIN rows : \A d \in rows[i].ids :
          \E r \in Rows(five) : d \in r.ids /\ Floor(r.t, Win1h) = rows[i].t
    BY <1>1, <2>1, <2>3, Aggregated
  <2>5. ASSUME NEW f \in Rows(five), NEW d \in f.ids
        PROVE  \E r \in journal : d \in r.ids /\ Floor(r.t, Win1h) = Floor(f.t, Win1h)
    <3>1. PICK r \in journal : d \in r.ids /\ Floor(r.t, Win5) = f.t
      BY <2>5 DEF OriginInv, TrueOf, Rows
    <3>2. r.t \in Nat
      BY DEF RollShapes, Row
    <3> QED
      BY <3>1, <3>2, HourOfFive
  <2>6. WinOf(proc'[p]) = Win1h
    BY <2>2 DEF WinOf
  <2> QED
    BY <2>2, <2>4, <2>5, <2>6 DEF TrueOf
<1> QED
  BY <1>2, <1>3

LEMMA OriginStep ==
  ASSUME RollShapes, StampInv, OriginInv, [RollNext]_rollVars PROVE OriginInv'
<1>0. proc \in [Procs -> Sampler] /\ journal \subseteq journal'
  BY StampStep DEF RollShapes
<1>1. CASE UNCHANGED rollVars
  BY <1>1, OriginQuiet DEF rollVars
<1>2. CASE Tick \/ LongSleep \/ ClockBack
  <2>1. PICK t : Passes(t)
    BY <1>2 DEF Tick, LongSleep, ClockBack
  <2>2. \A p \in Procs : proc'[p].rows = proc[p].rows /\ proc'[p].from = proc[p].from
    BY <1>0, <2>1, Woken DEF Sampler
  <2> QED
    BY <1>0, <2>1, <2>2, OriginQuiet DEF Passes
<1>3. ASSUME NEW p \in Procs, Sample(p) \/ EnterFive(p) \/ PassFive(p) \/ PassHour(p) \/ Save(p)
      PROVE  OriginInv'
  <2>1. UNCHANGED <<five, hour>>
    BY <1>3 DEF Sample, EnterFive, PassFive, PassHour, Save
  <2>2. \A q \in Procs : proc'[q].rows = proc[q].rows /\ proc'[q].from = proc[q].from
    <3>1. CASE Sample(p)
      <4>1. PICK left :
              proc' = [proc EXCEPT ![p].at = "roll", ![p].n = proc[p].n + 1, ![p].buf = left]
        BY <3>1 DEF Sample
      <4> QED
        BY <1>0, <4>1 DEF Sampler
    <3>2. CASE EnterFive(p)
      BY <1>0, <3>2 DEF EnterFive, Sampler
    <3>3. CASE PassFive(p)
      BY <1>0, <3>3 DEF PassFive, Sampler
    <3>4. CASE PassHour(p)
      BY <1>0, <3>4 DEF PassHour, Sampler
    <3>5. CASE Save(p)
      BY <1>0, <3>5 DEF Save, Sampler
    <3> QED
      BY <1>3, <3>1, <3>2, <3>3, <3>4, <3>5
  <2> QED
    BY <1>0, <2>1, <2>2, OriginQuiet
<1>4. ASSUME NEW p \in Procs, AppendFails(p) \/ ReadsNothing(p) PROVE OriginInv'
  <2>1. SamplerOK(proc[p])
    BY DEF RollShapes
  <2>2. proc'[p].rows = <<>> /\ \A q \in Procs \ {p} : proc'[q] = proc[q]
    BY <1>0, <1>4, <2>1 DEF AppendFails, ReadsNothing, SamplerOK, Sampler
  <2>3. UNCHANGED <<five, hour>>
    BY <1>4 DEF AppendFails, ReadsNothing
  <2> QED
    BY <1>0, <2>2, <2>3, OriginQuiet
<1>5. ASSUME NEW p \in Procs, Boot(p) \/ Stop(p) \/ Crash(p) PROVE OriginInv'
  <2>1. proc'[p].rows = <<>> /\ \A q \in Procs \ {p} : proc'[q] = proc[q]
    <3>1. CASE Boot(p)
      BY <1>0, <3>1, OffType DEF Boot, Sampler
    <3>2. CASE Stop(p)
      BY <1>0, <3>2, OffType DEF Stop, Sampler
    <3>3. CASE Crash(p)
      BY <1>0, <3>3, OffType DEF Crash, Sampler
    <3> QED
      BY <1>5, <3>1, <3>2, <3>3
  <2>2. UNCHANGED <<five, hour>>
    BY <1>5 DEF Boot, Stop, Crash
  <2> QED
    BY <1>0, <2>1, <2>2, OriginQuiet
<1>6. ASSUME NEW p \in Procs, ReadFive(p) \/ ReadHour(p) PROVE OriginInv'
  <2>1. TrueOf(proc'[p].rows, WinOf(proc'[p]))
    BY <1>6, ReadTrue
  <2>2. UNCHANGED <<five, hour, journal>> /\ \A q \in Procs \ {p} : proc'[q] = proc[q]
    BY <1>0, <1>6 DEF ReadFive, ReadHour
  <2> QED
    BY <2>1, <2>2 DEF OriginInv, TrueOf, WinOf
<1>7. ASSUME NEW p \in Procs, AppendFive(p) \/ AppendHour(p) PROVE OriginInv'
  <2>1. SamplerOK(proc[p]) /\ proc[p].now \in Nat /\ TrueOf(proc[p].rows, WinOf(proc[p]))
    BY DEF RollShapes, Sampler, OriginInv
  <2>2. proc'[p].rows = <<>> /\ \A q \in Procs \ {p} : proc'[q] = proc[q]
    BY <1>0, <1>7 DEF AppendFive, AppendHour, Sampler
  <2>3. UNCHANGED journal
    BY <1>7 DEF AppendFive, AppendHour
  <2>4. \A q \in Procs : TrueOf(proc[q].rows, WinOf(proc[q]))'
    BY <2>2, <2>3 DEF OriginInv, TrueOf, WinOf
  <2>5. TrueOf(five', Win5) /\ TrueOf(hour', Win1h)
    <3>1. CASE AppendFive(p)
      <4>1. /\ proc[p].rows \in Seq(RowOf(Win5)) /\ five \in Seq(RowOf(Win5))
            /\ TrueOf(proc[p].rows, Win5)
        BY <2>1, <3>1 DEF AppendFive, SamplerOK, WinOf, RollShapes
      <4>2. five \o proc[p].rows \in Seq(RowOf(Win5)) /\ TrueOf(five \o proc[p].rows, Win5)
        BY <4>1, ConcatProperties, TrueJoined DEF OriginInv
      <4>3. Rows(five') \subseteq Rows(five \o proc[p].rows)
        <5>1. RowOf(Win5) \in SUBSET Row
          BY DEF RowOf
        <5> QED
          BY <2>1, <3>1, <4>2, <5>1, AgedRows DEF AppendFive
      <4>4. TrueOf(five', Win5)
        BY <4>2, <4>3, TrueRows
      <4> QED
        BY <3>1, <4>4 DEF AppendFive, OriginInv
    <3>2. CASE AppendHour(p)
      <4>1. /\ proc[p].rows \in Seq(RowOf(Win1h)) /\ hour \in Seq(RowOf(Win1h))
            /\ TrueOf(proc[p].rows, Win1h)
        BY <2>1, <3>2 DEF AppendHour, SamplerOK, WinOf, RollShapes
      <4>2. TrueOf(hour \o proc[p].rows, Win1h)
        BY <4>1, TrueJoined DEF OriginInv
      <4> QED
        BY <3>2, <4>2 DEF AppendHour, OriginInv
    <3> QED
      BY <1>7, <3>1, <3>2
  <2> QED
    BY <2>3, <2>4, <2>5 DEF OriginInv, TrueOf
<1> QED
  BY <1>1, <1>2, <1>3, <1>4, <1>5, <1>6, <1>7, RollCases
-----------------------------------------------------------------------------
(* A tier climbs. *)

LEMMA ClimbInit == RollInit => ClimbInv
<1> SUFFICES ASSUME RollInit PROVE ClimbInv
  OBVIOUS
<1>1. Climbs(<<>>) /\ five = <<>> /\ hour = <<>>
  BY DEF Climbs, RollInit
<1>2. \A p \in Procs : proc[p].at = "off" /\ proc[p].loaded = FALSE
  BY OffType DEF RollInit
<1> QED
  BY <1>1, <1>2 DEF ClimbInv, ClimbOf

\* Rows from the watermark on are put behind those below it.
LEMMA ClimbJoined ==
  ASSUME NEW R \in SUBSET Row, NEW s \in Seq(R), NEW u \in Seq(R), NEW m \in Nat, NEW n \in Nat,
         m <= n, Climbs(s), Below(s, m), Climbs(u), Below(u, n),
         \A i \in DOMAIN u : m <= u[i].t
  PROVE  Climbs(s \o u) /\ Below(s \o u, n)
<1> DEFINE v == s \o u
<1>1. /\ DOMAIN v = 1 .. Len(s) + Len(u) /\ DOMAIN s = 1 .. Len(s) /\ DOMAIN u = 1 .. Len(u)
      /\ Len(s) \in Nat /\ Len(u) \in Nat /\ v \in Seq(R)
      /\ \A i \in DOMAIN v : v[i] = IF i <= Len(s) THEN s[i] ELSE u[i - Len(s)]
  <2>1. /\ Len(v) = Len(s) + Len(u) /\ v \in Seq(R)
        /\ \A i \in 1 .. Len(s) + Len(u) : v[i] = IF i <= Len(s) THEN s[i] ELSE u[i - Len(s)]
    BY ConcatProperties
  <2> QED
    BY <2>1, LenProperties
<1>2. (\A i \in DOMAIN s : s[i].t \in Nat) /\ (\A i \in DOMAIN u : u[i].t \in Nat)
  <2>1. \A x \in R : x.t \in Nat
    BY DEF Row
  <2> QED
    BY <2>1
<1> HIDE DEF v
<1>3. \A i \in DOMAIN v : \/ i \in DOMAIN s /\ v[i] = s[i]
                          \/ ~(i <= Len(s)) /\ i - Len(s) \in DOMAIN u /\ v[i] = u[i - Len(s)]
  BY <1>1
<1>4. Below(v, n)
  BY <1>2, <1>3 DEF Below
<1>5. ASSUME NEW i \in DOMAIN v, NEW j \in DOMAIN v, i < j PROVE v[i].t < v[j].t
  <2>1. CASE j \in DOMAIN s /\ v[j] = s[j]
    <3>1. i \in DOMAIN s /\ v[i] = s[i]
      BY <1>1, <1>5, <2>1
    <3> QED
      BY <1>5, <2>1, <3>1 DEF Climbs
  <2>2. CASE ~(j <= Len(s)) /\ j - Len(s) \in DOMAIN u /\ v[j] = u[j - Len(s)]
    <3>1. CASE i \in DOMAIN s /\ v[i] = s[i]
      <4>1. v[i].t \in Nat /\ v[i].t < m /\ m <= v[j].t /\ v[j].t \in Nat
        BY <1>2, <2>2, <3>1 DEF Below
      <4> QED
        BY <4>1
    <3>2. CASE ~(i <= Len(s)) /\ i - Len(s) \in DOMAIN u /\ v[i] = u[i - Len(s)]
      <4>1. i - Len(s) < j - Len(s)
        BY <1>1, <1>5
      <4> QED
        BY <2>2, <3>2, <4>1 DEF Climbs
    <3> QED
      BY <1>3, <3>1, <3>2
  <2> QED
    BY <1>3, <2>1, <2>2
<1>6. Climbs(v)
  BY <1>5 DEF Climbs
<1> QED
  BY <1>4, <1>6 DEF v

LEMMA BelowRows ==
  ASSUME NEW s, NEW u, NEW m, Below(s, m), Rows(u) \subseteq Rows(s) PROVE Below(u, m)
BY DEF Below, Rows

\* A tier that climbs is below what its last row proves.
LEMMA BelowProven ==
  ASSUME NEW win \in Nat \ {0}, NEW s \in Seq(RowOf(win)), Climbs(s)
  PROVE  Below(s, Proven(s, win)) /\ Proven(s, win) \in Nat
<1>1. CASE s = <<>>
  BY <1>1 DEF Below, Proven
<1>2. CASE s # <<>>
  <2>1. Len(s) \in DOMAIN s /\ DOMAIN s = 1 .. Len(s) /\ Len(s) \in Nat
    BY <1>2, LenProperties, EmptySeq
  <2>2. \A i \in DOMAIN s : s[i].t \in Nat
    <3>1. \A x \in RowOf(win) : x.t \in Nat
      BY DEF RowOf, Row
    <3> QED
      BY <3>1
  <2>3. Proven(s, win) = s[Len(s)].t + win
    BY <1>2 DEF Proven
  <2>4. ASSUME NEW i \in DOMAIN s PROVE s[i].t < s[Len(s)].t + win
    <3>1. i = Len(s) \/ i < Len(s)
      BY <2>1
    <3>2. s[i].t <= s[Len(s)].t
      BY <2>1, <2>2, <3>1 DEF Climbs
    <3> QED
      BY <2>1, <2>2, <3>2
  <2> QED
    BY <2>1, <2>2, <2>3, <2>4 DEF Below
<1> QED
  BY <1>1, <1>2

LEMMA BelowMore ==
  ASSUME NEW R \in SUBSET Row, NEW s \in Seq(R), NEW m \in Nat, NEW n \in Nat, m <= n, Below(s, m)
  PROVE  Below(s, n)
<1>1. \A x \in R : x.t \in Nat
  BY DEF Row
<1>2. \A i \in DOMAIN s : s[i].t \in Nat
  BY <1>1
<1> QED
  BY <1>2 DEF Below

\* A process that loads its watermarks finds the tiers below them.
LEMMA BelowMarked ==
  ASSUME RollShapes, ClimbInv, NEW p \in Procs
  PROVE  Below(five, Marked(p).w5) /\ Below(hour, Marked(p).w1h)
<1>1. CASE proc[p].loaded
  BY <1>1 DEF Marked, ClimbInv, ClimbOf
<1>2. CASE ~proc[p].loaded
  <2>1. /\ five \in Seq(RowOf(Win5)) /\ hour \in Seq(RowOf(Win1h)) /\ Climbs(five) /\ Climbs(hour)
        /\ RowOf(Win5) \in SUBSET Row /\ RowOf(Win1h) \in SUBSET Row
    BY DEF RollShapes, ClimbInv, RowOf
  <2>2. /\ Below(five, Proven(five, Win5)) /\ Proven(five, Win5) \in Nat
        /\ Below(hour, Proven(hour, Win1h)) /\ Proven(hour, Win1h) \in Nat
    BY <2>1, BelowProven, Bounds
  <2>3. saved.w5 \in Nat /\ saved.w1h \in Nat
    BY DEF RollShapes, Aligned, Marks
  <2>4. /\ Marked(p).w5 \in Nat /\ Proven(five, Win5) <= Marked(p).w5
        /\ Marked(p).w1h \in Nat /\ Proven(hour, Win1h) <= Marked(p).w1h
    BY <1>2, <2>2, <2>3 DEF Marked, LoadedMarks, Greater
  <2> QED
    BY <2>1, <2>2, <2>4, BelowMore
<1> QED
  BY <1>1, <1>2
\* What a step leaves of the place of the one panel.
LEMMA ClimbQuiet ==
  ASSUME NEW q, Procs = {q}, ClimbInv, UNCHANGED <<five, hour>>,
         proc'[q].loaded => proc[q].loaded /\ proc'[q].w = proc[q].w,
         proc'[q].at \notin {"five", "append"}, proc'[q].at \in {"hour", "save"} => proc'[q].loaded
  PROVE  ClimbInv'
<1>1. \A p \in Procs : p = q
  OBVIOUS
<1>2. ClimbOf(q) /\ Climbs(five) /\ Climbs(hour)
  BY DEF ClimbInv
<1>3. ClimbOf(q)'
  BY <1>2 DEF ClimbOf, Below
<1>4. Climbs(five)' /\ Climbs(hour)'
  BY <1>2 DEF Climbs
<1> QED
  BY <1>1, <1>3, <1>4 DEF ClimbInv

LEMMA ClimbEnter ==
  ASSUME NEW q, Procs = {q}, RollShapes, ClimbInv, EnterFive(q) \/ PassFive(q) PROVE ClimbInv'
<1>0. q \in Procs /\ proc \in [Procs -> Sampler] /\ now \in Nat /\ Aligned(Marked(q))
  <2>1. now \in 0 .. MaxTime /\ q \in Procs
    BY DEF RollShapes
  <2> QED
    BY <2>1, MarkedType DEF RollShapes
<1>1. /\ proc'[q].w = Marked(q) /\ proc'[q].loaded = TRUE /\ UNCHANGED <<five, hour>>
      /\ \/ proc'[q].at = "hour"
         \/ proc'[q].at = "five" /\ proc'[q].now = now /\ Floor(now, Win5) > Marked(q).w5
  <2>1. CASE EnterFive(q)
    BY <1>0, <2>1 DEF EnterFive, Sampler
  <2>2. CASE PassFive(q)
    BY <1>0, <2>2 DEF PassFive, Sampler
  <2> QED
    BY <2>1, <2>2
<1>2. Below(five, Marked(q).w5) /\ Below(hour, Marked(q).w1h)
  BY <1>0, BelowMarked
<1>3. Marked(q).w5 \in Nat /\ Floor(now, Win5) \in Nat
  BY <1>0, FloorOfClock DEF Aligned, Marks
<1>4. ClimbOf(q)'
  <2>1. Below(five, proc[q].w.w5)' /\ Below(hour, proc[q].w.w1h)'
    BY <1>1, <1>2 DEF Below
  <2>2. (proc[q].at = "five" => proc[q].w.w5 <= Floor(proc[q].now, Win5))'
    BY <1>1, <1>3 DEF Floor
  <2> QED
    BY <1>1, <2>1, <2>2 DEF ClimbOf
<1>5. Climbs(five)' /\ Climbs(hour)'
  BY <1>1 DEF ClimbInv, Climbs
<1> QED
  BY <1>4, <1>5 DEF ClimbInv

LEMMA ClimbRead ==
  ASSUME NEW q, Procs = {q}, RollShapes, ClimbInv, ReadFive(q) \/ ReadHour(q) \/ ReadsNothing(q)
  PROVE  ClimbInv'
<1>0. /\ q \in Procs /\ proc \in [Procs -> Sampler]
      /\ proc[q].now \in Nat /\ proc[q].w.w5 \in Nat /\ proc[q].w.w1h \in Nat
      /\ proc[q].w.w5 % Win5 = 0 /\ proc[q].w.w1h % Win1h = 0 /\ SamplerOK(proc[q])
  BY DEF RollShapes, SamplerOK, Sampler, Aligned, Marks
<1>1. /\ HourTarget(q) \in Nat /\ Floor(proc[q].now, Win5) \in Nat /\ ClimbOf(q)
      /\ Win5 \in Nat \ {0} /\ Win1h \in Nat \ {0}
  BY <1>0, HourTargetType, FloorOfClock, Bounds DEF ClimbInv
\* from, low and top are those of the pass.
<1>2. PICK from \in {1, 5}, rows \in Seq(Row) :
        /\ proc'[q].at = "append" /\ proc'[q].from = from /\ proc'[q].rows = rows
        /\ proc'[q].now = proc[q].now /\ proc'[q].w = proc[q].w /\ proc'[q].loaded = proc[q].loaded
        /\ proc[q].loaded
        /\ LET low == IF from = 5 THEN proc[q].w.w5 ELSE proc[q].w.w1h
               top == IF from = 5 THEN Floor(proc[q].now, Win5) ELSE HourTarget(q)
           IN  /\ low <= top /\ Climbs(rows) /\ Below(rows, top)
               /\ \A i \in DOMAIN rows : low <= rows[i].t
  <2>1. CASE ReadFive(q)
    <3>1. PICK rows \in Aggregate(raw, proc[q].w.w5, Floor(proc[q].now, Win5), Win5) :
            proc' = [proc EXCEPT ![q].at = "append", ![q].from = 5, ![q].rows = rows]
      BY <2>1 DEF ReadFive
    <3>2. /\ rows \in Seq(RowOf(Win5)) /\ Climbs(rows) /\ Below(rows, Floor(proc[q].now, Win5))
          /\ \A i \in DOMAIN rows : proc[q].w.w5 <= rows[i].t
      <4>1. raw \in Seq(Row)
        BY DEF RollShapes
      <4> QED
        BY <1>0, <1>1, <3>1, <4>1, Aggregated DEF Below
    <3>3. rows \in Seq(Row)
      <4>1. RowOf(Win5) \subseteq Row
        BY DEF RowOf
      <4> QED
        BY <3>2, <4>1, SeqMonotonic
    <3>4. proc[q].loaded /\ proc[q].w.w5 <= Floor(proc[q].now, Win5)
      BY <1>1, <2>1 DEF ReadFive, ClimbOf
    <3>5. /\ proc'[q].at = "append" /\ proc'[q].from = 5 /\ proc'[q].rows = rows
          /\ proc'[q].now = proc[q].now /\ proc'[q].w = proc[q].w /\ proc'[q].loaded = proc[q].loaded
      BY <1>0, <3>1 DEF Sampler
    <3> QED
      BY <3>2, <3>3, <3>4, <3>5
  <2>2. CASE ReadHour(q)
    <3>1. PICK rows \in Aggregate(five, proc[q].w.w1h, HourTarget(q), Win1h) :
            proc' = [proc EXCEPT ![q].at = "append", ![q].from = 1, ![q].rows = rows]
      BY <2>2 DEF ReadHour
    <3>2. /\ rows \in Seq(RowOf(Win1h)) /\ Climbs(rows) /\ Below(rows, HourTarget(q))
          /\ \A i \in DOMAIN rows : proc[q].w.w1h <= rows[i].t
      <4>1. five \in Seq(Row)
        <5>1. RowOf(Win5) \subseteq Row
          BY DEF RowOf
        <5> QED
          BY <5>1, SeqMonotonic DEF RollShapes
      <4> QED
        BY <1>0, <1>1, <3>1, <4>1, Aggregated DEF Below
    <3>3. rows \in Seq(Row)
      <4>1. RowOf(Win1h) \subseteq Row
        BY DEF RowOf
      <4> QED
        BY <3>2, <4>1, SeqMonotonic
    <3>4. proc[q].loaded /\ proc[q].w.w1h <= HourTarget(q)
      <4>1. proc[q].at = "hour" /\ HourTarget(q) > proc[q].w.w1h
        BY <2>2 DEF ReadHour
      <4>2. proc[q].loaded
        BY <1>1, <4>1 DEF ClimbOf
      <4> QED
        BY <1>0, <1>1, <4>1, <4>2
    <3>5. /\ proc'[q].at = "append" /\ proc'[q].from = 1 /\ proc'[q].rows = rows
          /\ proc'[q].now = proc[q].now /\ proc'[q].w = proc[q].w /\ proc'[q].loaded = proc[q].loaded
      BY <1>0, <3>1 DEF Sampler
    <3> QED
      BY <3>2, <3>3, <3>4, <3>5
  <2>3. CASE ReadsNothing(q)
    <3>1. proc[q].rows = <<>>
      BY <1>0, <2>3 DEF ReadsNothing, SamplerOK
    <3>2. Climbs(<<>>) /\ (\A m : Below(<<>>, m)) /\ <<>> \in Seq(Row) /\ DOMAIN <<>> = {}
      BY DEF Climbs, Below
    <3>3. CASE /\ proc[q].at = "five"
               /\ proc' = [proc EXCEPT ![q].at = "append", ![q].from = 5]
      <4>1. proc[q].loaded /\ proc[q].w.w5 <= Floor(proc[q].now, Win5)
        BY <1>1, <3>3 DEF ClimbOf
      <4>2. /\ proc'[q].at = "append" /\ proc'[q].from = 5 /\ proc'[q].rows = <<>>
            /\ proc'[q].now = proc[q].now /\ proc'[q].w = proc[q].w /\ proc'[q].loaded = proc[q].loaded
        BY <1>0, <3>1, <3>3 DEF Sampler
      <4> DEFINE rows == <<>>
      <4>3. rows \in Seq(Row) /\ Climbs(rows) /\ (\A m : Below(rows, m)) /\ DOMAIN rows = {}
            /\ proc'[q].rows = rows
        BY <3>2, <4>2
      <4> HIDE DEF rows
      <4> QED
        BY <4>1, <4>2, <4>3
    <3>4. CASE /\ proc[q].at = "hour" /\ HourTarget(q) > proc[q].w.w1h
               /\ proc' = [proc EXCEPT ![q].at = "append", ![q].from = 1]
      <4>1. proc[q].loaded /\ proc[q].w.w1h <= HourTarget(q)
        BY <1>0, <1>1, <3>4 DEF ClimbOf
      <4>2. /\ proc'[q].at = "append" /\ proc'[q].from = 1 /\ proc'[q].rows = <<>>
            /\ proc'[q].now = proc[q].now /\ proc'[q].w = proc[q].w /\ proc'[q].loaded = proc[q].loaded
        BY <1>0, <3>1, <3>4 DEF Sampler
      <4> DEFINE rows == <<>>
      <4>3. rows \in Seq(Row) /\ Climbs(rows) /\ (\A m : Below(rows, m)) /\ DOMAIN rows = {}
            /\ proc'[q].rows = rows
        BY <3>2, <4>2
      <4> HIDE DEF rows
      <4>4. 1 \in {1, 5} /\ 1 # 5
        OBVIOUS
      <4> QED
        BY <4>1, <4>2, <4>3, <4>4
    <3> QED
      BY <2>3, <3>3, <3>4 DEF ReadsNothing
  <2> QED
    BY <2>1, <2>2, <2>3
<1>3. UNCHANGED <<five, hour>>
  BY DEF ReadFive, ReadHour, ReadsNothing
<1>4. HourTarget(q)' = HourTarget(q)
  BY <1>2 DEF HourTarget
<1>5. ClimbOf(q)'
  <2>1. Low(q)' = (IF from = 5 THEN proc[q].w.w5 ELSE proc[q].w.w1h)
    BY <1>2 DEF Low
  <2>2. Top(q)' = (IF from = 5 THEN Floor(proc[q].now, Win5) ELSE HourTarget(q))
    BY <1>2, <1>4 DEF Top
  <2>3. Below(five, proc[q].w.w5)' /\ Below(hour, proc[q].w.w1h)'
    BY <1>1, <1>2, <1>3 DEF ClimbOf, Below
  <2> QED
    BY <1>2, <2>1, <2>2, <2>3 DEF ClimbOf, Climbs, Below
<1>6. Climbs(five)' /\ Climbs(hour)'
  BY <1>3 DEF ClimbInv, Climbs
<1> QED
  BY <1>5, <1>6 DEF ClimbInv

LEMMA ClimbAppend ==
  ASSUME NEW q, Procs = {q}, RollShapes, ClimbInv, AppendFive(q) \/ AppendHour(q) PROVE ClimbInv'
<1>0. /\ q \in Procs /\ proc \in [Procs -> Sampler] /\ SamplerOK(proc[q])
      /\ proc[q].now \in Nat /\ proc[q].w \in Marks /\ proc[q].w.w5 \in Nat /\ proc[q].w.w1h \in Nat
  BY DEF RollShapes, SamplerOK, Sampler, Marks
<1>1. /\ HourTarget(q) \in Nat /\ Floor(proc[q].now, Win5) \in Nat /\ ClimbOf(q)
      /\ Climbs(five) /\ Climbs(hour)
  BY <1>0, HourTargetType, FloorOfClock DEF ClimbInv
<1>2. /\ proc[q].loaded /\ Below(five, proc[q].w.w5) /\ Below(hour, proc[q].w.w1h)
      /\ Low(q) <= Top(q) /\ Climbs(proc[q].rows) /\ Below(proc[q].rows, Top(q))
      /\ \A i \in DOMAIN proc[q].rows : Low(q) <= proc[q].rows[i].t
  BY <1>1 DEF AppendFive, AppendHour, ClimbOf
<1>3. RowOf(Win5) \in SUBSET Row /\ RowOf(Win1h) \in SUBSET Row
  BY DEF RowOf
<1>4. CASE AppendFive(q)
  <2>1. Low(q) = proc[q].w.w5 /\ Top(q) = Floor(proc[q].now, Win5)
    BY <1>4 DEF AppendFive, Low, Top
  <2>2. proc[q].rows \in Seq(RowOf(Win5)) /\ five \in Seq(RowOf(Win5))
    BY <1>0, <1>4 DEF AppendFive, SamplerOK, WinOf, RollShapes
  <2>3. Climbs(five \o proc[q].rows) /\ Below(five \o proc[q].rows, Floor(proc[q].now, Win5))
    BY <1>0, <1>1, <1>2, <1>3, <2>1, <2>2, ClimbJoined
  <2>4. five \o proc[q].rows \in Seq(RowOf(Win5))
    BY <2>2, ConcatProperties
  <2>5. Climbs(five') /\ Rows(five') \subseteq Rows(five \o proc[q].rows)
    <3>1. five' \in Aged(five \o proc[q].rows, proc[q].now)
      BY <1>4 DEF AppendFive
    <3>2. /\ Rows(five') \subseteq Rows(five \o proc[q].rows)
          /\ Climbs(five \o proc[q].rows) => Climbs(five')
      BY ONLY <1>0, <1>3, <2>4, <3>1, AgedRows
    <3> QED
      BY <2>3, <3>2
  <2>6. Below(five', Floor(proc[q].now, Win5))
    BY <2>3, <2>5, BelowRows
  <2>7. /\ proc'[q].at = "hour" /\ proc'[q].loaded = proc[q].loaded
        /\ proc'[q].w = [proc[q].w EXCEPT !.w5 = Floor(proc[q].now, Win5)]
    BY <1>0, <1>4 DEF AppendFive, Sampler
  <2>8. proc'[q].w.w5 = Floor(proc[q].now, Win5) /\ proc'[q].w.w1h = proc[q].w.w1h
    BY <1>0, <2>7 DEF Marks
  <2>9. UNCHANGED hour
    BY <1>4 DEF AppendFive
  <2>10. Below(five, proc[q].w.w5)' /\ Below(hour, proc[q].w.w1h)'
    BY <1>2, <2>6, <2>8, <2>9 DEF Below
  <2>11. ClimbOf(q)'
    BY <1>2, <2>7, <2>10 DEF ClimbOf
  <2>12. Climbs(five)' /\ Climbs(hour)'
    BY <1>1, <2>5, <2>9 DEF Climbs
  <2> QED
    BY <2>11, <2>12 DEF ClimbInv
<1>5. CASE AppendHour(q)
  <2>1. Low(q) = proc[q].w.w1h /\ Top(q) = HourTarget(q)
    BY <1>5 DEF AppendHour, Low, Top
  <2>2. proc[q].rows \in Seq(RowOf(Win1h)) /\ hour \in Seq(RowOf(Win1h))
    BY <1>0, <1>5 DEF AppendHour, SamplerOK, WinOf, RollShapes
  <2>3. Climbs(hour') /\ Below(hour', HourTarget(q))
    BY <1>0, <1>1, <1>2, <1>3, <1>5, <2>1, <2>2, ClimbJoined DEF AppendHour
  <2>4. /\ proc'[q].at = "save" /\ proc'[q].loaded = proc[q].loaded
        /\ proc'[q].w = [proc[q].w EXCEPT !.w1h = HourTarget(q)]
    BY <1>0, <1>5 DEF AppendHour, Sampler
  <2>5. proc'[q].w.w1h = HourTarget(q) /\ proc'[q].w.w5 = proc[q].w.w5
    BY <1>0, <2>4 DEF Marks
  <2>6. UNCHANGED five
    BY <1>5 DEF AppendHour
  <2>7. Below(five, proc[q].w.w5)' /\ Below(hour, proc[q].w.w1h)'
    BY <1>2, <2>3, <2>5, <2>6 DEF Below
  <2>8. ClimbOf(q)'
    BY <1>2, <2>4, <2>7 DEF ClimbOf
  <2>9. Climbs(five)' /\ Climbs(hour)'
    BY <1>1, <2>3, <2>6 DEF Climbs
  <2> QED
    BY <2>8, <2>9 DEF ClimbInv
<1> QED
  BY <1>4, <1>5

LEMMA ClimbStep ==
  ASSUME NEW q, Procs = {q}, RollShapes, ClimbInv, [RollNext]_rollVars PROVE ClimbInv'
<1>0. q \in Procs /\ proc \in [Procs -> Sampler] /\ ClimbOf(q) /\ \A p \in Procs : p = q
  BY DEF RollShapes, ClimbInv
<1>1. CASE UNCHANGED rollVars
  <2>1. ClimbOf(q)'
    BY <1>0, <1>1 DEF rollVars, ClimbOf, Below, Low, Top, HourTarget, Climbs
  <2> QED
    BY <1>0, <1>1, <2>1 DEF rollVars, ClimbInv, Climbs
<1>2. CASE Tick \/ LongSleep \/ ClockBack
  <2>1. PICK t : Passes(t)
    BY <1>2 DEF Tick, LongSleep, ClockBack
  <2>2. /\ proc'[q].loaded = proc[q].loaded /\ proc'[q].w = proc[q].w
        /\ proc'[q].at \in {"off", "sample", "roll"}
    <3>1. PICK at \in {"off", "sample", "roll"} : proc'[q] = [proc[q] EXCEPT !.at = at]
      BY <1>0, <2>1, Woken
    <3> QED
      BY <1>0, <3>1 DEF Sampler
  <2> QED
    BY <2>1, <2>2, ClimbQuiet DEF Passes
<1>3. CASE Sample(q)
  <2>1. PICK left :
          proc' = [proc EXCEPT ![q].at = "roll", ![q].n = proc[q].n + 1, ![q].buf = left]
    BY <1>3 DEF Sample
  <2>2. proc'[q].loaded = proc[q].loaded /\ proc'[q].w = proc[q].w /\ proc'[q].at = "roll"
    BY <1>0, <2>1 DEF Sampler
  <2> QED
    BY <1>3, <2>2, ClimbQuiet DEF Sample
<1>4. CASE PassHour(q)
  <2>1. proc'[q].loaded = proc[q].loaded /\ proc'[q].w = proc[q].w /\ proc'[q].at = "save"
        /\ proc[q].loaded
    BY <1>0, <1>4 DEF PassHour, Sampler, ClimbOf
  <2> QED
    BY <1>4, <2>1, ClimbQuiet DEF PassHour
<1>5. CASE AppendFails(q)
  <2>1. proc'[q].loaded = proc[q].loaded /\ proc'[q].w = proc[q].w /\ proc'[q].at \in {"hour", "save"}
        /\ proc[q].loaded
    BY <1>0, <1>5 DEF AppendFails, LeftAlone, Sampler, ClimbOf
  <2> QED
    BY <1>5, <2>1, ClimbQuiet DEF AppendFails
<1>6. CASE Save(q)
  <2>1. proc'[q].loaded = proc[q].loaded /\ proc'[q].w = proc[q].w /\ proc'[q].at = "rest"
    BY <1>0, <1>6 DEF Save, Sampler
  <2> QED
    BY <1>6, <2>1, ClimbQuiet DEF Save
<1>7. CASE Boot(q)
  <2>1. proc'[q].loaded = FALSE /\ proc'[q].at = "sample"
    BY <1>0, <1>7, OffType DEF Boot, Sampler
  <2> QED
    BY <1>7, <2>1, ClimbQuiet DEF Boot
<1>8. CASE Stop(q)
  <2>1. proc'[q].loaded = FALSE /\ proc'[q].at = "stopped"
    BY <1>0, <1>8, OffType DEF Stop, Sampler
  <2> QED
    BY <1>8, <2>1, ClimbQuiet DEF Stop
<1>9. CASE Crash(q)
  <2>1. proc'[q].loaded = FALSE /\ proc'[q].at = "off"
    BY <1>0, <1>9, OffType DEF Crash, Sampler
  <2> QED
    BY <1>9, <2>1, ClimbQuiet DEF Crash
<1> QED
  BY <1>0, <1>1, <1>2, <1>3, <1>4, <1>5, <1>6, <1>7, <1>8, <1>9, RollCases,
     ClimbEnter, ClimbRead, ClimbAppend

LEMMA TierSingle ==
  ASSUME RollShapes, StampInv, NEW win \in Nat \ {0}, NEW s \in Seq(RowOf(win)),
         TrueOf(s, win), Climbs(s)
  PROVE  Single(s)
<1>1. \A i \in DOMAIN s : s[i].t \in Nat /\ i \in Nat
  <2>1. \A x \in RowOf(win) : x.t \in Nat
    BY DEF RowOf, Row
  <2> QED
    BY <2>1
<1>2. ASSUME NEW i \in DOMAIN s, NEW j \in DOMAIN s, i # j PROVE s[i].t # s[j].t
  <2>1. i < j \/ j < i
    BY <1>1, <1>2
  <2> QED
    BY <1>1, <2>1 DEF Climbs
<1>3. ASSUME NEW i \in DOMAIN s, NEW j \in DOMAIN s, i # j PROVE s[i].ids \cap s[j].ids = {}
  <2>1. SUFFICES ASSUME NEW d \in s[i].ids, d \in s[j].ids PROVE FALSE
    OBVIOUS
  <2>2. PICK r \in journal : d \in r.ids /\ Floor(r.t, win) = s[i].t
    BY <2>1 DEF TrueOf
  <2>3. PICK u \in journal : d \in u.ids /\ Floor(u.t, win) = s[j].t
    BY <2>1 DEF TrueOf
  <2>4. r.t = u.t
    BY <2>2, <2>3 DEF StampInv, AllRows
  <2> QED
    BY <1>2, <1>3, <2>2, <2>3, <2>4
<1> QED
  BY <1>2, <1>3 DEF Single

\* With one panel no sample is counted twice in a tier and no window has two rows, whatever
\* was not saved, whenever it died and wherever the clock went (maybe_rollup,
\* _load_state_locked).
THEOREM NoDoubleCountEver ==
  ASSUME NEW q, Procs = {q}
  PROVE  RollSpec => []NoDoubleCount
<1> DEFINE RollInv == RollShapes /\ StampInv /\ OriginInv /\ ClimbInv
<1>1. RollInit => RollInv
  BY RollTypeInit, StampInit, OriginInit, ClimbInit
<1>2. RollInv /\ [RollNext]_rollVars => RollInv'
  BY RollTypeStep, StampStep, OriginStep, ClimbStep
<1>3. RollInv => NoDoubleCount
  <2>1. SUFFICES ASSUME RollInv PROVE Single(five) /\ Single(hour)
    BY DEF NoDoubleCount
  <2>2. five \in Seq(RowOf(Win5)) /\ hour \in Seq(RowOf(Win1h))
    BY <2>1 DEF RollShapes
  <2> QED
    BY <2>1, <2>2, TierSingle, Bounds DEF OriginInv, ClimbInv
<1> QED
  BY <1>1, <1>2, <1>3, PTL DEF RollSpec
-----------------------------------------------------------------------------
(* Nothing is skipped.  Below each watermark that is held, saved or proven *)
(* by a last row, a tier has what the raw journal took (MarkInv); what it  *)
(* has not is still in the tier beneath (StoreInv), where a pass that      *)
(* starts at the watermark finds it (PassInv).                             *)

\* The samples that the properties except.
Unread == late \cup given.five
Slept  == Unread \cup given.hour

Buffered == UNION {Rows(proc[p].buf) : p \in Procs}

FiveMarks == {saved.w5, Proven(five, Win5)} \cup {proc[p].w.w5 : p \in {x \in Procs : proc[x].loaded}}
HourMarks == {saved.w1h, Proven(hour, Win1h)} \cup {proc[p].w.w1h : p \in {x \in Procs : proc[x].loaded}}

\* What is yet to be flushed is above the watermark.
BufferAbove(m) == \A b \in Buffered : b.ids \cap late = {} => m <= b.t

FiveHas(m) == \A r \in journal : r.t < m /\ r.ids \cap Unread = {} => r.ids \subseteq Samples(folded)
HourHas(m) == \A r \in journal : r.t < m /\ r.ids \cap Slept = {} => r.ids \subseteq Samples(Rows(hour))

FiveMark(m) == m <= high /\ FiveHas(m) /\ BufferAbove(m)
HourMark(m) == m <= high /\ HourHas(m) /\ BufferAbove(m)

MarkInv == (\A m \in FiveMarks : FiveMark(m)) /\ (\A m \in HourMarks : HourMark(m))

\* Every row is of one sample, and behind the clock.
OneSample(r) == \E d \in r.ids : r.ids = {d}

BehindInv ==
  /\ \A r \in AllRows : r.t <= high /\ OneSample(r)
  /\ \A p \in Procs : proc[p].now <= high

\* What is sampled comes later than what was, but for a clock set back.
Rises(s, but) == \A i, j \in DOMAIN s : i < j /\ s[j].ids \cap but = {} => s[i].t <= s[j].t

RiseInv == \A p \in Procs : Rises(raw \o proc[p].buf, late)

\* What the five-minute tier is to have is in the raw journal until it has it, and what
\* the hours are to have is in the five-minute journal.
StoreInv ==
  /\ \A r \in journal : r.ids \cap Unread = {} => r \in Rows(raw) \/ r.ids \subseteq Samples(folded)
  /\ \A f \in folded : \A d \in f.ids : d \notin Slept => d \in Samples(Rows(five)) \cup Samples(Rows(hour))

\* The rows folded are of their windows' samples, and each has one.
FoldInv ==
  \A f \in folded : f.ids # {} /\ \A d \in f.ids : \E r \in journal : d \in r.ids /\ Floor(r.t, Win5) = f.t

\* A pass has read what its watermark will say the tier has.
PassOf(p) ==
  /\ proc[p].at = "five" \/ (proc[p].at = "append" /\ proc[p].from = 5) => proc[p].buf = <<>>
  /\ proc[p].at = "append" /\ proc[p].from = 5 =>
       /\ \A i \in DOMAIN proc[p].rows : proc[p].rows[i].ids # {}
       /\ \A r \in journal : r.t < Floor(proc[p].now, Win5) /\ r.ids \cap Unread = {} =>
            r.ids \subseteq Samples(folded) \cup Samples(Rows(proc[p].rows))
  /\ proc[p].at = "append" /\ proc[p].from # 5 =>
       \A r \in journal : r.t < HourTarget(p) /\ r.ids \cap Slept = {} =>
         r.ids \subseteq Samples(Rows(hour)) \cup Samples(Rows(proc[p].rows))

PassInv == \A p \in Procs : PassOf(p)

WholeInv == MarkInv /\ BehindInv /\ RiseInv /\ StoreInv /\ FoldInv /\ PassInv
LEMMA RowsJoined ==
  ASSUME NEW R, NEW s \in Seq(R), NEW u \in Seq(R)
  PROVE  s \o u \in Seq(R) /\ Rows(s \o u) = Rows(s) \cup Rows(u)
<1> DEFINE v == s \o u
<1>1. /\ DOMAIN v = 1 .. Len(s) + Len(u) /\ DOMAIN s = 1 .. Len(s) /\ DOMAIN u = 1 .. Len(u)
      /\ Len(s) \in Nat /\ Len(u) \in Nat /\ v \in Seq(R)
      /\ \A i \in DOMAIN v : v[i] = IF i <= Len(s) THEN s[i] ELSE u[i - Len(s)]
  <2>1. /\ Len(v) = Len(s) + Len(u) /\ v \in Seq(R)
        /\ \A i \in 1 .. Len(s) + Len(u) : v[i] = IF i <= Len(s) THEN s[i] ELSE u[i - Len(s)]
    BY ConcatProperties
  <2> QED
    BY <2>1, LenProperties
<1> HIDE DEF v
<1>2. \A i \in DOMAIN v : \/ i \in DOMAIN s /\ v[i] = s[i]
                          \/ i - Len(s) \in DOMAIN u /\ v[i] = u[i - Len(s)]
  BY <1>1
<1>3. \A i \in DOMAIN s : i \in DOMAIN v /\ v[i] = s[i]
  BY <1>1
<1>4. \A i \in DOMAIN u : i + Len(s) \in DOMAIN v /\ v[i + Len(s)] = u[i]
  <2>1. ASSUME NEW i \in DOMAIN u
        PROVE  i + Len(s) \in DOMAIN v /\ ~(i + Len(s) <= Len(s)) /\ i + Len(s) - Len(s) = i
    BY <1>1, <2>1
  <2> QED
    BY <1>1, <2>1
<1>5. Rows(v) = Rows(s) \cup Rows(u)
  BY <1>2, <1>3, <1>4 DEF Rows
<1> QED
  BY <1>1, <1>5 DEF v
\* A row that was not there before the step: of this tick, by whichever clock.
Fresh(r) == r.t <= high' /\ OneSample(r) /\ (high <= r.t \/ r.ids \cap late' # {})

\* What every step keeps.
Grows ==
  /\ high <= high' /\ late \subseteq late' /\ folded \subseteq folded'
  /\ given.five \subseteq given'.five /\ given.hour \subseteq given'.hour
  /\ Rows(hour) \subseteq Rows(hour') /\ journal \subseteq journal'
  /\ \A r \in journal' : r \in journal \/ r \in Buffered \/ Fresh(r)
  /\ \A r \in Buffered' : r \in Buffered \/ Fresh(r)

LEMMA RowsAre ==
  ASSUME RollShapes
  PROVE  /\ journal \subseteq Row /\ Buffered \subseteq Row /\ AllRows = journal \cup Buffered
         /\ \A r \in journal \cup Buffered : r.t \in Nat
         /\ high \in Nat /\ now \in Nat /\ now <= high
         /\ proc \in [Procs -> Sampler]
         /\ \A p \in Procs : proc[p].buf \in Seq(Row) /\ Rows(proc[p].buf) \subseteq Buffered
<1>1. \A p \in Procs : proc[p].buf \in Seq(Row) /\ Rows(proc[p].buf) \subseteq Row
  BY RowsOf DEF RollShapes, Sampler
<1>2. journal \subseteq Row /\ Buffered \subseteq Row
  BY <1>1 DEF Buffered, RollShapes
<1>3. now \in 0 .. MaxTime /\ high \in now .. MaxTime
  BY DEF RollShapes
<1>4. high \in Nat /\ now \in Nat /\ now <= high
  BY <1>3, Bounds
<1>5. \A r \in Row : r.t \in Nat
  BY DEF Row
<1> QED
  BY <1>1, <1>2, <1>4, <1>5 DEF Buffered, AllRows, RollShapes

LEMMA MarksAre ==
  ASSUME RollShapes
  PROVE  /\ FiveMarks \subseteq Nat /\ HourMarks \subseteq Nat
         /\ \A p \in Procs : /\ proc[p].now \in Nat
                             /\ proc[p].w.w5 \in Nat /\ proc[p].w.w1h \in Nat
                             /\ proc[p].w.w5 % Win5 = 0 /\ proc[p].w.w1h % Win1h = 0
                             /\ Marked(p).w5 \in FiveMarks /\ Marked(p).w1h \in HourMarks
<1>1. \A p \in Procs : /\ proc[p].now \in Nat
                       /\ proc[p].w.w5 \in Nat /\ proc[p].w.w1h \in Nat
                       /\ proc[p].w.w5 % Win5 = 0 /\ proc[p].w.w1h % Win1h = 0
  BY DEF RollShapes, SamplerOK, Sampler, Aligned, Marks
<1>2. saved.w5 \in Nat /\ saved.w1h \in Nat
  BY DEF RollShapes, Aligned, Marks
<1>3. Proven(five, Win5) \in Nat /\ Proven(hour, Win1h) \in Nat
  <2>1. ASSUME NEW win \in Nat \ {0}, NEW s \in Seq(RowOf(win)) PROVE Proven(s, win) \in Nat
    <3>1. CASE s = <<>>
      BY <3>1 DEF Proven
    <3>2. CASE s # <<>>
      <4>1. s[Len(s)] \in RowOf(win)
        BY <3>2, LenProperties, EmptySeq
      <4> QED
        BY <3>2, <4>1 DEF Proven, RowOf, Row
    <3> QED
      BY <3>1, <3>2
  <2> QED
    BY <2>1, Bounds DEF RollShapes
<1>4. \A p \in Procs : Marked(p).w5 \in FiveMarks /\ Marked(p).w1h \in HourMarks
  <2>1. /\ LoadedMarks.w5 \in {saved.w5, Proven(five, Win5)}
        /\ LoadedMarks.w1h \in {saved.w1h, Proven(hour, Win1h)}
    BY DEF LoadedMarks, Greater
  <2> QED
    BY <2>1 DEF Marked, FiveMarks, HourMarks
<1> QED
  BY <1>1, <1>2, <1>3, <1>4 DEF FiveMarks, HourMarks

\* The same of the next state.
RowBooks == high \in Nat /\ \A r \in journal \cup Buffered : r.t \in Nat

MarkBooks ==
  /\ FiveMarks \subseteq Nat /\ HourMarks \subseteq Nat
  /\ \A p \in Procs : /\ proc[p].w.w5 \in Nat /\ proc[p].w.w1h \in Nat
                      /\ proc[p].w.w5 % Win5 = 0 /\ proc[p].w.w1h % Win1h = 0

LEMMA RowsNext == RollShapes' => RowBooks'
<1>1. RollShapes => RowBooks
  BY RowsAre DEF RowBooks
<1> QED
  BY <1>1, PTL

LEMMA MarksNext == RollShapes' => MarkBooks'
<1>1. RollShapes => MarkBooks
  BY MarksAre DEF MarkBooks
<1> QED
  BY <1>1, PTL

\* What a step other than a sample takes from the buffer.
LEMMA BufferStays ==
  ASSUME RowsStay
  PROVE  /\ Buffered' \subseteq Buffered
         /\ \A r \in journal' : r \in journal \/ r \in Buffered
<1>1. Rows(<<>>) = {}
  BY DEF Rows
<1>2. \A p \in Procs : Rows(proc'[p].buf) \subseteq Rows(proc[p].buf)
  BY <1>1 DEF RowsStay
<1> QED
  BY <1>2 DEF RowsStay, Buffered, AllRows

LEMMA GrowSample ==
  ASSUME RollShapes, StampInv, NEW p \in Procs, Sample(p) PROVE Grows
<1> DEFINE row == [t |-> now, ids |-> {<<p, proc[p].n>>}]
           buf == Append(proc[p].buf, row)
<1>0. /\ proc \in [Procs -> Sampler] /\ proc[p].n \in Nat /\ proc[p].buf \in Seq(Row)
      /\ now \in Nat /\ high \in Nat /\ now <= high
  BY RowsAre DEF Sampler
<1>1. row \in Row /\ row.ids = {<<p, proc[p].n>>} /\ row.t = now
  BY <1>0 DEF Row, Ids
<1>2. /\ late' = IF now < high THEN late \cup row.ids ELSE late
      /\ UNCHANGED <<now, five, hour, saved, high, folded, given>>
      /\ Flushed(buf) \/ UNCHANGED <<raw, journal>>
  BY DEF Sample
<1>3. PICK left \in {buf, <<>>} :
        proc' = [proc EXCEPT ![p].at = "roll", ![p].n = proc[p].n + 1, ![p].buf = left]
  BY DEF Sample
<1> HIDE DEF row
<1>4. Fresh(row)
  <2>1. OneSample(row)
    BY <1>1 DEF OneSample
  <2>2. now < high => row.ids \cap late' # {}
    BY <1>1, <1>2
  <2>3. row.t <= high' /\ (high <= row.t \/ now < high)
    BY <1>0, <1>1, <1>2
  <2> QED
    BY <2>1, <2>2, <2>3 DEF Fresh
<1>5. buf \in Seq(Row) /\ Rows(buf) \subseteq Rows(proc[p].buf) \cup {row}
  <2>1. /\ buf \in Seq(Row) /\ Len(buf) = Len(proc[p].buf) + 1
        /\ \A i \in 1 .. Len(proc[p].buf) : buf[i] = proc[p].buf[i]
        /\ buf[Len(proc[p].buf) + 1] = row
    BY <1>0, <1>1, AppendProperties
  <2>2. DOMAIN buf = 1 .. Len(proc[p].buf) + 1 /\ DOMAIN proc[p].buf = 1 .. Len(proc[p].buf)
        /\ Len(proc[p].buf) \in Nat
    BY <1>0, <2>1, LenProperties
  <2>3. \A i \in DOMAIN buf : i \in DOMAIN proc[p].buf \/ i = Len(proc[p].buf) + 1
    BY <2>2
  <2> HIDE DEF buf
  <2> QED
    BY <2>1, <2>2, <2>3 DEF Rows
<1>6. journal \subseteq journal' /\ journal' \subseteq journal \cup Rows(buf)
  BY <1>2, <1>5, FlushType
<1> HIDE DEF buf
<1>7. /\ proc'[p].buf \in {buf, <<>>} /\ \A q \in Procs \ {p} : proc'[q] = proc[q]
  BY <1>0, <1>3 DEF Sampler
<1>8. \A r \in Buffered' : r \in Buffered \/ Fresh(r)
  <2>1. Rows(<<>>) = {}
    BY DEF Rows
  <2>2. \A q \in Procs : Rows(proc'[q].buf) \subseteq Rows(proc[q].buf) \cup {row}
    BY <1>5, <1>7, <2>1
  <2> QED
    BY <1>4, <2>2 DEF Buffered
<1>9. \A r \in journal' : r \in journal \/ r \in Buffered \/ Fresh(r)
  BY <1>4, <1>5, <1>6 DEF Buffered
<1>10. high <= high' /\ late \subseteq late'
  BY <1>0, <1>2
<1> QED
  BY <1>2, <1>6, <1>8, <1>9, <1>10 DEF Grows

LEMMA HourJoined ==
  ASSUME RollShapes, NEW p \in Procs, AppendHour(p)
  PROVE  Rows(hour') = Rows(hour) \cup Rows(proc[p].rows)
<1>1. proc[p].rows \in Seq(Row) /\ hour \in Seq(Row) /\ hour' = hour \o proc[p].rows
  <2>1. RowOf(Win1h) \subseteq Row
    BY DEF RowOf
  <2> QED
    BY <2>1, SeqMonotonic DEF RollShapes, Sampler, AppendHour
<1> QED
  BY <1>1, RowsJoined

LEMMA GrowStep ==
  ASSUME RollShapes, StampInv, [RollNext]_rollVars PROVE Grows
<1>0. high \in Nat /\ now \in Nat /\ proc \in [Procs -> Sampler]
  BY RowsAre
<1>1. CASE UNCHANGED rollVars
  <2>1. Buffered' = Buffered
    BY <1>1 DEF rollVars, Buffered
  <2> QED
    BY <1>0, <1>1, <2>1 DEF rollVars, Grows
<1>2. ASSUME RowsStay, high <= high', UNCHANGED late, folded \subseteq folded',
             given.five \subseteq given'.five, given.hour \subseteq given'.hour,
             Rows(hour) \subseteq Rows(hour')
      PROVE  Grows
  BY <1>2, BufferStays DEF Grows, RowsStay
<1>3. CASE Tick \/ LongSleep \/ ClockBack
  <2>1. RowsStay
    BY <1>3, Stays DEF StampInv
  <2>2. PICK t \in Nat : Passes(t)
    <3>1. now + 1 \in Nat /\ now + Jump \in Nat /\ (now >= Jump => now - Jump \in Nat)
      BY <1>0, Bounds
    <3> QED
      BY <1>3, <3>1 DEF Tick, LongSleep, ClockBack
  <2>3. high <= high' /\ UNCHANGED <<hour, folded, late>>
    BY <1>0, <2>2 DEF Passes, Greater
  <2>4. given.five \subseteq given'.five /\ given.hour \subseteq given'.hour
    <3>1. given \in [five : SUBSET Ids, hour : SUBSET Ids]
      BY DEF RollShapes
    <3> QED
      BY <1>3, <3>1 DEF Tick, LongSleep, ClockBack
  <2> QED
    BY <1>2, <2>1, <2>3, <2>4
<1>4. ASSUME NEW p \in Procs,
             \/ EnterFive(p) \/ PassFive(p) \/ ReadFive(p) \/ ReadHour(p) \/ PassHour(p)
             \/ AppendFails(p) \/ Save(p) \/ Boot(p) \/ Stop(p) \/ Crash(p)
      PROVE  Grows
  <2>1. RowsStay
    BY <1>4, Stays DEF StampInv
  <2>2. UNCHANGED <<hour, folded, late, given, high>>
    BY <1>4 DEF EnterFive, PassFive, ReadFive, ReadHour, PassHour, AppendFails, Save, Boot, Stop, Crash
  <2> QED
    BY <1>0, <1>2, <2>1, <2>2
<1>5. ASSUME NEW p \in Procs, ReadsNothing(p) PROVE Grows
  <2>1. RowsStay
    BY <1>5, Stays DEF StampInv
  <2>2. UNCHANGED <<hour, folded, late, high>>
    BY <1>5 DEF ReadsNothing
  <2>3. given.five \subseteq given'.five /\ given.hour \subseteq given'.hour
    <3>1. given \in [five : SUBSET Ids, hour : SUBSET Ids]
      BY DEF RollShapes
    <3> QED
      BY <1>5, <3>1 DEF ReadsNothing
  <2> QED
    BY <1>0, <1>2, <2>1, <2>2, <2>3
<1>6. ASSUME NEW p \in Procs, AppendFive(p) PROVE Grows
  <2>1. RowsStay
    BY <1>6, Stays DEF StampInv
  <2> QED
    BY <1>0, <1>2, <1>6, <2>1 DEF AppendFive
<1>7. ASSUME NEW p \in Procs, AppendHour(p) PROVE Grows
  <2>1. RowsStay
    BY <1>7, Stays DEF StampInv
  <2>2. Rows(hour) \subseteq Rows(hour')
    BY <1>7, HourJoined
  <2> QED
    BY <1>0, <1>2, <1>7, <2>1, <2>2 DEF AppendHour
<1> QED
  BY <1>1, <1>3, <1>4, <1>5, <1>6, <1>7, RollCases, GrowSample
-----------------------------------------------------------------------------
(* The watermarks. *)

\* A watermark stays good: what is new is above it.
LEMMA MarkStays ==
  ASSUME RollShapes, RollShapes', Grows, NEW m \in Nat
  PROVE  (FiveMark(m) => FiveMark(m)') /\ (HourMark(m) => HourMark(m)')
<1>1. high \in Nat /\ high' \in Nat /\ high <= high'
  BY RowsAre, RowsNext DEF Grows, RowBooks
<1>2. \A r \in journal' \cup Buffered' : r.t \in Nat
  BY RowsNext DEF RowBooks
<1>3. late \subseteq late' /\ Unread \subseteq Unread' /\ Slept \subseteq Slept' /\ late' \subseteq Unread'
      /\ Unread' \subseteq Slept'
  BY DEF Grows, Unread, Slept
<1>4. Samples(folded) \subseteq Samples(folded') /\ Samples(Rows(hour)) \subseteq Samples(Rows(hour'))
  BY DEF Grows, Samples
<1>5. ASSUME BufferAbove(m), m <= high
      PROVE  /\ BufferAbove(m)'
             /\ \A r \in journal' : r \in journal \/ m <= r.t \/ r.ids \cap late' # {}
  <2>1. \A r \in journal' \cup Buffered' : Fresh(r) => m <= r.t \/ r.ids \cap late' # {}
    BY <1>1, <1>2, <1>5 DEF Fresh
  <2>2. \A r \in Buffered : m <= r.t \/ r.ids \cap late' # {}
    BY <1>3, <1>5 DEF BufferAbove
  <2>3. BufferAbove(m)'
    BY <2>1, <2>2 DEF BufferAbove, Grows
  <2> QED
    BY <2>1, <2>2, <2>3 DEF Grows
<1>6. ASSUME FiveMark(m) PROVE FiveMark(m)'
  <2>1. m <= high /\ FiveHas(m) /\ BufferAbove(m)
    BY <1>6 DEF FiveMark
  <2>2. ASSUME NEW r \in journal', r.t < m, r.ids \cap Unread' = {} PROVE r.ids \subseteq Samples(folded')
    <3>1. r \in journal
      BY <1>2, <1>3, <1>5, <2>1, <2>2
    <3>2. r.ids \subseteq Samples(folded)
      BY <1>3, <2>1, <2>2, <3>1 DEF FiveHas
    <3> QED
      BY <1>4, <3>2
  <2>3. FiveHas(m)'
    BY <2>2 DEF FiveHas
  <2> QED
    BY <1>1, <1>5, <2>1, <2>3 DEF FiveMark
<1>7. ASSUME HourMark(m) PROVE HourMark(m)'
  <2>1. m <= high /\ HourHas(m) /\ BufferAbove(m)
    BY <1>7 DEF HourMark
  <2>2. ASSUME NEW r \in journal', r.t < m, r.ids \cap Slept' = {} PROVE r.ids \subseteq Samples(Rows(hour'))
    <3>1. r \in journal
      BY <1>2, <1>3, <1>5, <2>1, <2>2
    <3>2. r.ids \subseteq Samples(Rows(hour))
      BY <1>3, <2>1, <2>2, <3>1 DEF HourHas
    <3> QED
      BY <1>4, <3>2
  <2>3. HourHas(m)'
    BY <2>2 DEF HourHas
  <2> QED
    BY <1>1, <1>5, <2>1, <2>3 DEF HourMark
<1> QED
  BY <1>6, <1>7

\* So does any below it.
LEMMA MarkBelow ==
  ASSUME RollShapes, NEW m \in Nat, NEW k \in Nat, k <= m
  PROVE  (FiveMark(m) => FiveMark(k)) /\ (HourMark(m) => HourMark(k))
<1>1. high \in Nat /\ \A r \in journal \cup Buffered : r.t \in Nat
  BY RowsAre
<1> QED
  BY <1>1 DEF FiveMark, HourMark, FiveHas, HourHas, BufferAbove

\* What a tier's last row proves is no later than the watermark it lies below.
LEMMA ProvenBelow ==
  ASSUME NEW win \in Nat \ {0}, NEW s \in Seq(RowOf(win)), NEW m \in Nat, m % win = 0, Below(s, m)
  PROVE  Proven(s, win) <= m
<1>1. CASE s = <<>>
  BY <1>1 DEF Proven
<1>2. CASE s # <<>>
  <2>1. Len(s) \in DOMAIN s
    BY <1>2, LenProperties, EmptySeq
  <2>2. s[Len(s)].t \in Nat /\ s[Len(s)].t % win = 0 /\ s[Len(s)].t < m
    BY <2>1 DEF RowOf, Row, Below
  <2> DEFINE t == s[Len(s)].t
  <2>3. (t + win) \in Nat /\ (t + win) % win = 0
    BY <2>2, MultipleAfter
  <2>4. t + win < m + win
    BY <2>2
  <2>5. t + win <= m
    BY <2>3, <2>4, NextMultiple
  <2> QED
    BY <1>2, <2>5 DEF Proven
<1> QED
  BY <1>1, <1>2

\* How the watermarks of a step are those before it, or the one a pass has come to.
LEMMA MarksMove ==
  ASSUME NEW q, Procs = {q}, RollShapes, RollShapes', ClimbInv, ClimbInv', [RollNext]_rollVars
  PROVE  /\ \A m \in FiveMarks' : \/ \E k \in FiveMarks : m <= k
                                  \/ AppendFive(q) /\ m <= Floor(proc[q].now, Win5)
         /\ \A m \in HourMarks' : \/ \E k \in HourMarks : m <= k
                                  \/ AppendHour(q) /\ m <= HourTarget(q)
<1>0. q \in Procs /\ proc \in [Procs -> Sampler] /\ proc[q].w \in Marks
  BY DEF RollShapes, SamplerOK, Sampler
<1>1. FiveMarks \subseteq Nat /\ HourMarks \subseteq Nat /\ FiveMarks' \subseteq Nat /\ HourMarks' \subseteq Nat
  BY MarksAre, MarksNext DEF MarkBooks
<1>2. /\ Marked(q).w5 \in FiveMarks /\ Marked(q).w1h \in HourMarks
      /\ proc[q].loaded => proc[q].w.w5 \in FiveMarks /\ proc[q].w.w1h \in HourMarks
      /\ {saved.w5, Proven(five, Win5)} \subseteq FiveMarks
      /\ {saved.w1h, Proven(hour, Win1h)} \subseteq HourMarks
  BY <1>0, MarksAre DEF FiveMarks, HourMarks
<1>3. ASSUME UNCHANGED <<five, hour>>,
             UNCHANGED saved \/ (proc[q].loaded /\ saved' = proc[q].w),
             \/ proc'[q].loaded = FALSE
             \/ proc'[q].w = Marked(q)
             \/ proc[q].loaded /\ proc'[q].w = proc[q].w
      PROVE  FiveMarks' \subseteq FiveMarks /\ HourMarks' \subseteq HourMarks
  <2>1. saved'.w5 \in FiveMarks /\ saved'.w1h \in HourMarks
    BY <1>2, <1>3
  <2>2. proc'[q].loaded => proc'[q].w.w5 \in FiveMarks /\ proc'[q].w.w1h \in HourMarks
    BY <1>2, <1>3
  <2>3. Proven(five, Win5)' \in FiveMarks /\ Proven(hour, Win1h)' \in HourMarks
    BY <1>2, <1>3 DEF Proven
  <2> QED
    BY <2>1, <2>2, <2>3 DEF FiveMarks, HourMarks
<1>4. ASSUME FiveMarks' \subseteq FiveMarks /\ HourMarks' \subseteq HourMarks
      PROVE  /\ \A m \in FiveMarks' : \E k \in FiveMarks : m <= k
             /\ \A m \in HourMarks' : \E k \in HourMarks : m <= k
  BY <1>1, <1>4
<1>5. \A p \in Procs : p = q
  OBVIOUS
<1>6. CASE UNCHANGED rollVars
  <2>1. proc[q].loaded \in BOOLEAN
    BY <1>0 DEF Sampler
  <2> QED
    BY <1>3, <1>4, <1>6, <2>1 DEF rollVars
<1>7. CASE Tick \/ LongSleep \/ ClockBack
  <2>1. PICK t : Passes(t)
    BY <1>7 DEF Tick, LongSleep, ClockBack
  <2>2. proc'[q].loaded = proc[q].loaded /\ proc'[q].w = proc[q].w
    <3>1. PICK at \in {"off", "sample", "roll"} : proc'[q] = [proc[q] EXCEPT !.at = at]
      BY <1>0, <2>1, Woken
    <3> QED
      BY <1>0, <3>1 DEF Sampler
  <2>3. proc[q].loaded \in BOOLEAN
    BY <1>0 DEF Sampler
  <2>4. UNCHANGED <<five, hour, saved>>
    BY <2>1 DEF Passes
  <2> QED
    BY <1>3, <1>4, <2>2, <2>3, <2>4
<1>8. CASE Sample(q)
  <2>1. PICK left :
          proc' = [proc EXCEPT ![q].at = "roll", ![q].n = proc[q].n + 1, ![q].buf = left]
    BY <1>8 DEF Sample
  <2>2. proc'[q].loaded = proc[q].loaded /\ proc'[q].w = proc[q].w /\ proc[q].loaded \in BOOLEAN
    BY <1>0, <2>1 DEF Sampler
  <2>3. UNCHANGED <<five, hour, saved>>
    BY <1>8 DEF Sample
  <2> QED
    BY <1>3, <1>4, <2>2, <2>3
<1>9. CASE EnterFive(q) \/ PassFive(q)
  <2>1. proc'[q].w = Marked(q)
    <3>1. CASE EnterFive(q)
      BY <1>0, <3>1 DEF EnterFive, Sampler
    <3>2. CASE PassFive(q)
      BY <1>0, <3>2 DEF PassFive, Sampler
    <3> QED
      BY <1>9, <3>1, <3>2
  <2>2. UNCHANGED <<five, hour, saved>>
    BY <1>9 DEF EnterFive, PassFive
  <2> QED
    BY <1>3, <1>4, <2>1, <2>2
<1>10. CASE ReadFive(q) \/ ReadHour(q) \/ PassHour(q) \/ ReadsNothing(q) \/ AppendFails(q)
  <2>1. proc'[q].loaded = proc[q].loaded /\ proc'[q].w = proc[q].w /\ proc[q].loaded \in BOOLEAN
    <3>1. CASE ReadFive(q)
      BY <1>0, <3>1 DEF ReadFive, Sampler
    <3>2. CASE ReadHour(q)
      BY <1>0, <3>2 DEF ReadHour, Sampler
    <3>3. CASE PassHour(q)
      BY <1>0, <3>3 DEF PassHour, Sampler
    <3>4. CASE ReadsNothing(q)
      BY <1>0, <3>4 DEF ReadsNothing, Sampler
    <3>5. CASE AppendFails(q)
      BY <1>0, <3>5 DEF AppendFails, LeftAlone, Sampler
    <3> QED
      BY <1>10, <3>1, <3>2, <3>3, <3>4, <3>5
  <2>2. UNCHANGED <<five, hour, saved>>
    BY <1>10 DEF ReadFive, ReadHour, PassHour, ReadsNothing, AppendFails
  <2> QED
    BY <1>3, <1>4, <2>1, <2>2
<1>11. CASE Save(q)
  <2>1. proc[q].loaded /\ proc'[q].loaded = proc[q].loaded /\ proc'[q].w = proc[q].w
    BY <1>0, <1>11 DEF Save, Sampler, ClimbInv, ClimbOf
  <2>2. UNCHANGED <<five, hour>> /\ (UNCHANGED saved \/ saved' = proc[q].w)
    BY <1>11 DEF Save
  <2> QED
    BY <1>3, <1>4, <2>1, <2>2
<1>12. CASE Boot(q) \/ Stop(q) \/ Crash(q)
  <2>1. proc'[q].loaded = FALSE
    <3>1. CASE Boot(q)
      BY <1>0, <3>1, OffType DEF Boot, Sampler
    <3>2. CASE Stop(q)
      BY <1>0, <3>2, OffType DEF Stop, Sampler
    <3>3. CASE Crash(q)
      BY <1>0, <3>3, OffType DEF Crash, Sampler
    <3> QED
      BY <1>12, <3>1, <3>2, <3>3
  <2>2. UNCHANGED <<five, hour, saved>>
    BY <1>12 DEF Boot, Stop, Crash
  <2> QED
    BY <1>3, <1>4, <2>1, <2>2
<1>13. CASE AppendFive(q)
  <2>1. /\ proc'[q].loaded = proc[q].loaded /\ proc[q].loaded
        /\ proc'[q].w = [proc[q].w EXCEPT !.w5 = Floor(proc[q].now, Win5)]
        /\ UNCHANGED <<hour, saved>>
    BY <1>0, <1>13 DEF AppendFive, Sampler, ClimbInv, ClimbOf
  <2>2. proc'[q].w.w5 = Floor(proc[q].now, Win5) /\ proc'[q].w.w1h = proc[q].w.w1h
    BY <1>0, <2>1 DEF Marks
  <2>3. Proven(five', Win5) <= Floor(proc[q].now, Win5)
    <3>1. Below(five', proc'[q].w.w5)
      BY <2>1 DEF ClimbInv, ClimbOf, Below
    <3>2. five' \in Seq(RowOf(Win5))
      BY DEF RollShapes
    <3>3. proc'[q].w.w5 \in Nat /\ proc'[q].w.w5 % Win5 = 0
      BY <1>0, MarksNext DEF MarkBooks
    <3> QED
      BY <2>2, <3>1, <3>2, <3>3, ProvenBelow, Bounds
  <2>4. Floor(proc[q].now, Win5) \in Nat
    BY <1>0, MarksAre, FloorOfClock
  <2>5. \A m \in FiveMarks' : m \in FiveMarks \/ m <= Floor(proc[q].now, Win5)
    <3>1. \A m \in FiveMarks' : m = saved.w5 \/ m = Proven(five', Win5) \/ m = proc'[q].w.w5
      BY <1>5, <2>1 DEF FiveMarks, Proven
    <3> QED
      BY <1>2, <2>2, <2>3, <2>4, <3>1
  <2>6. HourMarks' \subseteq HourMarks
    <3>1. \A m \in HourMarks' : m = saved.w1h \/ m = Proven(hour, Win1h) \/ m = proc'[q].w.w1h
      BY <1>5, <2>1 DEF HourMarks, Proven
    <3> QED
      BY <1>2, <2>1, <2>2, <3>1
  <2> QED
    BY <1>1, <1>13, <2>5, <2>6
<1>14. CASE AppendHour(q)
  <2>1. /\ proc'[q].loaded = proc[q].loaded /\ proc[q].loaded
        /\ proc'[q].w = [proc[q].w EXCEPT !.w1h = HourTarget(q)]
        /\ UNCHANGED <<five, saved>>
    BY <1>0, <1>14 DEF AppendHour, Sampler, ClimbInv, ClimbOf
  <2>2. proc'[q].w.w1h = HourTarget(q) /\ proc'[q].w.w5 = proc[q].w.w5
    BY <1>0, <2>1 DEF Marks
  <2>3. Proven(hour', Win1h) <= HourTarget(q)
    <3>1. Below(hour', proc'[q].w.w1h)
      BY <2>1 DEF ClimbInv, ClimbOf, Below
    <3>2. hour' \in Seq(RowOf(Win1h))
      BY DEF RollShapes
    <3>3. proc'[q].w.w1h \in Nat /\ proc'[q].w.w1h % Win1h = 0
      BY <1>0, MarksNext DEF MarkBooks
    <3> QED
      BY <2>2, <3>1, <3>2, <3>3, ProvenBelow, Bounds
  <2>4. HourTarget(q) \in Nat
    BY <1>0, HourTargetType
  <2>5. \A m \in HourMarks' : m \in HourMarks \/ m <= HourTarget(q)
    <3>1. \A m \in HourMarks' : m = saved.w1h \/ m = Proven(hour', Win1h) \/ m = proc'[q].w.w1h
      BY <1>5, <2>1 DEF HourMarks, Proven
    <3> QED
      BY <1>2, <2>2, <2>3, <2>4, <3>1
  <2>6. FiveMarks' \subseteq FiveMarks
    <3>1. \A m \in FiveMarks' : m = saved.w5 \/ m = Proven(five, Win5) \/ m = proc'[q].w.w5
      BY <1>5, <2>1 DEF FiveMarks, Proven
    <3> QED
      BY <1>2, <2>1, <2>2, <3>1
  <2> QED
    BY <1>1, <1>14, <2>5, <2>6
<1> QED
  BY <1>4, <1>5, <1>6, <1>7, <1>8, <1>9, <1>10, <1>11, <1>12, <1>13, <1>14, RollCases
-----------------------------------------------------------------------------
(* Rows and the clock. *)

LEMMA BehindStep ==
  ASSUME NEW q, Procs = {q}, RollShapes, RollShapes', Grows, BehindInv, [RollNext]_rollVars
  PROVE  BehindInv'
<1>0. /\ q \in Procs /\ proc \in [Procs -> Sampler] /\ now \in Nat /\ high \in Nat /\ now <= high
      /\ high' \in Nat /\ high <= high' /\ proc[q].now \in Nat
      /\ (\A r \in journal \cup Buffered : r.t \in Nat)
      /\ AllRows = journal \cup Buffered
  BY RowsAre, RowsNext, MarksAre DEF RowBooks, Grows
<1>1. ASSUME NEW r \in AllRows' PROVE r.t <= high' /\ OneSample(r)
  <2>1. AllRows' = journal' \cup Buffered'
    BY DEF AllRows, Buffered
  <2>2. r \in AllRows \/ Fresh(r)
    BY <1>0, <1>1, <2>1 DEF Grows
  <2>3. CASE r \in AllRows
    <3>1. r.t \in Nat /\ r.t <= high /\ OneSample(r)
      BY <1>0, <2>3 DEF BehindInv
    <3> QED
      BY <1>0, <3>1
  <2>4. CASE Fresh(r)
    BY <2>4 DEF Fresh
  <2> QED
    BY <2>2, <2>3, <2>4
<1>2. proc'[q].now \in {proc[q].now, now, 0}
  <2>1. CASE UNCHANGED rollVars
    BY <2>1 DEF rollVars
  <2>2. CASE Tick \/ LongSleep \/ ClockBack
    <3>1. PICK t : Passes(t)
      BY <2>2 DEF Tick, LongSleep, ClockBack
    <3>2. PICK at \in {"off", "sample", "roll"} : proc'[q] = [proc[q] EXCEPT !.at = at]
      BY <1>0, <3>1, Woken
    <3> QED
      BY <1>0, <3>2 DEF Sampler
  <2>3. CASE EnterFive(q)
    BY <1>0, <2>3 DEF EnterFive, Sampler
  <2>4. CASE PassFive(q)
    BY <1>0, <2>4 DEF PassFive, Sampler
  <2>5. CASE Sample(q)
    <3>1. PICK left :
            proc' = [proc EXCEPT ![q].at = "roll", ![q].n = proc[q].n + 1, ![q].buf = left]
      BY <2>5 DEF Sample
    <3> QED
      BY <1>0, <3>1 DEF Sampler
  <2>6. CASE ReadFive(q)
    BY <1>0, <2>6 DEF ReadFive, Sampler
  <2>7. CASE ReadHour(q)
    BY <1>0, <2>7 DEF ReadHour, Sampler
  <2>8. CASE PassHour(q) \/ Save(q)
    BY <1>0, <2>8 DEF PassHour, Save, Sampler
  <2>9. CASE ReadsNothing(q)
    BY <1>0, <2>9 DEF ReadsNothing, Sampler
  <2>10. CASE AppendFails(q)
    BY <1>0, <2>10 DEF AppendFails, Sampler
  <2>11. CASE AppendFive(q)
    BY <1>0, <2>11 DEF AppendFive, Sampler
  <2>12. CASE AppendHour(q)
    BY <1>0, <2>12 DEF AppendHour, Sampler
  <2>13. CASE Boot(q) \/ Stop(q) \/ Crash(q)
    <3>1. Off.now = 0
      BY DEF Off
    <3>2. PICK at : proc'[q] = [Off EXCEPT !.at = at, !.n = proc[q].n] \/ proc'[q] = [Off EXCEPT !.n = proc[q].n]
      BY <1>0, <2>13 DEF Boot, Stop, Crash
    <3> QED
      BY <3>1, <3>2, OffType DEF Sampler
  <2> QED
    BY <2>1, <2>2, <2>3, <2>4, <2>5, <2>6, <2>7, <2>8, <2>9, <2>10, <2>11, <2>12, <2>13, RollCases
<1>3. proc'[q].now <= high'
  <2>1. proc[q].now <= high
    BY <1>0 DEF BehindInv
  <2> QED
    BY <1>0, <1>2, <2>1
<1> QED
  BY <1>1, <1>3 DEF BehindInv

\* A part of what rises rises, and so does what is put behind it in time.
LEMMA RisesPart ==
  ASSUME NEW s \in Seq(Row), NEW u \in Seq(Row), NEW k \in Nat, NEW B, NEW C, B \subseteq C,
         Rises(s, B), \A i \in DOMAIN u : i + k \in DOMAIN s /\ u[i] = s[i + k]
  PROVE  Rises(u, C)
<1>1. SUFFICES ASSUME NEW i \in DOMAIN u, NEW j \in DOMAIN u, i < j, u[j].ids \cap C = {}
               PROVE  u[i].t <= u[j].t
  BY DEF Rises
<1>2. i + k \in DOMAIN s /\ j + k \in DOMAIN s /\ u[i] = s[i + k] /\ u[j] = s[j + k]
  OBVIOUS
<1>3. i + k < j + k
  <2>1. DOMAIN u = 1 .. Len(u) /\ Len(u) \in Nat
    BY LenProperties
  <2> QED
    BY <1>1, <2>1
<1> QED
  BY <1>1, <1>2, <1>3 DEF Rises

LEMMA RisesOn ==
  ASSUME NEW s \in Seq(Row), NEW row \in Row, NEW B, NEW C, B \subseteq C, Rises(s, B),
         row.ids \cap C = {} => \A i \in DOMAIN s : s[i].t <= row.t
  PROVE  Rises(Append(s, row), C)
<1> DEFINE u == Append(s, row)
<1>1. /\ u \in Seq(Row) /\ DOMAIN u = 1 .. Len(s) + 1 /\ DOMAIN s = 1 .. Len(s) /\ Len(s) \in Nat
      /\ \A i \in 1 .. Len(s) : u[i] = s[i]
      /\ u[Len(s) + 1] = row
  BY AppendProperties, LenProperties
<1> HIDE DEF u
<1>2. SUFFICES ASSUME NEW i \in DOMAIN u, NEW j \in DOMAIN u, i < j, u[j].ids \cap C = {}
               PROVE  u[i].t <= u[j].t
  BY DEF Rises, u
<1>3. i \in DOMAIN s /\ u[i] = s[i]
  BY <1>1, <1>2
<1>4. CASE j \in DOMAIN s
  BY <1>1, <1>2, <1>3, <1>4 DEF Rises
<1>5. CASE j = Len(s) + 1
  BY <1>1, <1>2, <1>3, <1>5
<1> QED
  BY <1>1, <1>4, <1>5

\* A flush and its trim leave the last of the rows there were.
LEMMA FlushShift ==
  ASSUME RollShapes, NEW buf \in Seq(Row), Flushed(buf)
  PROVE  \E k \in Nat : \A i \in DOMAIN raw' :
           i + k \in DOMAIN (raw \o buf) /\ raw'[i] = (raw \o buf)[i + k]
<1>0. raw \in Seq(Row)
  BY DEF RollShapes
<1>1. PICK s \in Seq(Row) : s = raw \o buf
  BY <1>0, ConcatProperties
<1>2. /\ Len(s) \in Nat /\ DOMAIN s = 1 .. Len(s) /\ Len(s) = Len(raw) + Len(buf)
      /\ DOMAIN raw = 1 .. Len(raw) /\ Len(raw) \in Nat /\ Len(buf) \in Nat
      /\ \A i \in DOMAIN raw : i \in DOMAIN s /\ s[i] = raw[i]
  <2>1. /\ Len(s) = Len(raw) + Len(buf)
        /\ \A i \in 1 .. Len(raw) + Len(buf) : s[i] = IF i <= Len(raw) THEN raw[i] ELSE buf[i - Len(raw)]
    BY <1>0, <1>1, ConcatProperties
  <2>2. /\ Len(s) \in Nat /\ DOMAIN s = 1 .. Len(s)
        /\ DOMAIN raw = 1 .. Len(raw) /\ Len(raw) \in Nat /\ Len(buf) \in Nat
    BY <1>0, LenProperties
  <2>3. \A i \in 1 .. Len(raw) : i \in 1 .. Len(raw) + Len(buf) /\ i <= Len(raw)
    BY <2>2
  <2> QED
    BY <2>1, <2>2, <2>3
<1>3. ASSUME raw' = s PROVE \A i \in DOMAIN raw' : i + 0 \in DOMAIN s /\ raw'[i] = s[i + 0]
  BY <1>2, <1>3
<1>4. ASSUME raw' = raw PROVE \A i \in DOMAIN raw' : i + 0 \in DOMAIN s /\ raw'[i] = s[i + 0]
  BY <1>2, <1>4
<1>5. ASSUME raw' = Trimmed(s), Len(s) > MaxRaw + Slack
      PROVE  \E k \in Nat : \A i \in DOMAIN raw' : i + k \in DOMAIN s /\ raw'[i] = s[i + k]
  <2>1. PICK k \in Nat : k = Len(s) - MaxRaw /\ k <= Len(s)
    <3>1. MaxRaw \in Nat /\ Slack \in Nat
      BY Bounds
    <3>2. Len(s) - MaxRaw \in Nat /\ Len(s) - MaxRaw <= Len(s)
      BY <1>2, <1>5, <3>1
    <3> QED
      BY <3>2
  <2>2. Trimmed(s) = SubSeq(s, k + 1, Len(s))
    BY <2>1 DEF Trimmed
  <2>3. (k + 1) \in Int /\ Len(s) \in Int /\ \A i \in (k + 1) .. Len(s) : s[i] \in Row
    <3>1. \A i \in (k + 1) .. Len(s) : i \in DOMAIN s
      BY <1>2, <2>1
    <3> QED
      BY <1>2, <2>1, <3>1
  <2>4. /\ Len(SubSeq(s, k + 1, Len(s))) = IF k + 1 <= Len(s) THEN Len(s) - (k + 1) + 1 ELSE 0
        /\ \A i \in 1 .. Len(s) - (k + 1) + 1 : SubSeq(s, k + 1, Len(s))[i] = s[k + 1 + i - 1]
        /\ SubSeq(s, k + 1, Len(s)) \in Seq(Row)
    BY ONLY <2>3, SubSeqProperties
  <2>5. DOMAIN raw' = 1 .. Len(s) - k
    <3>1. Len(raw') = Len(s) - k
      BY <1>2, <1>5, <2>1, <2>2, <2>4
    <3> QED
      BY <1>5, <2>2, <2>4, <3>1
  <2>6. ASSUME NEW i \in 1 .. Len(s) - k
        PROVE  i + k \in 1 .. Len(s) /\ i \in 1 .. Len(s) - (k + 1) + 1 /\ k + 1 + i - 1 = i + k
    BY <1>2, <2>1, <2>6
  <2>7. ASSUME NEW i \in DOMAIN raw' PROVE i + k \in DOMAIN s /\ raw'[i] = s[i + k]
    <3>1. i \in 1 .. Len(s) - (k + 1) + 1 /\ i + k \in DOMAIN s /\ k + 1 + i - 1 = i + k
      BY <1>2, <2>5, <2>6
    <3>2. raw'[i] = s[k + 1 + i - 1]
      BY <1>5, <2>2, <2>4, <3>1
    <3> QED
      BY <3>1, <3>2
  <2> QED
    BY <2>7
<1>6. 0 \in Nat
  OBVIOUS
<1>7. raw' = s \/ raw' = raw \/ (raw' = Trimmed(s) /\ Len(s) > MaxRaw + Slack)
  BY <1>1 DEF Flushed
<1> QED
  BY <1>1, <1>3, <1>4, <1>5, <1>6, <1>7

LEMMA AppendLast ==
  ASSUME NEW s \in Seq(Row), NEW u \in Seq(Row), NEW x \in Row
  PROVE  s \o Append(u, x) = Append(s \o u, x)
<1> DEFINE last == <<x>>
<1>1. last \in Seq(Row) /\ Append(u, x) = u \o last
  BY AppendIsConcat
<1>2. s \o u \in Seq(Row)
  BY ConcatProperties
<1>3. Append(s \o u, x) = (s \o u) \o last
  BY <1>2, AppendIsConcat
<1> HIDE DEF last
<1>4. (s \o u) \o last = s \o (u \o last)
  BY <1>1, ConcatAssociative
<1> QED
  BY <1>1, <1>3, <1>4

LEMMA RiseSample ==
  ASSUME NEW q, Procs = {q}, RollShapes, RollShapes', StampInv, BehindInv, RiseInv, Sample(q)
  PROVE  RiseInv'
<1> DEFINE row == [t |-> now, ids |-> {<<q, proc[q].n>>}]
           buf == Append(proc[q].buf, row)
<1>0. /\ q \in Procs /\ proc \in [Procs -> Sampler] /\ proc[q].n \in Nat /\ proc[q].buf \in Seq(Row)
      /\ now \in Nat /\ high \in Nat /\ now <= high /\ raw \in Seq(Row)
  BY RowsAre DEF RollShapes, Sampler
<1>1. row \in Row /\ row.ids = {<<q, proc[q].n>>} /\ row.t = now
  BY <1>0 DEF Row, Ids
<1>2. late' = IF now < high THEN late \cup row.ids ELSE late
  BY DEF Sample
<1>3. PICK left \in {buf, <<>>} :
        /\ proc' = [proc EXCEPT ![q].at = "roll", ![q].n = proc[q].n + 1, ![q].buf = left]
        /\ (left = buf /\ UNCHANGED raw) \/ (left = <<>> /\ Flushed(buf))
  BY DEF Sample
<1> HIDE DEF row
<1>4. raw \o proc[q].buf \in Seq(Row) /\ Rows(raw \o proc[q].buf) = Rows(raw) \cup Rows(proc[q].buf)
  BY <1>0, RowsJoined
<1>5. row.ids \cap late' = {} => \A i \in DOMAIN (raw \o proc[q].buf) : (raw \o proc[q].buf)[i].t <= row.t
  <2>0. now < high => row.ids \cap late' # {}
    BY <1>1, <1>2
  <2>1. row.ids \cap late' = {} => row.t = high
    BY <1>0, <1>1, <2>0
  <2>2. Rows(raw \o proc[q].buf) \subseteq AllRows
    BY <1>0, <1>4 DEF StampInv, AllRows
  <2>3. \A r \in Rows(raw \o proc[q].buf) : r.t <= high
    BY <2>2 DEF BehindInv
  <2> QED
    BY <2>1, <2>3 DEF Rows
<1>6. raw \o buf = Append(raw \o proc[q].buf, row)
  BY <1>0, <1>1, AppendLast
<1>7. buf \in Seq(Row)
  BY <1>0, <1>1, AppendProperties
<1> HIDE DEF buf
<1>8. raw \o buf \in Seq(Row) /\ Rises(raw \o buf, late')
  <2>1. late \subseteq late' /\ Rises(raw \o proc[q].buf, late)
    BY <1>0, <1>2 DEF RiseInv
  <2>2. raw \o buf \in Seq(Row)
    BY <1>0, <1>7, ConcatProperties
  <2> QED
    <3>1. PICK s \in Seq(Row) : s = raw \o proc[q].buf
      BY <1>4
    <3>2. row.ids \cap late' = {} => \A i \in DOMAIN s : s[i].t <= row.t
      BY <1>5, <3>1
    <3>3. Rises(s, late)
      BY <2>1, <3>1
    <3>4. Rises(Append(s, row), late')
      BY ONLY <1>1, <2>1, <3>1, <3>2, <3>3, RisesOn
    <3> QED
      BY <1>6, <2>2, <3>1, <3>4
<1>9. proc'[q].buf = left
  BY <1>0, <1>3 DEF Sampler
<1>10. Rises(raw' \o proc'[q].buf, late')
  <2>1. CASE left = buf /\ UNCHANGED raw
    BY <1>8, <1>9, <2>1
  <2>2. CASE left = <<>> /\ Flushed(buf)
    <3>1. raw' \in Seq(Row) /\ raw' \o <<>> = raw'
      BY ConcatEmptySeq DEF RollShapes
    <3>2. PICK k \in Nat : \A i \in DOMAIN raw' :
            i + k \in DOMAIN (raw \o buf) /\ raw'[i] = (raw \o buf)[i + k]
      BY <1>7, <2>2, FlushShift
    <3>3. Rises(raw', late')
      BY <1>8, <3>1, <3>2, RisesPart
    <3> QED
      BY <1>9, <2>2, <3>1, <3>3
  <2> QED
    BY <1>3, <2>1, <2>2
<1> QED
  BY <1>10 DEF RiseInv

LEMMA RiseStep ==
  ASSUME NEW q, Procs = {q}, RollShapes, RollShapes', StampInv, BehindInv, RiseInv, [RollNext]_rollVars
  PROVE  RiseInv'
<1>0. /\ q \in Procs /\ proc \in [Procs -> Sampler]
      /\ proc[q].buf \in Seq(Row) /\ raw \in Seq(Row) /\ raw' \in Seq(Row)
  BY RowsAre DEF RollShapes
<1>1. ASSUME UNCHANGED late, \/ UNCHANGED raw /\ proc'[q].buf \in {proc[q].buf, <<>>}
                             \/ Flushed(proc[q].buf) /\ proc'[q].buf = <<>>
      PROVE  RiseInv'
  <2>1. raw \o proc[q].buf \in Seq(Row) /\ Rises(raw \o proc[q].buf, late)
    BY <1>0, ConcatProperties DEF RiseInv
  <2>2. raw' \o <<>> = raw' /\ raw \o <<>> = raw
    BY <1>0, ConcatEmptySeq
  <2>3. CASE UNCHANGED raw /\ proc'[q].buf = proc[q].buf
    BY <1>1, <2>1, <2>3 DEF RiseInv
  <2>4. CASE UNCHANGED raw /\ proc'[q].buf = <<>>
    <3>1. \A i \in DOMAIN raw : i + 0 \in DOMAIN (raw \o proc[q].buf) /\ raw[i] = (raw \o proc[q].buf)[i + 0]
      <4>1. /\ Len(raw \o proc[q].buf) = Len(raw) + Len(proc[q].buf)
            /\ \A i \in 1 .. Len(raw) + Len(proc[q].buf) :
                 (raw \o proc[q].buf)[i] = IF i <= Len(raw) THEN raw[i] ELSE proc[q].buf[i - Len(raw)]
        BY <1>0, ConcatProperties
      <4>2. /\ DOMAIN raw = 1 .. Len(raw) /\ Len(raw) \in Nat /\ Len(proc[q].buf) \in Nat
            /\ DOMAIN (raw \o proc[q].buf) = 1 .. Len(raw) + Len(proc[q].buf)
        BY <1>0, <2>1, <4>1, LenProperties
      <4>3. \A i \in 1 .. Len(raw) : i \in 1 .. Len(raw) + Len(proc[q].buf) /\ i <= Len(raw) /\ i + 0 = i
        BY <4>2
      <4> QED
        BY <4>1, <4>2, <4>3
    <3>2. Rises(raw, late)
      BY <1>0, <2>1, <3>1, RisesPart
    <3> QED
      BY <1>1, <2>2, <2>4, <3>2 DEF RiseInv
  <2>5. CASE Flushed(proc[q].buf) /\ proc'[q].buf = <<>>
    <3>1. PICK k \in Nat : \A i \in DOMAIN raw' :
            i + k \in DOMAIN (raw \o proc[q].buf) /\ raw'[i] = (raw \o proc[q].buf)[i + k]
      BY <1>0, <2>5, FlushShift
    <3>2. Rises(raw', late)
      BY <1>0, <2>1, <3>1, RisesPart
    <3> QED
      BY <1>1, <2>2, <2>5, <3>2 DEF RiseInv
  <2> QED
    BY <1>1, <2>3, <2>4, <2>5
<1>2. CASE UNCHANGED rollVars
  BY <1>1, <1>2 DEF rollVars
<1>3. CASE Tick \/ LongSleep \/ ClockBack
  <2>1. PICK t : Passes(t)
    BY <1>3 DEF Tick, LongSleep, ClockBack
  <2>2. RowsStay
    BY <1>3, Stays DEF StampInv
  <2> QED
    BY <1>0, <1>1, <2>1, <2>2 DEF Passes, RowsStay
<1>4. CASE EnterFive(q)
  <2>1. Flushed(proc[q].buf) /\ proc'[q].buf = <<>>
    BY <1>0, <1>4 DEF EnterFive, FlushPending, Sampler
  <2> QED
    BY <1>1, <1>4, <2>1 DEF EnterFive
<1>5. CASE Stop(q)
  <2>1. Flushed(proc[q].buf) /\ proc'[q].buf = <<>>
    BY <1>0, <1>5, OffType DEF Stop, Sampler
  <2> QED
    BY <1>1, <1>5, <2>1 DEF Stop
<1>6. CASE \/ PassFive(q) \/ ReadFive(q) \/ ReadHour(q) \/ PassHour(q) \/ ReadsNothing(q)
           \/ AppendFive(q) \/ AppendHour(q) \/ AppendFails(q) \/ Save(q) \/ Boot(q) \/ Crash(q)
  <2>1. RowsStay
    BY <1>0, <1>6, Stays DEF StampInv
  <2>2. UNCHANGED <<raw, late>>
    BY <1>6 DEF PassFive, ReadFive, ReadHour, PassHour, ReadsNothing, AppendFive, AppendHour,
                AppendFails, Save, Boot, Crash
  <2> QED
    BY <1>0, <1>1, <2>1, <2>2 DEF RowsStay
<1> QED
  BY <1>0, <1>2, <1>3, <1>4, <1>5, <1>6, RollCases, RiseSample
-----------------------------------------------------------------------------
(* The tiers have what is below their watermarks. *)

LEMMA HourTargetBelow ==
  ASSUME RollShapes, NEW p \in Procs
  PROVE  HourTarget(p) <= proc[p].w.w5 /\ HourTarget(p) <= proc[p].now /\ HourTarget(p) \in Nat
<1>1. proc[p].now \in Nat /\ proc[p].w.w5 \in Nat
  BY MarksAre
<1> DEFINE clock == Floor(proc[p].now, Win1h) reached == Floor(proc[p].w.w5, Win1h)
<1>2. /\ clock \in Nat /\ clock <= proc[p].now
      /\ reached \in Nat /\ reached <= proc[p].w.w5
  BY <1>1, FloorHolds, Bounds
<1>3. HourTarget(p) = IF clock < reached THEN clock ELSE reached
  BY DEF HourTarget
<1> HIDE DEF clock, reached
<1> QED
  BY <1>1, <1>2, <1>3

LEMMA MarkStep ==
  ASSUME NEW q, Procs = {q}, RollShapes, RollShapes', Grows, ClimbInv, ClimbInv',
         MarkInv, BehindInv, PassInv, [RollNext]_rollVars
  PROVE  MarkInv'
<1>0. /\ q \in Procs /\ proc \in [Procs -> Sampler] /\ high \in Nat /\ high' \in Nat /\ high <= high'
      /\ proc[q].now \in Nat /\ proc[q].now <= high /\ proc[q].w.w5 \in Nat
  BY RowsAre, RowsNext, MarksAre DEF RowBooks, Grows, BehindInv
<1>1. FiveMarks \subseteq Nat /\ HourMarks \subseteq Nat /\ FiveMarks' \subseteq Nat /\ HourMarks' \subseteq Nat
  BY MarksAre, MarksNext DEF MarkBooks
<1>2. (\A m \in FiveMarks : FiveMark(m)') /\ (\A m \in HourMarks : HourMark(m)')
  BY <1>1, MarkStays DEF MarkInv
<1>3. ASSUME NEW m \in Nat, NEW k \in Nat, k <= m
      PROVE  (FiveMark(m)' => FiveMark(k)') /\ (HourMark(m)' => HourMark(k)')
  <2>1. high' \in Nat /\ \A r \in journal' \cup Buffered' : r.t \in Nat
    BY RowsNext DEF RowBooks
  <2> QED
    BY <1>3, <2>1 DEF FiveMark, HourMark, FiveHas, HourHas, BufferAbove
<1>4. \A R, S : Samples(R \cup S) = Samples(R) \cup Samples(S)
  BY DEF Samples
<1>5. ASSUME AppendFive(q), NEW m \in Nat, m = Floor(proc[q].now, Win5) PROVE FiveMark(m)'
  <2>1. /\ proc[q].at = "append" /\ proc[q].from = 5 /\ UNCHANGED <<journal, late, given>>
        /\ folded' = folded \cup Rows(proc[q].rows)
        /\ proc'[q].buf = proc[q].buf
    BY <1>0, <1>5 DEF AppendFive, Sampler
  <2>2. PassOf(q)
    BY <1>0 DEF PassInv
  <2>3. FiveHas(m)'
    <3>1. Samples(folded') = Samples(folded) \cup Samples(Rows(proc[q].rows))
      BY <1>4, <2>1
    <3> QED
      BY <1>5, <2>1, <2>2, <3>1 DEF FiveHas, PassOf, Unread
  <2>4. BufferAbove(m)'
    <3>1. proc'[q].buf = <<>> /\ Rows(<<>>) = {}
      BY <2>1, <2>2 DEF PassOf, Rows
    <3>2. Buffered' = {}
      BY <3>1 DEF Buffered
    <3> QED
      BY <3>2 DEF BufferAbove
  <2>5. m <= high'
    <3>1. m <= proc[q].now
      BY <1>0, <1>5, FloorHolds, Bounds
    <3> QED
      BY <1>0, <3>1
  <2> QED
    BY <2>3, <2>4, <2>5 DEF FiveMark
<1>6. ASSUME AppendHour(q), NEW m \in Nat, m = HourTarget(q) PROVE HourMark(m)'
  <2>1. /\ proc[q].at = "append" /\ proc[q].from = 1 /\ UNCHANGED <<journal, late, given>>
        /\ proc'[q].buf = proc[q].buf
    BY <1>0, <1>6 DEF AppendHour, Sampler
  <2>2. PassOf(q)
    BY <1>0 DEF PassInv
  <2>3. HourHas(m)'
    <3>1. Samples(Rows(hour')) = Samples(Rows(hour)) \cup Samples(Rows(proc[q].rows))
      BY <1>0, <1>4, <1>6, HourJoined
    <3> QED
      BY <1>6, <2>1, <2>2, <3>1 DEF HourHas, PassOf, Unread, Slept
  <2>4. BufferAbove(m)'
    <3>1. BufferAbove(proc[q].w.w5)
      <4>1. proc[q].loaded
        BY <1>0, <2>1 DEF ClimbInv, ClimbOf
      <4> QED
        BY <1>0, <4>1 DEF MarkInv, FiveMarks, FiveMark
    <3>2. Buffered' = Buffered
      BY <2>1 DEF Buffered
    <3>3. m <= proc[q].w.w5
      BY <1>0, <1>6, HourTargetBelow
    <3>4. \A b \in Buffered : b.t \in Nat
      BY RowsAre
    <3>5. ASSUME NEW b \in Buffered, b.ids \cap late = {} PROVE m <= b.t
      <4>1. proc[q].w.w5 <= b.t /\ b.t \in Nat
        BY <3>1, <3>4, <3>5 DEF BufferAbove
      <4> QED
        BY <1>0, <3>3, <4>1
    <3> QED
      BY <2>1, <3>2, <3>5 DEF BufferAbove
  <2>5. m <= high'
    <3>1. m <= proc[q].now
      BY <1>0, <1>6, HourTargetBelow
    <3> QED
      BY <1>0, <3>1
  <2> QED
    BY <2>3, <2>4, <2>5 DEF HourMark
<1>7. ASSUME NEW m \in FiveMarks' PROVE FiveMark(m)'
  <2>1. CASE \E k \in FiveMarks : m <= k
    BY <1>1, <1>2, <1>3, <2>1
  <2>2. CASE AppendFive(q) /\ m <= Floor(proc[q].now, Win5)
    <3>1. PICK k \in Nat : k = Floor(proc[q].now, Win5)
      BY <1>0, FloorOfClock
    <3> QED
      BY <1>1, <1>3, <1>5, <2>2, <3>1
  <2> QED
    BY <1>7, <2>1, <2>2, MarksMove
<1>8. ASSUME NEW m \in HourMarks' PROVE HourMark(m)'
  <2>1. CASE \E k \in HourMarks : m <= k
    BY <1>1, <1>2, <1>3, <2>1
  <2>2. CASE AppendHour(q) /\ m <= HourTarget(q)
    <3>1. PICK k \in Nat : k = HourTarget(q)
      BY <1>0, HourTargetType
    <3> QED
      BY <1>1, <1>3, <1>6, <2>2, <3>1
  <2> QED
    BY <1>8, <2>1, <2>2, MarksMove
<1> QED
  BY <1>7, <1>8 DEF MarkInv

LEMMA FoldStep ==
  ASSUME RollShapes, StampInv, OriginInv, Grows, FoldInv, PassInv, [RollNext]_rollVars PROVE FoldInv'
<1>1. ASSUME NEW f \in folded
      PROVE  f.ids # {} /\ \A d \in f.ids : \E r \in journal' : d \in r.ids /\ Floor(r.t, Win5) = f.t
  BY <1>1 DEF FoldInv, Grows
<1>2. CASE UNCHANGED folded
  BY <1>1, <1>2 DEF FoldInv
<1>3. ASSUME NEW p \in Procs, AppendFive(p) PROVE FoldInv'
  <2>1. /\ proc[p].at = "append" /\ proc[p].from = 5 /\ folded' = folded \cup Rows(proc[p].rows)
    BY <1>3 DEF AppendFive
  <2>2. ASSUME NEW f \in Rows(proc[p].rows)
        PROVE  f.ids # {} /\ \A d \in f.ids : \E r \in journal' : d \in r.ids /\ Floor(r.t, Win5) = f.t
    <3>1. PICK i \in DOMAIN proc[p].rows : f = proc[p].rows[i]
      BY <2>2 DEF Rows
    <3>2. f.ids # {}
      BY <2>1, <3>1 DEF PassInv, PassOf
    <3>3. TrueOf(proc[p].rows, Win5)
      BY <2>1 DEF OriginInv, WinOf
    <3> QED
      BY <3>1, <3>2, <3>3 DEF TrueOf, Grows
  <2> QED
    BY <1>1, <2>1, <2>2 DEF FoldInv
<1>4. UNCHANGED rollVars \/ Tick \/ LongSleep \/ ClockBack => UNCHANGED folded
  BY DEF rollVars, Tick, LongSleep, ClockBack, Passes
<1>5. ASSUME NEW p \in Procs, Sample(p) \/ EnterFive(p) \/ PassFive(p) \/ ReadFive(p) \/ ReadHour(p)
      PROVE  UNCHANGED folded
  BY <1>5 DEF Sample, EnterFive, PassFive, ReadFive, ReadHour
<1>6. ASSUME NEW p \in Procs, PassHour(p) \/ AppendHour(p) \/ ReadsNothing(p) \/ AppendFails(p)
      PROVE  UNCHANGED folded
  BY <1>6 DEF PassHour, AppendHour, ReadsNothing, AppendFails
<1>7. ASSUME NEW p \in Procs, Save(p) \/ Boot(p) \/ Stop(p) \/ Crash(p) PROVE UNCHANGED folded
  BY <1>7 DEF Save, Boot, Stop, Crash
<1> QED
  BY <1>2, <1>3, <1>4, <1>5, <1>6, <1>7, RollCases

LEMMA StoreStep ==
  ASSUME NEW q, Procs = {q}, RollShapes, RollShapes', StampInv', OriginInv, Grows,
         MarkInv, BehindInv', StoreInv, FoldInv', [Retained]_rollVars
  PROVE  StoreInv'
<1>0. q \in Procs /\ FiveMarks \subseteq Nat /\ HourMarks \subseteq Nat
      /\ Marked(q).w5 \in FiveMarks /\ Marked(q).w1h \in HourMarks
  BY MarksAre
<1>1. PICK m \in Nat : m = Marked(q).w5 /\ FiveMark(m)'
  BY <1>0, MarkStays DEF MarkInv
<1>2. PICK n \in Nat : n = Marked(q).w1h /\ n % Win1h = 0 /\ HourMark(n)'
  <2>1. Marked(q).w1h \in Nat /\ Marked(q).w1h % Win1h = 0
    BY <1>0, MarkedType DEF Aligned
  <2> QED
    BY <1>0, <2>1, MarkStays DEF MarkInv
<1>3. CASE UNCHANGED rollVars
  BY <1>3 DEF rollVars, StoreInv, Unread, Slept
<1>4. CASE Retained
  <2>1. late \subseteq late' /\ Unread \subseteq Unread' /\ Slept \subseteq Slept' /\ given.hour \subseteq Slept'
        /\ Samples(folded) \subseteq Samples(folded') /\ Samples(Rows(hour)) \subseteq Samples(Rows(hour'))
    BY DEF Grows, Unread, Slept, Samples
  <2>2. ASSUME NEW r \in journal', r.ids \cap Unread' = {}
        PROVE  r \in Rows(raw') \/ r.ids \subseteq Samples(folded')
    <3>1. CASE r \in Rows(raw) \cup (journal' \ journal)
      <4>1. r \in Rows(raw') \/ r.t < m
        BY <1>0, <1>1, <1>4, <3>1 DEF Retained
      <4> QED
        BY <1>1, <2>2, <4>1 DEF FiveMark, FiveHas
    <3>2. CASE r \in journal /\ r \notin Rows(raw)
      BY <2>1, <2>2, <3>2 DEF StoreInv
    <3> QED
      BY <3>1, <3>2
  <2>3. ASSUME NEW f, f \in Rows(five) \cup (folded' \ folded), NEW d \in f.ids, d \notin Slept',
               NEW r \in journal', d \in r.ids, Floor(r.t, Win5) = f.t
        PROVE  d \in Samples(Rows(five')) \cup Samples(Rows(hour'))
    <3>1. f \in Rows(five') \/ f.t < n \/ f.ids \subseteq given.hour
      BY <1>0, <1>2, <1>4, <2>3 DEF Retained
    <3>2. CASE f \in Rows(five')
      BY <2>3, <3>2 DEF Samples
    <3>3. CASE f.ids \subseteq given.hour
      BY <2>1, <2>3, <3>3
    <3>4. CASE f.t < n
      <4>1. r.t \in Nat /\ r.ids = {d}
        <5>1. r.t \in Nat
          BY RowsNext DEF RowBooks
        <5> QED
          BY <2>3, <5>1 DEF BehindInv, AllRows, OneSample
      <4>2. f.t \in Nat /\ f.t % Win5 = 0 /\ r.t < f.t + Win5
        <5>1. /\ Floor(r.t, Win5) \in Nat /\ Floor(r.t, Win5) % Win5 = 0
              /\ r.t < Floor(r.t, Win5) + Win5
          BY <4>1, FloorHolds, Bounds
        <5> QED
          BY <2>3, <5>1
      <4>3. n % Win5 = 0
        BY <1>2, HourIsFives
      <4>4. f.t + Win5 <= n
        <5>1. f.t + Win5 \in Nat /\ (f.t + Win5) % Win5 = 0
          BY <4>2, MultipleAfter, Bounds
        <5>2. f.t + Win5 < n + Win5
          BY <3>4, <4>2, Bounds
        <5> QED
          BY <4>3, <5>1, <5>2, NextMultiple, Bounds
      <4>5. r.t < n
        BY <4>1, <4>2, <4>4, Bounds
      <4>6. r.ids \subseteq Samples(Rows(hour'))
        BY <1>2, <2>3, <4>1, <4>5 DEF HourMark, HourHas
      <4> QED
        BY <4>1, <4>6
    <3> QED
      BY <3>1, <3>2, <3>3, <3>4
  <2>4. ASSUME NEW f \in folded', NEW d \in f.ids, d \notin Slept'
        PROVE  d \in Samples(Rows(five')) \cup Samples(Rows(hour'))
    <3>1. CASE f \in folded
      <4>1. d \in Samples(Rows(five)) \cup Samples(Rows(hour))
        BY <2>1, <2>4, <3>1 DEF StoreInv
      <4>2. CASE d \in Samples(Rows(hour))
        BY <2>1, <4>2
      <4>3. CASE d \in Samples(Rows(five))
        <5>1. PICK g \in Rows(five) : d \in g.ids
          BY <4>3 DEF Samples
        <5>2. PICK r \in journal : d \in r.ids /\ Floor(r.t, Win5) = g.t
          BY <5>1 DEF OriginInv, TrueOf, Rows
        <5>3. r \in journal'
          BY <5>2 DEF Grows
        <5> QED
          BY <2>3, <2>4, <5>1, <5>2, <5>3
      <4> QED
        BY <4>1, <4>2, <4>3
    <3>2. CASE f \in folded' \ folded
      <4>1. PICK r \in journal' : d \in r.ids /\ Floor(r.t, Win5) = f.t
        BY <2>4 DEF FoldInv
      <4> QED
        BY <2>3, <2>4, <3>2, <4>1
    <3> QED
      BY <2>4, <3>1, <3>2
  <2> QED
    BY <2>2, <2>4 DEF StoreInv
<1> QED
  BY <1>3, <1>4
-----------------------------------------------------------------------------
(* What a pass reads. *)

LEMMA PassReadsFive ==
  ASSUME RollShapes, StampInv, ClimbInv, MarkInv, BehindInv, RiseInv, StoreInv, PassInv,
         NEW q \in Procs, ReadFive(q)
  PROVE  PassOf(q)'
<1>0. /\ proc \in [Procs -> Sampler] /\ proc[q].now \in Nat /\ proc[q].w.w5 \in Nat
      /\ proc[q].w.w5 % Win5 = 0 /\ raw \in Seq(Row) /\ Floor(proc[q].now, Win5) \in Nat
      /\ \A r \in journal : r.t \in Nat
  <2>1. proc[q].now \in Nat /\ proc[q].w.w5 \in Nat /\ proc[q].w.w5 % Win5 = 0
    BY MarksAre
  <2> QED
    BY <2>1, RowsAre, FloorOfClock DEF RollShapes
<1>1. PICK rows \in Aggregate(raw, proc[q].w.w5, Floor(proc[q].now, Win5), Win5) :
        proc' = [proc EXCEPT ![q].at = "append", ![q].from = 5, ![q].rows = rows]
  BY DEF ReadFive
<1>2. /\ proc[q].at = "five" /\ UNCHANGED <<journal, late, given, folded, hour>>
      /\ proc'[q].at = "append" /\ proc'[q].from = 5 /\ proc'[q].rows = rows
      /\ proc'[q].buf = proc[q].buf /\ proc'[q].now = proc[q].now
  BY <1>0, <1>1 DEF ReadFive, Sampler
<1>3. Covers(rows, raw, proc[q].w.w5, Floor(proc[q].now, Win5))
  BY <1>0, <1>1, Bounds, Aggregated
<1>4. proc[q].buf = <<>> /\ FiveHas(proc[q].w.w5)
  <2>1. proc[q].loaded
    BY <1>2 DEF ClimbInv, ClimbOf
  <2> QED
    BY <1>2, <2>1 DEF PassInv, PassOf, MarkInv, FiveMarks, FiveMark
<1>5. \A i \in DOMAIN rows : rows[i].ids # {}
  BY <1>3 DEF Covers, BehindInv, OneSample, StampInv, AllRows
<1>6. ASSUME NEW r \in Rows(raw), r.ids \cap late = {} PROVE raw[1].t <= r.t
  <2>1. Rises(raw, late)
    <3>1. raw \o <<>> = raw
      BY <1>0, ConcatEmptySeq
    <3> QED
      BY <1>4, <3>1 DEF RiseInv
  <2>2. PICK j \in DOMAIN raw : r = raw[j]
    BY <1>6 DEF Rows
  <2>3. DOMAIN raw = 1 .. Len(raw) /\ Len(raw) \in Nat
    BY <1>0, LenProperties
  <2>4. 1 \in DOMAIN raw /\ (j = 1 \/ 1 < j)
    BY <2>2, <2>3
  <2>5. r.t \in Nat
    BY <1>0, <1>6 DEF StampInv
  <2> QED
    BY <1>6, <2>1, <2>2, <2>4, <2>5 DEF Rises
<1>7. ASSUME NEW r \in journal, r.t < Floor(proc[q].now, Win5), r.ids \cap Unread = {}
      PROVE  r.ids \subseteq Samples(folded) \cup Samples(Rows(rows))
  <2>1. CASE r.t < proc[q].w.w5
    BY <1>4, <1>7, <2>1 DEF FiveHas
  <2>2. CASE ~(r.t < proc[q].w.w5) /\ r \in Rows(raw)
    <3>1. proc[q].w.w5 <= r.t
      BY <1>0, <2>2
    <3>2. raw[1].t <= r.t
      BY <1>6, <1>7, <2>2 DEF Unread
    <3>3. PICK i \in DOMAIN rows : r.ids \subseteq rows[i].ids
      BY <1>3, <1>7, <2>2, <3>1, <3>2 DEF Covers
    <3> QED
      BY <3>3 DEF Samples, Rows
  <2>3. CASE r.ids \subseteq Samples(folded)
    BY <2>3
  <2> QED
    BY <1>7, <2>1, <2>2, <2>3 DEF StoreInv
<1> QED
  BY <1>2, <1>4, <1>5, <1>7 DEF PassOf, Unread

\* A sample below the hours' target is in the hours already or in a five-minute row that the
\* pass reads.
LEMMA PassReadsHour ==
  ASSUME RollShapes, StampInv, OriginInv, ClimbInv, MarkInv, BehindInv, StoreInv,
         NEW q \in Procs, ReadHour(q)
  PROVE  PassOf(q)'
<1>0. /\ proc \in [Procs -> Sampler] /\ proc[q].w.w1h \in Nat /\ proc[q].w.w5 \in Nat
      /\ proc[q].w.w1h % Win1h = 0
      /\ five \in Seq(RowOf(Win5)) /\ five \in Seq(Row)
      /\ HourTarget(q) \in Nat /\ HourTarget(q) <= proc[q].w.w5
      /\ \A r \in journal : r.t \in Nat
  <2>1. five \in Seq(RowOf(Win5)) /\ RowOf(Win5) \subseteq Row
    BY DEF RollShapes, RowOf
  <2>2. five \in Seq(Row)
    BY <2>1, SeqMonotonic
  <2> QED
    BY <2>1, <2>2, RowsAre, MarksAre, HourTargetBelow
<1>1. PICK rows \in Aggregate(five, proc[q].w.w1h, HourTarget(q), Win1h) :
        proc' = [proc EXCEPT ![q].at = "append", ![q].from = 1, ![q].rows = rows]
  BY DEF ReadHour
<1>2. /\ proc[q].at = "hour" /\ UNCHANGED <<journal, late, given, folded, hour>>
      /\ proc'[q].at = "append" /\ proc'[q].from = 1 /\ proc'[q].rows = rows
      /\ proc'[q].buf = proc[q].buf /\ proc'[q].now = proc[q].now /\ proc'[q].w = proc[q].w
  BY <1>0, <1>1 DEF ReadHour, Sampler
<1>3. HourTarget(q)' = HourTarget(q)
  BY <1>2 DEF HourTarget
<1>4. Covers(rows, five, proc[q].w.w1h, HourTarget(q))
  BY <1>0, <1>1, Bounds, Aggregated
<1>5. HourHas(proc[q].w.w1h) /\ FiveHas(proc[q].w.w5)
  <2>1. proc[q].loaded
    BY <1>2 DEF ClimbInv, ClimbOf
  <2> QED
    BY <2>1 DEF MarkInv, FiveMarks, FiveMark, HourMarks, HourMark
<1>6. ASSUME NEW g \in Rows(five) PROVE five[1].t <= g.t /\ g.t \in Nat
  <2>1. PICK j \in DOMAIN five : g = five[j]
    BY <1>6 DEF Rows
  <2>2. DOMAIN five = 1 .. Len(five) /\ Len(five) \in Nat
    BY <1>0, LenProperties
  <2>3. 1 \in DOMAIN five /\ (j = 1 \/ 1 < j)
    BY <2>1, <2>2
  <2>4. five[1].t \in Nat /\ five[j].t \in Nat
    <3>1. \A i \in DOMAIN five : five[i] \in Row
      BY ONLY <1>0
    <3> QED
      BY <2>1, <2>3, <3>1 DEF Row
  <2> QED
    BY <2>1, <2>3, <2>4 DEF ClimbInv, Climbs
<1>7. ASSUME NEW r \in journal, r.t < HourTarget(q), r.ids \cap Slept = {}
      PROVE  r.ids \subseteq Samples(Rows(hour)) \cup Samples(Rows(rows))
  <2>1. CASE r.t < proc[q].w.w1h
    BY <1>5, <1>7, <2>1 DEF HourHas
  <2>2. CASE ~(r.t < proc[q].w.w1h)
    <3>1. PICK d \in r.ids : r.ids = {d}
      BY <1>7 DEF BehindInv, AllRows, OneSample
    <3>2. d \in Samples(folded) /\ d \notin Slept
      <4>1. r.t < proc[q].w.w5
        BY <1>0, <1>7
      <4>2. r.ids \subseteq Samples(folded)
        BY <1>5, <1>7, <4>1 DEF FiveHas, Slept
      <4> QED
        BY <1>7, <3>1, <4>2
    <3>3. d \in Samples(Rows(five)) \cup Samples(Rows(hour))
      BY <3>2 DEF StoreInv, Samples
    <3>4. ASSUME NEW g \in Rows(five), d \in g.ids PROVE d \in Samples(Rows(rows))
      <4>1. PICK u \in journal : d \in u.ids /\ Floor(u.t, Win5) = g.t
        BY <3>4 DEF OriginInv, TrueOf, Rows
      <4>2. u.t = r.t
        BY <3>1, <4>1 DEF StampInv, AllRows
      <4>3. g.t <= r.t /\ proc[q].w.w1h <= g.t
        <5>1. proc[q].w.w1h % Win5 = 0 /\ proc[q].w.w1h <= r.t
          BY <1>0, <2>2, HourIsFives
        <5>2. r.t \in Nat /\ Floor(r.t, Win5) = g.t
          BY <1>0, <4>1, <4>2
        <5>3. Floor(r.t, Win5) <= r.t /\ proc[q].w.w1h <= Floor(r.t, Win5)
          BY ONLY <1>0, <5>1, <5>2, FloorIsLast, FloorHolds, Bounds
        <5> QED
          BY <5>2, <5>3
      <4>4. g.t < HourTarget(q) /\ five[1].t <= g.t
        BY <1>0, <1>6, <1>7, <3>4, <4>3
      <4>5. PICK i \in DOMAIN rows : g.ids \subseteq rows[i].ids
        BY <1>4, <3>4, <4>3, <4>4 DEF Covers
      <4> QED
        BY <3>4, <4>5 DEF Samples, Rows
    <3> QED
      BY <3>1, <3>3, <3>4 DEF Samples
  <2> QED
    BY <2>1, <2>2
<1>8. Slept' = Slept
  BY <1>2 DEF Slept, Unread
<1> QED
  BY <1>2, <1>3, <1>7, <1>8 DEF PassOf

\* What an unreadable journal hides is given up.
LEMMA PassReadsNothing ==
  ASSUME RollShapes, StampInv, ClimbInv, MarkInv, BehindInv, FoldInv, PassInv,
         NEW q \in Procs, ReadsNothing(q)
  PROVE  PassOf(q)'
<1>0. /\ proc \in [Procs -> Sampler] /\ proc[q].rows = <<>>
      /\ given \in [five : SUBSET Ids, hour : SUBSET Ids]
      /\ HourTarget(q) \in Nat /\ HourTarget(q) <= proc[q].w.w5 /\ proc[q].w.w5 \in Nat
      /\ \A r \in journal : r.t \in Nat
  <2>1. proc[q].rows = <<>>
    BY DEF RollShapes, SamplerOK, ReadsNothing
  <2> QED
    BY <2>1, RowsAre, MarksAre, HourTargetBelow DEF RollShapes
<1>1. UNCHANGED <<journal, late, folded, hour>>
  BY DEF ReadsNothing
<1>2. ASSUME proc[q].at = "five",
             proc' = [proc EXCEPT ![q].at = "append", ![q].from = 5],
             given' = [given EXCEPT !.five =
                        given.five \cup Samples({r \in journal : r.t < Floor(proc[q].now, Win5)})]
      PROVE  PassOf(q)'
  <2>1. /\ proc'[q].at = "append" /\ proc'[q].from = 5 /\ proc'[q].rows = <<>>
        /\ proc'[q].buf = proc[q].buf /\ proc'[q].now = proc[q].now
    BY <1>0, <1>2 DEF Sampler
  <2>2. proc[q].buf = <<>>
    BY <1>2 DEF PassInv, PassOf
  <2>3. ASSUME NEW r \in journal, r.t < Floor(proc[q].now, Win5) PROVE r.ids \cap Unread' # {}
    <3>1. r.ids # {}
      BY <2>3 DEF BehindInv, AllRows, OneSample
    <3>2. r.ids \subseteq given'.five
      BY <1>0, <1>2, <2>3 DEF Samples
    <3> QED
      BY <3>1, <3>2 DEF Unread
  <2> DEFINE none == <<>>
  <2>4. proc'[q].rows = none /\ DOMAIN none = {}
    BY <2>1
  <2> HIDE DEF none
  <2> QED
    BY <1>1, <2>1, <2>2, <2>3, <2>4 DEF PassOf
<1>3. ASSUME proc[q].at = "hour",
             proc' = [proc EXCEPT ![q].at = "append", ![q].from = 1],
             given' = [given EXCEPT !.hour = given.hour \cup Samples({f \in folded : f.t < HourTarget(q)})]
      PROVE  PassOf(q)'
  <2>1. /\ proc'[q].at = "append" /\ proc'[q].from = 1
        /\ proc'[q].now = proc[q].now /\ proc'[q].w = proc[q].w
    BY <1>0, <1>3 DEF Sampler
  <2>2. HourTarget(q)' = HourTarget(q)
    BY <2>1 DEF HourTarget
  <2>3. FiveHas(proc[q].w.w5)
    <3>1. proc[q].loaded
      BY <1>3 DEF ClimbInv, ClimbOf
    <3> QED
      BY <3>1 DEF MarkInv, FiveMarks, FiveMark
  <2>4. given.five = given'.five /\ given'.hour = given.hour \cup Samples({f \in folded : f.t < HourTarget(q)})
    BY <1>0, <1>3
  <2>5. ASSUME NEW r \in journal, r.t < HourTarget(q), r.ids \cap Slept' = {} PROVE FALSE
    <3>1. PICK d \in r.ids : r.ids = {d}
      BY <2>5 DEF BehindInv, AllRows, OneSample
    <3>2. r.t < proc[q].w.w5
      BY <1>0, <2>5
    <3>3. r.ids \cap Unread = {}
      BY <1>1, <2>4, <2>5 DEF Slept, Unread
    <3>4. PICK f \in folded : d \in f.ids
      BY <2>3, <3>1, <3>2, <3>3 DEF FiveHas, Samples
    <3>5. PICK u \in journal : d \in u.ids /\ Floor(u.t, Win5) = f.t
      BY <3>4 DEF FoldInv
    <3>6. u.t = r.t
      BY <3>1, <3>5 DEF StampInv, AllRows
    <3>7. f.t < HourTarget(q)
      <4>1. r.t \in Nat /\ Floor(r.t, Win5) <= r.t /\ Floor(r.t, Win5) \in Nat
        BY <1>0, FloorHolds, Bounds
      <4> QED
        BY <1>0, <2>5, <3>5, <3>6, <4>1
    <3>8. d \in given'.hour
      BY <2>4, <3>4, <3>7 DEF Samples
    <3> QED
      BY <2>5, <3>1, <3>8 DEF Slept
  <2> QED
    BY <1>1, <2>1, <2>2, <2>5 DEF PassOf
<1> QED
  BY <1>2, <1>3 DEF ReadsNothing

LEMMA PassStep ==
  ASSUME NEW q, Procs = {q}, RollShapes, StampInv, OriginInv, ClimbInv, MarkInv, BehindInv, RiseInv,
         StoreInv, FoldInv, PassInv, [RollNext]_rollVars
  PROVE  PassInv'
<1>0. q \in Procs /\ proc \in [Procs -> Sampler] /\ \A p \in Procs : p = q
  BY DEF RollShapes
<1>1. SUFFICES PassOf(q)'
  BY <1>0 DEF PassInv
<1>2. ASSUME proc'[q].at \notin {"five", "append"} PROVE PassOf(q)'
  BY <1>2 DEF PassOf
<1>3. CASE UNCHANGED rollVars
  <2>1. PassOf(q)
    BY <1>0 DEF PassInv
  <2>2. Unread' = Unread /\ Slept' = Slept /\ HourTarget(q)' = HourTarget(q)
    BY <1>3 DEF rollVars, Unread, Slept, HourTarget
  <2> QED
    BY <1>3, <2>1, <2>2 DEF rollVars, PassOf
<1>4. CASE Tick \/ LongSleep \/ ClockBack
  <2>1. PICK t : Passes(t)
    BY <1>4 DEF Tick, LongSleep, ClockBack
  <2>2. PICK at \in {"off", "sample", "roll"} : proc'[q] = [proc[q] EXCEPT !.at = at]
    BY <1>0, <2>1, Woken
  <2>3. proc'[q].at = at
    BY <1>0, <2>2 DEF Sampler
  <2> QED
    BY <1>2, <2>2, <2>3
<1>5. CASE Sample(q)
  <2>1. PICK left :
          proc' = [proc EXCEPT ![q].at = "roll", ![q].n = proc[q].n + 1, ![q].buf = left]
    BY <1>5 DEF Sample
  <2>2. proc'[q].at = "roll"
    BY <1>0, <2>1 DEF Sampler
  <2> QED
    BY <1>2, <2>2
<1>6. CASE EnterFive(q)
  <2>1. proc'[q].at = "five" /\ proc'[q].buf = <<>>
    BY <1>0, <1>6 DEF EnterFive, FlushPending, Sampler
  <2> QED
    BY <2>1 DEF PassOf
<1>7. CASE PassFive(q) \/ PassHour(q) \/ Save(q)
  <2>1. proc'[q].at \in {"hour", "save", "rest"}
    <3>1. CASE PassFive(q)
      BY <1>0, <3>1 DEF PassFive, Sampler
    <3>2. CASE PassHour(q) \/ Save(q)
      BY <1>0, <3>2 DEF PassHour, Save, Sampler
    <3> QED
      BY <1>7, <3>1, <3>2
  <2> QED
    BY <1>2, <2>1
<1>8. CASE AppendFive(q) \/ AppendHour(q) \/ AppendFails(q)
  <2>1. proc'[q].at \in {"hour", "save"}
    <3>1. CASE AppendFive(q)
      BY <1>0, <3>1 DEF AppendFive, Sampler
    <3>2. CASE AppendHour(q)
      BY <1>0, <3>2 DEF AppendHour, Sampler
    <3>3. CASE AppendFails(q)
      BY <1>0, <3>3 DEF AppendFails, Sampler
    <3> QED
      BY <1>8, <3>1, <3>2, <3>3
  <2> QED
    BY <1>2, <2>1
<1>9. CASE Boot(q) \/ Stop(q) \/ Crash(q)
  <2>1. proc'[q].at \in {"sample", "stopped", "off"}
    <3>1. CASE Boot(q)
      BY <1>0, <3>1, OffType DEF Boot, Sampler
    <3>2. CASE Stop(q)
      BY <1>0, <3>2, OffType DEF Stop, Sampler
    <3>3. CASE Crash(q)
      BY <1>0, <3>3, OffType DEF Crash, Sampler
    <3> QED
      BY <1>9, <3>1, <3>2, <3>3
  <2> QED
    BY <1>2, <2>1
<1> QED
  BY <1>0, <1>3, <1>4, <1>5, <1>6, <1>7, <1>8, <1>9, RollCases,
     PassReadsFive, PassReadsHour, PassReadsNothing
-----------------------------------------------------------------------------
(* The tiers are whole. *)

LEMMA WholeInit == RollInit => WholeInv
<1> SUFFICES ASSUME RollInit PROVE WholeInv
  OBVIOUS
<1>1. Rows(<<>>) = {} /\ \A win : Proven(<<>>, win) = 0
  BY DEF Rows, Proven
<1>2. /\ raw = <<>> /\ five = <<>> /\ hour = <<>> /\ journal = {} /\ folded = {} /\ high = 0
      /\ saved.w5 = 0 /\ saved.w1h = 0
      /\ \A p \in Procs : proc[p] = Off
  BY DEF RollInit, Zero
<1>3. Off.at = "off" /\ Off.buf = <<>> /\ Off.loaded = FALSE /\ Off.now = 0
  BY DEF Off
<1>4. Buffered = {} /\ AllRows = {}
  BY <1>1, <1>2, <1>3 DEF Buffered, AllRows
<1>5. FiveMarks = {0} /\ HourMarks = {0}
  BY <1>1, <1>2, <1>3 DEF FiveMarks, HourMarks
<1>6. MarkInv
  BY <1>2, <1>4, <1>5 DEF MarkInv, FiveMark, HourMark, FiveHas, HourHas, BufferAbove
<1>7. BehindInv
  BY <1>2, <1>3, <1>4 DEF BehindInv
<1>8. RiseInv
  <2>1. <<>> \o <<>> = <<>>
    BY EmptySeq, ConcatEmptySeq
  <2> QED
    BY <1>2, <1>3, <2>1 DEF RiseInv, Rises
<1>9. StoreInv /\ FoldInv
  BY <1>2 DEF StoreInv, FoldInv
<1>10. PassInv
  BY <1>2, <1>3 DEF PassInv, PassOf
<1> QED
  BY <1>6, <1>7, <1>8, <1>9, <1>10 DEF WholeInv

TierInv == RollShapes /\ StampInv /\ OriginInv /\ ClimbInv /\ WholeInv

LEMMA TierInit == RollInit => TierInv
BY RollTypeInit, StampInit, OriginInit, ClimbInit, WholeInit DEF TierInv

LEMMA TierStep ==
  ASSUME NEW q, Procs = {q}, TierInv, [RollNext]_rollVars, [Retained]_rollVars
  PROVE  TierInv'
<1>1. RollShapes' /\ StampInv' /\ OriginInv' /\ ClimbInv'
  BY RollTypeStep, StampStep, OriginStep, ClimbStep DEF TierInv
<1>2. Grows
  BY GrowStep DEF TierInv
<1>3. BehindInv' /\ RiseInv'
  BY <1>1, <1>2, BehindStep, RiseStep DEF TierInv, WholeInv
<1>4. FoldInv' /\ PassInv'
  BY <1>2, FoldStep, PassStep DEF TierInv, WholeInv
<1>5. MarkInv'
  BY <1>1, <1>2, MarkStep DEF TierInv, WholeInv
<1>6. StoreInv'
  BY <1>1, <1>2, <1>3, <1>4, StoreStep DEF TierInv, WholeInv
<1> QED
  BY <1>1, <1>3, <1>4, <1>5, <1>6 DEF TierInv, WholeInv

LEMMA TierNothingSkipped == ASSUME TierInv PROVE NothingSkipped
<1>1. SUFFICES ASSUME NEW p \in Procs, proc[p].loaded,
                      NEW r \in journal, r.t < proc[p].w.w5, r.ids \cap Unread = {}
               PROVE  \E f \in folded : r.ids \subseteq f.ids
  BY DEF NothingSkipped, FiveMissesOnly, Unread
<1>2. FiveHas(proc[p].w.w5)
  BY <1>1 DEF TierInv, WholeInv, MarkInv, FiveMarks, FiveMark
<1>3. r.ids \subseteq Samples(folded)
  BY <1>1, <1>2 DEF FiveHas
<1>4. PICK d \in r.ids : r.ids = {d}
  BY <1>1 DEF TierInv, WholeInv, BehindInv, AllRows, OneSample
<1> QED
  BY <1>3, <1>4 DEF Samples

\* The samples of a five-minute row are in one hour row, that of their hour.
LEMMA TierHoursWhole == ASSUME TierInv PROVE HoursAreWhole
<1>1. SUFFICES ASSUME NEW p \in Procs, proc[p].loaded,
                      NEW f \in folded, f.t < proc[p].w.w1h, f.ids \cap Slept = {}
               PROVE  \E i \in DOMAIN hour : f.ids \subseteq hour[i].ids
  BY DEF HoursAreWhole, HourMissesOnly, Slept, Unread
<1>2. /\ RollShapes /\ StampInv /\ Climbs(hour) /\ TrueOf(hour, Win1h)
      /\ HourHas(proc[p].w.w1h)
  BY <1>1 DEF TierInv, WholeInv, ClimbInv, OriginInv, MarkInv, HourMarks, HourMark
<1>3. /\ proc[p].w.w1h \in Nat /\ proc[p].w.w1h % Win5 = 0 /\ f.t \in Nat /\ f.t % Win5 = 0
      /\ f.t + Win5 <= proc[p].w.w1h
  <2>1. proc[p].w.w1h \in Nat /\ proc[p].w.w1h % Win1h = 0
    BY <1>2, MarksAre
  <2>2. proc[p].w.w1h % Win5 = 0
    BY <2>1, HourIsFives
  <2>3. f.t \in Nat /\ f.t % Win5 = 0
    BY <1>2 DEF RollShapes, RowOf, Row
  <2>4. (f.t + Win5) \in Nat /\ (f.t + Win5) % Win5 = 0
    BY <2>3, MultipleAfter, Bounds
  <2>5. f.t + Win5 < proc[p].w.w1h + Win5
    BY <1>1, <2>1, <2>3, Bounds
  <2> QED
    BY <2>1, <2>2, <2>3, <2>4, <2>5, NextMultiple, Bounds
<1>4. ASSUME NEW d \in f.ids
      PROVE  \E i \in DOMAIN hour : d \in hour[i].ids /\ hour[i].t = Floor(f.t, Win1h)
  <2>1. PICK r \in journal : d \in r.ids /\ Floor(r.t, Win5) = f.t
    BY <1>4 DEF TierInv, WholeInv, FoldInv
  <2>2. r.t \in Nat /\ r.ids = {d}
    BY <1>2, <2>1, RowsAre DEF TierInv, WholeInv, BehindInv, AllRows, OneSample
  <2>3. r.t < proc[p].w.w1h
    <3>1. r.t < Floor(r.t, Win5) + Win5
      BY <2>2, FloorHolds, Bounds
    <3> QED
      BY <1>3, <2>1, <2>2, <3>1, Bounds
  <2>4. d \in Samples(Rows(hour))
    BY <1>1, <1>2, <1>4, <2>2, <2>3 DEF HourHas
  <2>5. PICK i \in DOMAIN hour : d \in hour[i].ids
    BY <2>4 DEF Samples, Rows
  <2>6. PICK u \in journal : d \in u.ids /\ Floor(u.t, Win1h) = hour[i].t
    BY <1>2, <2>5 DEF TrueOf
  <2>7. u.t = r.t
    BY <1>2, <2>1, <2>6 DEF StampInv, AllRows
  <2>8. Floor(r.t, Win1h) = Floor(f.t, Win1h)
    BY <2>1, <2>2, HourOfFive
  <2> QED
    BY <2>5, <2>6, <2>7, <2>8
<1>5. ASSUME NEW i \in DOMAIN hour, NEW j \in DOMAIN hour, hour[i].t = hour[j].t PROVE i = j
  <2>1. DOMAIN hour = 1 .. Len(hour) /\ Len(hour) \in Nat /\ \A k \in DOMAIN hour : hour[k].t \in Nat
    <3>1. hour \in Seq(RowOf(Win1h))
      BY <1>2 DEF RollShapes
    <3>2. \A x \in RowOf(Win1h) : x.t \in Nat
      BY DEF RowOf, Row
    <3> QED
      BY <3>1, <3>2, LenProperties
  <2>2. i = j \/ i < j \/ j < i
    BY <2>1
  <2> QED
    BY <1>2, <1>5, <2>1, <2>2 DEF Climbs
<1>6. PICK d \in f.ids : TRUE
  BY DEF TierInv, WholeInv, FoldInv
<1>7. PICK i \in DOMAIN hour : d \in hour[i].ids /\ hour[i].t = Floor(f.t, Win1h)
  BY <1>4
<1>8. ASSUME NEW e \in f.ids PROVE e \in hour[i].ids
  BY <1>4, <1>5, <1>7
<1> QED
  BY <1>8

\* With one panel, as long as no trim takes a row that the tier above has not read, a sample
\* that reached the raw journal is in a five-minute row once the watermark has passed it,
\* whatever dies, is refused or is not saved, but for a clock set back or a journal that
\* could not be read (maybe_rollup, flush_pending).
THEOREM NothingSkippedEver ==
  ASSUME NEW q, Procs = {q}
  PROVE  RollSpec /\ RowsRetained => []NothingSkipped
<1>1. TierInv /\ [RollNext]_rollVars /\ [Retained]_rollVars => TierInv'
  BY TierStep
<1>2. TierInv => NothingSkipped
  BY TierNothingSkipped
<1> QED
  BY <1>1, <1>2, TierInit, PTL DEF RollSpec, RowsRetained

\* Likewise the hours have the samples of every five-minute row below their watermark, all in
\* one hour row, also when the lower tier lags behind its clock (maybe_rollup).
THEOREM HoursAreWholeEver ==
  ASSUME NEW q, Procs = {q}
  PROVE  RollSpec /\ RowsRetained => []HoursAreWhole
<1>1. TierInv /\ [RollNext]_rollVars /\ [Retained]_rollVars => TierInv'
  BY TierStep
<1>2. TierInv => HoursAreWhole
  BY TierHoursWhole
<1> QED
  BY <1>1, <1>2, TierInit, PTL DEF RollSpec, RowsRetained

=============================================================================
