-------------------------- MODULE ControlPlaneProofs --------------------------
(***************************************************************************)
(* Theorems about ControlPlane, for any number of containers, workers and   *)
(* handlers, any capacities, durations and requests.                        *)
(***************************************************************************)
EXTENDS ControlPlane, SumTheorems

------------------------------------------------------------------------------
(* Rows whose index column agrees with the document, and whose phase agrees  *)
(* with both.                                                                *)

Agreeing == {r \in Row : r.node = r.worker /\ (r.phase = "Pending" <=> r.worker = NoWorker)}
Good == Agreeing \cup {NoRow}
GoodPut == [c : Containers, row : Good, to : Workers \cup {NoWorker}]
GoodCall == [c : Containers, row : Good, from : Workers \cup {NoWorker}]
Reported == [c : Containers, phase : (Phase \ {"Pending"}) \cup {"clear"}, reason : ReasonToken]

SchedShape(s) ==
  /\ s.put \in GoodPut \cup {NoRow}
  /\ s.pc = "put" => s.put \in GoodPut

Shape ==
  /\ container \in [Containers -> Good]
  /\ restored \subseteq Containers
  /\ worker \in [Workers -> WorkerRow \cup {NoRow}]
  /\ leaseAge \in [Workers -> 0..(LeaseDuration + 1) \cup {NoRow}]
  /\ up \in [Workers -> BOOLEAN]
  /\ report \in [Workers -> Reported \cup {NoRow}]
  /\ handler \in [Handlers -> GoodCall \cup {NoRow}]
  /\ SchedShape(sched)
  /\ lc \in [pc : {"idle", "leases", "flip", "evict"}, fresh : SUBSET Workers,
             flips : SUBSET Workers, evictable : SUBSET Workers,
             clones : [Containers -> Good]]
  /\ \A c \in Containers : lc.clones[c] # NoRow => lc.clones[c].phase # "Pending"

\* Edits of a row that leave both names of its worker alone.
LEMMA DesireAgrees ==
  ASSUME NEW r \in Agreeing, NEW d \in {"Running", "Hibernated"}
  PROVE  [r EXCEPT !.desired = d] \in Agreeing
  BY DEF Agreeing, Row

LEMMA MarkAgrees ==
  ASSUME NEW r \in Agreeing, NEW b \in BOOLEAN
  PROVE  [r EXCEPT !.deleting = b] \in Agreeing /\ [r EXCEPT !.finalizer = b] \in Agreeing
  BY DEF Agreeing, Row

LEMMA ReasonAgrees ==
  ASSUME NEW r \in Agreeing, NEW t \in ReasonToken
  PROVE  [r EXCEPT !.reason = t] \in Agreeing
  BY DEF Agreeing, Row

LEMMA PhaseAgrees ==
  ASSUME NEW r \in Agreeing, NEW p \in Phase, NEW t \in ReasonToken,
         r.phase # "Pending", p # "Pending"
  PROVE  [r EXCEPT !.phase = p, !.reason = t] \in Agreeing
  BY DEF Agreeing, Row

\* An edit that sets both.
LEMMA MoveAgrees ==
  ASSUME NEW r \in Agreeing, NEW p \in Phase, NEW w \in Workers \cup {NoWorker},
         NEW t \in ReasonToken, p = "Pending" <=> w = NoWorker
  PROVE  [r EXCEPT !.phase = p, !.worker = w, !.node = w, !.reason = t] \in Agreeing
  BY DEF Agreeing, Row

LEMMA NamesAreNotZero == NoWorker \notin Workers
  BY NamesAssumption DEF NoWorker

LEMMA SubmittedAgrees == ASSUME NEW c \in Containers PROVE Submitted(c) \in Agreeing
  BY DEF Submitted, Agreeing, Row, Phase, ReasonToken

LEMMA NoRowDoesNotAgree == NoRow \notin Agreeing
  BY NoRowAssumption DEF Agreeing

\* A pass that holds no put, and one that does.
LEMMA NoPutShape ==
  ASSUME NEW pc, NEW todo, NEW used, NEW ready, pc # "put"
  PROVE  SchedShape(SchedAt(pc, todo, used, ready, NoRow))
  BY DEF SchedShape, SchedAt

LEMMA PutShape ==
  ASSUME NEW pc, NEW todo, NEW used, NEW ready, NEW p \in GoodPut
  PROVE  SchedShape(SchedAt(pc, todo, used, ready, p))
  BY DEF SchedShape, SchedAt

LEMMA IdleShape == SchedShape(SchedIdle)
  BY NoPutShape DEF SchedIdle

LEMMA InitShape == Init => Shape
  BY DEF Init, Shape, SchedShape, NoRows, SchedIdle, SchedAt, LcIdle, LcAt, Good

LEMMA RequestKeepsShape ==
  ASSUME Shape, Request PROVE Shape'
<1> USE DEF Good
<1>1. ASSUME NEW c \in Containers, create(c) PROVE Shape'
  BY <1>1, SubmittedAgrees DEF create, Shape, nodes
<1>2. ASSUME NEW h \in Handlers, NEW c \in Containers,
             NEW d \in {"Running", "Hibernated"}, set_desired_state(h, c, d)
      PROVE  Shape'
  <2>0. container[c] \in Agreeing
    BY <1>2 DEF set_desired_state, Shape
  <2>1. [container[c] EXCEPT !.desired = d] \in Good
    BY <2>0, DesireAgrees
  <2> QED BY <1>2, <2>1 DEF set_desired_state, Take, Shape, GoodCall, rows, nodes
<1>3. ASSUME NEW h \in Handlers, NEW c \in Containers, delete(h, c) PROVE Shape'
  <2>0. container[c] \in Agreeing
    BY <1>3 DEF delete, Shape
  <2>1. [container[c] EXCEPT !.deleting = TRUE] \in Good
    BY <2>0, MarkAgrees
  <2> QED BY <1>3, <2>1 DEF delete, Take, Shape, GoodCall, rows, nodes
<1>4. ASSUME NEW h \in Handlers, NEW w \in Workers, replace_status(h, w) PROVE Shape'
  <2>1. report[w] \in Reported /\ report[w].phase \in Phase \ {"Pending"}
    BY <1>4 DEF replace_status, Shape, Reported
  <2>0. container[report[w].c] \in Agreeing /\ report[w].reason \in ReasonToken
    BY <1>4, <2>1 DEF replace_status, Shape, Reported
  <2>2. WithStatus(container[report[w].c], w, report[w].phase, report[w].reason) \in Good
    BY <2>0, <2>1, MoveAgrees, NamesAreNotZero DEF WithStatus
  <2> QED BY <1>4, <2>1, <2>2 DEF replace_status, Take, Shape, GoodCall, Reported, rows
<1>5. ASSUME NEW h \in Handlers, NEW w \in Workers, replace(h, w) PROVE Shape'
  <2>1. report[w] \in Reported
    BY <1>5 DEF replace, Shape
  <2>0. container[report[w].c] \in Agreeing
    BY <1>5, <2>1 DEF replace, Shape, Reported
  <2>2. [container[report[w].c] EXCEPT !.finalizer = FALSE] \in Good
    BY <2>0, MarkAgrees
  <2>3. container' \in [Containers -> Good]
    BY <1>5, <2>1, <2>2 DEF replace, Take, Shape, Reported
  <2>4. handler' \in [Handlers -> GoodCall \cup {NoRow}]
    BY <1>5, <2>1 DEF replace, Take, Shape, GoodCall, Reported
  <2> QED BY <1>5, <2>3, <2>4 DEF replace, Shape
<1>6. ASSUME NEW h \in Handlers, Finish(h) PROVE Shape'
  <2>1. handler[h] \in GoodCall
    BY <1>6 DEF Finish, Shape
  <2>2. container' \in [Containers -> Good] /\ restored' \subseteq Containers
    BY <1>6, <2>1 DEF Finish, Shape, GoodCall, Restored
  <2> QED BY <1>6, <2>2 DEF Finish, Shape, nodes
<1>7. ASSUME NEW w \in Workers, NotFound(w) PROVE Shape'
  BY <1>7 DEF NotFound, Shape, rows
<1>8. ASSUME NEW w \in Workers, delete_worker(w) PROVE Shape'
  BY <1>8 DEF delete_worker, Shape
<1> QED BY <1>1, <1>2, <1>3, <1>4, <1>5, <1>6, <1>7, <1>8 DEF Request

LEMMA DaemonKeepsShape ==
  ASSUME Shape, Daemon PROVE Shape'
<1>1. ASSUME NEW w \in Workers, register(w) PROVE Shape'
  <2>1. [ready |-> "Unset", age |-> 0] \in WorkerRow
    BY TimesAssumption DEF WorkerRow
  <2> QED BY <1>1, <2>1 DEF register, Shape
<1>2. ASSUME NEW w \in Workers, heartbeat(w) PROVE Shape'
  BY <1>2, TimesAssumption DEF heartbeat, Shape, nodes
<1>3. ASSUME NEW w \in Workers, Die(w) PROVE Shape'
  BY <1>3 DEF Die, Shape, rows
<1>4. ASSUME NEW w \in Workers, NEW c \in Containers, run_once(w, c) PROVE Shape'
  <2>1. container[c] \in Agreeing /\ container[c].phase # "Pending"
    BY <1>4, NamesAreNotZero DEF run_once, Shape, Good, Agreeing
  <2>2. Reports(c) \subseteq Reported
    BY <2>1 DEF Reports, Cleared, Converged, Reported, Agreeing, Row, Phase, ReasonToken
  <2>3. PICK p \in Reports(c) : report' = [report EXCEPT ![w] = p]
    BY <1>4 DEF run_once
  <2>4. report' \in [Workers -> Reported \cup {NoRow}]
    BY <2>2, <2>3 DEF Shape
  <2> QED BY <1>4, <2>4 DEF run_once, Shape, rows
<1> QED BY <1>1, <1>2, <1>3, <1>4 DEF Daemon

LEMMA TickKeepsShape ==
  ASSUME Shape, Tick PROVE Shape'
<1>1. leaseAge' \in [Workers -> 0..(LeaseDuration + 1) \cup {NoRow}]
  BY TimesAssumption, NoRowAssumption DEF Tick, Shape, Later
<1>2. ASSUME NEW r \in WorkerRow
      PROVE  [r EXCEPT !.age = Later(@, EvictionTimeout)] \in WorkerRow
  BY TimesAssumption DEF WorkerRow, Later
<1>3. worker' \in [Workers -> WorkerRow \cup {NoRow}]
  BY <1>2 DEF Tick, Shape
<1> QED BY <1>1, <1>3 DEF Tick, Shape, nodes

LEMMA RestartKeepsShape ==
  ASSUME Shape, Restart PROVE Shape'
BY DEF Restart, Shape, SchedShape, SchedIdle, SchedAt, LcIdle, LcAt, NoRows, Good, rows, nodes

LEMMA SchedulingKeepsShape ==
  ASSUME Shape, Scheduling PROVE Shape'
<1>1. CASE SchedListContainers
  <2>1. SchedShape(sched')
    BY <1>1, NoPutShape DEF SchedListContainers
  <2> QED BY <1>1, <2>1 DEF SchedListContainers, Shape, rows, nodes
<1>2. CASE SchedListWorkers
  <2>1. SchedShape(sched')
    BY <1>2, NoPutShape, IdleShape DEF SchedListWorkers
  <2> QED BY <1>2, <2>1 DEF SchedListWorkers, Shape, rows, nodes
<1>3. CASE SchedGet
  <2>1. PICK c \in Containers, w \in Workers \cup {NoWorker} : Outcome(c, w)
    BY <1>3 DEF SchedGet, PickedFor
  <2>2. ASSUME container[c] = NoRow PROVE SchedShape(sched')
    BY <2>1, <2>2, NoPutShape, IdleShape DEF Outcome
  <2>3. ASSUME container[c] # NoRow PROVE SchedShape(sched')
    <3>1. container[c] \in Agreeing
      BY <2>3 DEF Shape, Good
    <3>2. [c |-> c, row |-> [container[c] EXCEPT !.reason = "Unschedulable"], to |-> w] \in GoodPut
      BY <3>1, ReasonAgrees DEF GoodPut, Good, ReasonToken
    <3>3. w # NoWorker => [c |-> c, row |-> Bound(container[c], w), to |-> w] \in GoodPut
      <4> SUFFICES ASSUME w # NoWorker PROVE Bound(container[c], w) \in Agreeing
        BY DEF GoodPut, Good
      <4> QED BY <3>1, MoveAgrees DEF Bound, GoodPut, Good, Phase, ReasonToken
    <3> QED BY <2>1, <2>3, <3>2, <3>3, NoPutShape, PutShape, IdleShape DEF Outcome
  <2>4. SchedShape(sched')
    BY <2>2, <2>3
  <2> QED BY <1>3, <2>4 DEF SchedGet, Shape, rows, nodes
<1>4. CASE SchedPut
  <2>1. sched.put \in GoodPut
    BY <1>4 DEF SchedPut, Shape, SchedShape
  <2>2. container' \in [Containers -> Good] /\ restored' \subseteq Containers
    BY <1>4, <2>1 DEF SchedPut, Shape, GoodPut, Restored
  <2>3. SchedShape(sched')
    BY <1>4, NoPutShape, IdleShape DEF SchedPut
  <2> QED BY <1>4, <2>2, <2>3 DEF SchedPut, Shape, nodes
<1> QED BY <1>1, <1>2, <1>3, <1>4 DEF Scheduling

LEMMA LifecycleKeepsShape ==
  ASSUME Shape, Lifecycle PROVE Shape'
<1>1. CASE LcLeases
  BY <1>1 DEF LcLeases, Shape, LcAt, NoRows, Good, rows, nodes
<1>2. CASE LcWorkers
  BY <1>2 DEF LcWorkers, Shape, LcAt, NoRows, Good, rows, nodes
<1>3. ASSUME NEW w \in Workers, LcFlip(w) PROVE Shape'
  BY <1>3, TimesAssumption DEF LcFlip, Shape, WorkerRow, nodes
<1>4. CASE LcContainers
  <2>1. \A c \in UNION {OnWorker(w) : w \in lc.evictable} : container[c].phase # "Pending"
    BY DEF OnWorker, holds_resources
  <2> QED BY <1>4, <2>1 DEF LcContainers, Shape, LcAt, LcIdle, NoRows, Good, rows, nodes
<1>5. ASSUME NEW c \in Containers, LcEvict(c) PROVE Shape'
  <2>1. lc.clones[c] \in Agreeing /\ lc.clones[c].phase # "Pending"
    BY <1>5 DEF LcEvict, Shape, Good
  <2>2. Evicted(c, lc.clones[c]) \in Good
    BY <2>1, PhaseAgrees, MoveAgrees DEF Evicted, Good, Phase, ReasonToken
  <2>3. container' \in [Containers -> Good]
    BY <1>5, <2>2 DEF LcEvict, Shape
  <2>4. lc' = LcIdle \/ lc' = [lc EXCEPT !.clones[c] = NoRow]
    BY <1>5 DEF LcEvict
  <2> QED BY <1>5, <2>3, <2>4 DEF LcEvict, Shape, LcIdle, LcAt, NoRows, Good, nodes
<1> QED BY <1>1, <1>2, <1>3, <1>4, <1>5 DEF Lifecycle

LEMMA NextKeepsShape ==
  ASSUME Shape, [Next]_vars PROVE Shape'
<1>1. CASE UNCHANGED vars
  BY <1>1 DEF vars, Shape, SchedShape
<1> QED
  BY <1>1, RequestKeepsShape, DaemonKeepsShape, TickKeepsShape, RestartKeepsShape,
     SchedulingKeepsShape, LifecycleKeepsShape DEF Next

LEMMA ShapeHolds == Spec => []Shape
  BY InitShape, NextKeepsShape, PTL DEF Spec

\* IndexInSync: for any interleaving of handlers, passes, crashes and reports,
\* the index column of a container names the worker its document names.
THEOREM IndexStaysInSync == Spec => []IndexInSync
<1>1. Shape => IndexInSync
  <2> SUFFICES ASSUME Shape PROVE IndexInSync
    OBVIOUS
  <2>1. \A r \in Good : InSync(r)
    BY DEF Good, Agreeing, InSync
  <2>2. \A c \in Containers : InSync(container[c]) /\ InSync(lc.clones[c])
    BY <2>1 DEF Shape
  <2>3. \A h \in Handlers : handler[h] # NoRow => InSync(handler[h].row)
    BY <2>1 DEF Shape, GoodCall
  <2>4. sched.put # NoRow => InSync(sched.put.row)
    BY <2>1 DEF Shape, SchedShape, GoodPut
  <2> QED BY <2>2, <2>3, <2>4 DEF IndexInSync
<1> QED BY <1>1, ShapeHolds, PTL

\* PendingIsUnbound: what the scheduler may place is nobody's and what nobody has
\* may be placed, although a binding, an eviction and a status report are puts of
\* rows read earlier.
THEOREM PendingStaysUnbound == Spec => []PendingIsUnbound
<1>1. Shape => PendingIsUnbound
  BY DEF Shape, Good, Agreeing, PendingIsUnbound
<1> QED BY <1>1, ShapeHolds, PTL

------------------------------------------------------------------------------
(* Types.  Beside Shape, the scheduler's pass: what it counts is a number.   *)

SchedStates ==
  [pc : {"idle", "containers", "placing", "put"}, todo : SUBSET Containers,
   used : [Workers -> Nat], ready : SUBSET Workers, put : Put \cup {NoRow}]

SchedTyped == sched \in SchedStates

LEMMA UsageIsASum == ASSUME NEW w PROVE usage_for(w) = SumOver(Demand, OnWorker(w))
  BY DEF usage_for, SumOver

LEMMA OnWorkerIsFinite ==
  ASSUME NEW w
  PROVE  OnWorker(w) \in SUBSET Containers /\ IsFiniteSet(OnWorker(w))
<1>1. OnWorker(w) \subseteq Containers
  BY DEF OnWorker
<1> QED
  BY <1>1, NamesAssumption, FS_Subset

LEMMA UsageType == ASSUME NEW w PROVE usage_for(w) \in Nat
<1>1. \A c \in Containers : Demand[c] \in Nat
  BY AmountsAssumption
<1>2. SumOver(Demand, OnWorker(w)) \in Nat
  BY <1>1, OnWorkerIsFinite, NamesAssumption, SumGrows
<1> QED
  BY <1>2, UsageIsASum

LEMMA SchedStateType ==
  ASSUME NEW pc \in {"idle", "containers", "placing", "put"}, NEW todo \in SUBSET Containers,
         NEW used \in [Workers -> Nat], NEW ready \in SUBSET Workers,
         NEW p \in Put \cup {NoRow}
  PROVE  SchedAt(pc, todo, used, ready, p) \in SchedStates
  BY DEF SchedAt, SchedStates

LEMMA IdleType == SchedIdle \in SchedStates
  BY SchedStateType DEF SchedIdle, Unused

LEMMA CountingType ==
  ASSUME SchedTyped, NEW c \in Containers, NEW w \in Workers \cup {NoWorker}
  PROVE  plan_bindings(c, w) \in [Workers -> Nat]
  BY AmountsAssumption, NamesAreNotZero DEF plan_bindings, SchedTyped, SchedStates

LEMMA SchedulingKeepsType ==
  ASSUME Shape, SchedTyped, Scheduling PROVE SchedTyped'
<1>1. CASE SchedListContainers
  <2>1. pending_containers \in SUBSET Containers
    BY DEF pending_containers
  <2>2. [w \in Workers |-> usage_for(w)] \in [Workers -> Nat]
    BY UsageType
  <2> QED
    BY <1>1, <2>1, <2>2, SchedStateType DEF SchedListContainers, SchedTyped
<1>2. CASE SchedListWorkers
  <2>1. {w \in Workers : worker_ready(w)} \in SUBSET Workers
    OBVIOUS
  <2>2. sched.todo \in SUBSET Containers /\ sched.used \in [Workers -> Nat]
    BY DEF SchedTyped, SchedStates
  <2> QED
    BY <1>2, <2>1, <2>2, SchedStateType, IdleType DEF SchedListWorkers, SchedTyped
<1>3. CASE SchedGet
  <2>1. PICK c \in Containers, w \in Workers \cup {NoWorker} : Outcome(c, w)
    BY <1>3 DEF SchedGet, PickedFor
  <2>2. sched.todo \ {c} \in SUBSET Containers /\ sched.ready \in SUBSET Workers
    BY DEF SchedTyped, SchedStates
  <2>3. plan_bindings(c, w) \in [Workers -> Nat]
    BY CountingType
  <2>4. ASSUME NEW r \in Row PROVE [c |-> c, row |-> r, to |-> w] \in Put
    BY DEF Put
  <2>5. container[c] # NoRow => /\ [container[c] EXCEPT !.reason = "Unschedulable"] \in Row
                                /\ w # NoWorker => Bound(container[c], w) \in Row
    <3> SUFFICES ASSUME container[c] # NoRow
                 PROVE  /\ [container[c] EXCEPT !.reason = "Unschedulable"] \in Row
                        /\ w # NoWorker => Bound(container[c], w) \in Row
      OBVIOUS
    <3>1. container[c] \in Agreeing
      BY DEF Shape, Good
    <3>2. [container[c] EXCEPT !.reason = "Unschedulable"] \in Agreeing
      BY <3>1, ReasonAgrees DEF ReasonToken
    <3>3. w # NoWorker => Bound(container[c], w) \in Agreeing
      BY <3>1, MoveAgrees DEF Bound, Phase, ReasonToken
    <3> QED
      BY <3>2, <3>3 DEF Agreeing
  <2> QED
    BY <2>1, <2>2, <2>3, <2>4, <2>5, SchedStateType, IdleType DEF Outcome, SchedTyped
<1>4. CASE SchedPut
  <2>1. sched.todo \in SUBSET Containers /\ sched.used \in [Workers -> Nat]
          /\ sched.ready \in SUBSET Workers
    BY DEF SchedTyped, SchedStates
  <2> QED
    BY <1>4, <2>1, SchedStateType, IdleType DEF SchedPut, SchedTyped
<1> QED
  BY <1>1, <1>2, <1>3, <1>4 DEF Scheduling

LEMMA NextKeepsType ==
  ASSUME Shape, SchedTyped, [Next]_vars PROVE SchedTyped'
<1>1. CASE UNCHANGED sched
  BY <1>1 DEF SchedTyped
<1>2. CASE Restart
  BY <1>2, IdleType DEF Restart, SchedTyped
<1> QED
  BY <1>1, <1>2, SchedulingKeepsType
  DEF Next, Request, create, set_desired_state, delete, replace_status, replace, Finish,
      NotFound, delete_worker, Daemon, register, heartbeat, Die, run_once, Tick, Lifecycle,
      LcLeases, LcWorkers, LcFlip, LcContainers, LcEvict, vars

LEMMA SchedTypeHolds == Spec => []SchedTyped
<1>1. Init => SchedTyped
  BY IdleType DEF Init, SchedTyped
<1> QED
  BY <1>1, ShapeHolds, NextKeepsType, PTL DEF Spec

\* TypeOK: every row, every put under way and every pass stays within its type,
\* for any number of containers and whatever the clients ask.
THEOREM TypeCorrect == Spec => []TypeOK
<1>1. Shape /\ SchedTyped => TypeOK
  <2> SUFFICES ASSUME Shape, SchedTyped PROVE TypeOK
    OBVIOUS
  <2>1. Good \subseteq Row \cup {NoRow}
    BY DEF Good, Agreeing
  <2>2. GoodCall \subseteq Call
    BY <2>1 DEF GoodCall, Call
  <2>3. Reported \subseteq [c : Containers, phase : Phase \cup {"clear"}, reason : ReasonToken]
    BY DEF Reported
  <2>4. container \in [Containers -> Row \cup {NoRow}] /\ handler \in [Handlers -> Call \cup {NoRow}]
    BY <2>1, <2>2 DEF Shape
  <2>5. report \in [Workers -> [c : Containers, phase : Phase \cup {"clear"}, reason : ReasonToken]
                                 \cup {NoRow}]
    BY <2>3 DEF Shape
  <2>6. lc \in [pc : {"idle", "leases", "flip", "evict"}, fresh : SUBSET Workers,
                flips : SUBSET Workers, evictable : SUBSET Workers,
                clones : [Containers -> Row \cup {NoRow}]]
    BY <2>1 DEF Shape
  <2> QED
    BY <2>4, <2>5, <2>6 DEF TypeOK, Shape, SchedTyped, SchedStates
<1> QED
  BY <1>1, ShapeHolds, SchedTypeHolds, PTL

------------------------------------------------------------------------------
(* A pass evicts only from workers that are gone for good, if a worker that  *)
(* runs renews in time and one that died stays dead.                         *)

Heard(w) == leaseAge[w] # NoRow
Gone(w) == ~up[w] /\ Heard(w)
Judged(w) == worker[w] # NoRow /\ worker[w].ready # "Unset"

\* A lease runs out only when its worker is gone, and what the pass holds against
\* a worker it holds against one that is gone.  The fourth conjunct is why lists
\* taken one after the other do no harm: a worker that the first list misses and
\* the second finds judged has been heard of before, so its lease had run out.
Verdict ==
  /\ \A w \in Workers : up[w] /\ Heard(w) => leaseAge[w] <= LeaseDuration
  /\ \A w \in Workers : Judged(w) => Heard(w)
  /\ \A w \in lc.fresh \cup lc.flips : Heard(w)
  /\ lc.pc = "leases" => \A w \in Workers \ lc.fresh : Judged(w) => Gone(w)
  /\ \A w \in lc.evictable : Gone(w)
  /\ \A c \in Containers :
       lc.clones[c] # NoRow => lc.clones[c].node \in Workers /\ Gone(lc.clones[c].node)

LEMMA InitVerdict == Init => Verdict
  BY NoRowAssumption
  DEF Init, Verdict, Heard, Gone, Judged, LcIdle, LcAt, NoRows

\* Steps that leave the passes, the workers and the leases alone.
LEMMA OthersKeepVerdict ==
  ASSUME Verdict, UNCHANGED <<worker, leaseAge, up, lc>> PROVE Verdict'
  BY DEF Verdict, Heard, Gone, Judged

LEMMA RequestKeepsVerdict ==
  ASSUME Shape, Verdict, Request PROVE Verdict'
<1>1. CASE UNCHANGED <<worker, leaseAge, up, lc>>
  BY <1>1, OthersKeepVerdict
<1>2. ASSUME NEW w \in Workers, delete_worker(w) PROVE Verdict'
  BY <1>2 DEF delete_worker, Shape, Verdict, Heard, Gone, Judged
<1> QED
  BY <1>1, <1>2
  DEF Request, create, set_desired_state, delete, replace_status, replace, Finish, NotFound,
      rows, nodes

LEMMA DaemonKeepsVerdict ==
  ASSUME Returning = {}, Shape, Verdict, Daemon PROVE Verdict'
<1>1. CASE UNCHANGED <<worker, leaseAge, up, lc>>
  BY <1>1, OthersKeepVerdict
<1>2. ASSUME NEW w \in Workers, register(w) PROVE Verdict'
  <2>1. leaseAge[w] = NoRow /\ worker[w] = NoRow /\ ~Judged(w)'
    BY <1>2 DEF register, Judged, Shape
  <2>2. \A v \in Workers : Gone(v) => Gone(v)'
    BY <1>2, <2>1 DEF register, Gone, Heard, Shape
  <2>3. \A v \in Workers : v # w => Judged(v)' = Judged(v)
    BY <1>2 DEF register, Judged, Shape
  <2>4. lc' = lc /\ leaseAge' = leaseAge /\ \A v \in Workers : v # w => up'[v] = up[v]
    BY <1>2 DEF register, Shape
  <2>5. lc.fresh \subseteq Workers /\ lc.flips \subseteq Workers /\ lc.evictable \subseteq Workers
    BY DEF Shape
  <2> QED BY <2>1, <2>2, <2>3, <2>4, <2>5 DEF Verdict, Heard
<1>3. ASSUME NEW w \in Workers, heartbeat(w) PROVE Verdict'
  <2>1. 0 # NoRow
    BY NoRowAssumption
  <2>2. \A v \in Workers : (Heard(v) => Heard(v)') /\ (Gone(v) => Gone(v)') /\ Judged(v)' = Judged(v)
    BY <1>3, <2>1 DEF heartbeat, Heard, Gone, Judged, Shape, nodes
  <2>3. \A v \in Workers : up'[v] /\ Heard(v)' => leaseAge'[v] <= LeaseDuration
    BY <1>3, TimesAssumption DEF heartbeat, Heard, Verdict, Shape, nodes
  <2>4. lc' = lc
    BY <1>3 DEF heartbeat
  <2>5. lc.fresh \subseteq Workers /\ lc.flips \subseteq Workers /\ lc.evictable \subseteq Workers
    BY DEF Shape
  <2> QED BY <2>2, <2>3, <2>4, <2>5 DEF Verdict
<1>4. ASSUME NEW w \in Workers, Die(w) PROVE Verdict'
  BY <1>4 DEF Die, rows, Shape, Verdict, Heard, Gone, Judged
<1> QED
  BY <1>1, <1>2, <1>3, <1>4 DEF Daemon, run_once, rows

LEMMA TickKeepsVerdict ==
  ASSUME Prompt, Shape, Verdict, Tick PROVE Verdict'
<1>1. \A w \in Workers : Heard(w)' = Heard(w)
  BY NoRowAssumption, TimesAssumption DEF Tick, Heard, Shape, Later
<1>2. \A w \in Workers : up'[w] /\ Heard(w)' => leaseAge'[w] <= LeaseDuration
  <2> SUFFICES ASSUME NEW w \in Workers, up'[w], Heard(w)' PROVE leaseAge'[w] <= LeaseDuration
    OBVIOUS
  <2>1. up[w] /\ Heard(w)
    BY <1>1 DEF Tick, nodes
  <2>2. leaseAge[w] # LeaseDuration /\ leaseAge[w] <= LeaseDuration
    BY <2>1 DEF Tick, NobodyLate, Verdict
  <2>3. leaseAge[w] \in Nat /\ LeaseDuration \in Nat
    BY <2>1, TimesAssumption DEF Heard, Shape
  <2>4. leaseAge'[w] = leaseAge[w] + 1
    BY <2>1, <2>2, <2>3 DEF Tick, Heard, Later
  <2> QED BY <2>2, <2>3, <2>4
<1>3. \A w \in Workers : Judged(w)' => Judged(w)
  <2> SUFFICES ASSUME NEW w \in Workers, Judged(w)' PROVE Judged(w)
    OBVIOUS
  <2>1. worker'[w] = IF worker[w] = NoRow THEN NoRow
                     ELSE [worker[w] EXCEPT !.age = Later(@, EvictionTimeout)]
    BY DEF Tick
  <2>2. worker[w] # NoRow /\ worker[w] \in WorkerRow
    BY <2>1 DEF Judged, Shape
  <2>3. worker'[w].ready = worker[w].ready
    BY <2>1, <2>2 DEF WorkerRow
  <2> QED BY <2>2, <2>3 DEF Judged
<1>4. lc' = lc /\ up' = up
  BY DEF Tick, nodes
<1>5. lc.fresh \subseteq Workers /\ lc.flips \subseteq Workers /\ lc.evictable \subseteq Workers
  BY DEF Shape
<1> QED BY <1>1, <1>2, <1>3, <1>4, <1>5 DEF Verdict, Gone

LEMMA RestartKeepsVerdict ==
  ASSUME Verdict, Restart PROVE Verdict'
  BY DEF Restart, Verdict, Heard, Gone, Judged, LcIdle, LcAt, NoRows, rows, nodes

LEMMA LifecycleKeepsVerdict ==
  ASSUME Shape, Verdict, Lifecycle PROVE Verdict'
<1>1. CASE LcLeases
  <2>1. \A w \in Workers : has_fresh_lease(w) => Heard(w)
    BY DEF has_fresh_lease, Heard
  <2>2. \A w \in Workers : ~has_fresh_lease(w) /\ Judged(w) => Gone(w)
    BY DEF has_fresh_lease, Heard, Gone, Verdict
  <2>3. lc'.fresh = {w \in Workers : has_fresh_lease(w)} /\ lc'.flips = {} /\ lc'.evictable = {}
          /\ lc'.clones = NoRows
    BY <1>1 DEF LcLeases, LcAt
  <2>4. UNCHANGED <<worker, leaseAge, up>>
    BY <1>1 DEF LcLeases, rows, nodes
  <2> QED BY <2>1, <2>2, <2>3, <2>4 DEF Verdict, Heard, Gone, Judged, NoRows
<1>2. CASE LcWorkers
  <2>1. \A w \in Workers : Evictable(w) => Gone(w)
    BY <1>2 DEF LcWorkers, Evictable, Verdict, Judged
  <2>2. \A w \in Workers : worker[w] # NoRow /\ (w \in lc.fresh) # worker_ready(w) => Heard(w)
    BY DEF Verdict, worker_ready, Judged
  <2>3. lc'.pc = "flip" /\ lc'.fresh = lc.fresh /\ lc'.evictable = {w \in Workers : Evictable(w)}
          /\ lc'.flips = {w \in Workers : worker[w] # NoRow /\ (w \in lc.fresh) # worker_ready(w)}
          /\ lc'.clones = NoRows
    BY <1>2 DEF LcWorkers, LcAt
  <2>4. UNCHANGED <<worker, leaseAge, up>>
    BY <1>2 DEF LcWorkers, rows, nodes
  <2> QED BY <2>1, <2>2, <2>3, <2>4 DEF Verdict, Heard, Gone, Judged, NoRows
<1>3. ASSUME NEW w \in Workers, LcFlip(w) PROVE Verdict'
  <2>1. Heard(w)
    BY <1>3 DEF LcFlip, First, Verdict
  <2>2. \A v \in Workers : Judged(v)' => Heard(v)
    BY <1>3, <2>1 DEF LcFlip, Judged, Verdict, Shape
  <2>3. lc'.pc = "flip" /\ lc'.fresh = lc.fresh /\ lc'.flips = lc.flips \ {w}
          /\ lc'.evictable = lc.evictable /\ lc'.clones = lc.clones
    BY <1>3 DEF LcFlip, Shape
  <2>4. UNCHANGED <<leaseAge, up>>
    BY <1>3 DEF LcFlip, nodes
  <2> QED BY <2>2, <2>3, <2>4 DEF Verdict, Heard, Gone
<1>4. CASE LcContainers
  <2>1. \A w \in lc.evictable : \A c \in OnWorker(w) : container[c] # NoRow /\ container[c].node = w
    BY DEF OnWorker
  <2>2. lc.evictable \subseteq Workers
    BY DEF Shape
  <2>3. \A c \in Containers : lc'.clones[c] # NoRow =>
          lc'.clones[c].node \in Workers /\ Gone(lc'.clones[c].node)
    BY <1>4, <2>1, <2>2 DEF LcContainers, LcIdle, LcAt, NoRows, Verdict
  <2>4. lc'.fresh = {} /\ lc'.flips = {} /\ lc'.evictable = {} /\ lc'.pc # "leases"
    BY <1>4 DEF LcContainers, LcIdle, LcAt
  <2>5. UNCHANGED <<worker, leaseAge, up>>
    BY <1>4 DEF LcContainers, rows, nodes
  <2> QED BY <2>3, <2>4, <2>5 DEF Verdict, Heard, Gone, Judged
<1>5. ASSUME NEW c \in Containers, LcEvict(c) PROVE Verdict'
  <2>1. lc' = LcIdle \/ lc' = [lc EXCEPT !.clones[c] = NoRow]
    BY <1>5 DEF LcEvict
  <2>2. \A d \in Containers : lc'.clones[d] \in {lc.clones[d], NoRow}
    BY <2>1 DEF LcIdle, LcAt, NoRows, Shape
  <2>3. lc'.fresh \subseteq lc.fresh /\ lc'.flips \subseteq lc.flips
          /\ lc'.evictable \subseteq lc.evictable /\ lc'.pc # "leases"
    BY <1>5, <2>1 DEF LcEvict, LcIdle, LcAt, Shape
  <2>4. UNCHANGED <<worker, leaseAge, up>>
    BY <1>5 DEF LcEvict, nodes
  <2> QED BY <2>2, <2>3, <2>4 DEF Verdict, Heard, Gone, Judged
<1> QED BY <1>1, <1>2, <1>3, <1>4, <1>5 DEF Lifecycle

LEMMA NextKeepsVerdict ==
  ASSUME Prompt, Returning = {}, Shape, Verdict, [Next]_vars PROVE Verdict'
<1>1. CASE UNCHANGED vars
  BY <1>1, OthersKeepVerdict DEF vars
<1>2. CASE Scheduling
  BY <1>2, OthersKeepVerdict
  DEF Scheduling, SchedListContainers, SchedListWorkers, SchedGet, SchedPut, rows, nodes
<1> QED
  BY <1>1, <1>2, RequestKeepsVerdict, DaemonKeepsVerdict, TickKeepsVerdict,
     RestartKeepsVerdict, LifecycleKeepsVerdict DEF Next

\* LiveWorkersKeepContainers: where no worker renews late and none comes back
\* from a crash, an eviction always finds its worker dead, whatever the two
\* controllers, the handlers and a restart of the server do in between.
THEOREM LiveWorkersAreSpared ==
  ASSUME Prompt, Returning = {} PROVE Spec => LiveWorkersKeepContainers
<1>1. Shape /\ Verdict /\ [Next]_vars => Verdict'
  BY NextKeepsVerdict
<1>2. Verdict => \A c \in Containers :
        LcEvict(c) => lc.clones[c].node = NoWorker \/ ~up[lc.clones[c].node]
  BY DEF Verdict, LcEvict, Gone
<1> QED
  BY InitVerdict, ShapeHolds, <1>1, <1>2, PTL DEF Spec, LiveWorkersKeepContainers

------------------------------------------------------------------------------
(* The count a pass begins with is never less than what is in use.           *)

\* The picked worker, if any, is one that admits the container: of the admitted
\* ones, which all score the same, it is the first.
LEMMA PickFits ==
  ASSUME SchedTyped, NEW c \in Containers, NEW w \in PickedFor(c), w # NoWorker
  PROVE  w \in Workers /\ (Demand[c] = 0 \/ sched.used[w] + Demand[c] <= Capacity[w])
<1> DEFINE req == container_request(c)
           views == [v \in Workers |-> build_worker_view(v)]
           allocated == [v \in Workers |-> [cpu |-> sched.used[v], mem |-> 0]]
           S == Admitted(req, views, allocated)
           Beats(j, k) == \/ score(req, views[k]) < score(req, views[j])
                          \/ score(req, views[k]) = score(req, views[j]) /\ j <= k
<1>1. w \in Workers /\ w = IF S = {} THEN 0 ELSE CHOOSE j \in S : \A k \in S : Beats(j, k)
  BY DEF PickedFor, schedule
<1>2. S \subseteq Workers /\ \A j \in S : admits(req, views[j], j, allocated[j])
  BY DEF Admitted
<1>3. \A j, k \in Workers : score(req, views[j]) = score(req, views[k])
  BY DEF score, untolerated, container_request, build_worker_view
<1>4. w \in S
  <2>1. S # {}
    BY <1>1 DEF NoWorker
  <2>2. S \in SUBSET Nat
    BY <1>2, NamesAssumption
  <2>3. PICK j \in S : \A k \in S : j <= k
    BY <2>1, <2>2, LeastNumber
  <2>4. \A k \in S : Beats(j, k)
    BY <1>2, <1>3, <2>3
  <2> HIDE DEF S, Beats
  <2> QED
    BY <1>1, <2>1, <2>3, <2>4
<1>5. checks(req, views[w], w, allocated[w])[3][2]
  BY <1>2, <1>4 DEF admits
<1>6. free_cpu(views[w], allocated[w]) >= Demand[c]
  BY <1>5 DEF checks, container_request
<1>7. views[w].cpu = Capacity[w] /\ allocated[w].cpu = sched.used[w]
  BY <1>1 DEF build_worker_view
<1>8. Demand[c] \in Nat /\ Capacity[w] \in Nat /\ sched.used[w] \in Nat
  BY <1>1, AmountsAssumption DEF SchedTyped, SchedStates
<1>9. saturating_sub(Capacity[w], sched.used[w]) >= Demand[c]
  BY <1>6, <1>7 DEF free_cpu
<1> HIDE DEF req, views, allocated, S, Beats
<1> QED
  BY <1>1, <1>8, <1>9 DEF saturating_sub

------------------------------------------------------------------------------
(* Only a pass gives a container to a worker; what others put is what the    *)
(* worker had, or counts as put back out of date.                            *)

Held(c) == container[c] # NoRow /\ holds_resources(container[c])

Settled == {"none", "ActionFailed"}

\* What the pass still has to place is nobody's, and so is what it is about to report.
PassIsFresh ==
  /\ sched.pc # "idle" => \A c \in sched.todo : Held(c) => c \in restored
  /\ sched.pc = "put" =>
       /\ sched.put.c \notin sched.todo
       /\ IF sched.put.to # NoWorker
          THEN sched.put.row.node = sched.put.to /\ sched.put.row.reason = "none"
          ELSE Held(sched.put.c) => sched.put.c \in restored

\* No placement is waited for of a container that is somebody's, unless it was put back
\* in the meantime; a worker's requests and a placement leave a reason of their own.
Fresh ==
  /\ NoStaleReason
  /\ \A w \in Workers : report[w] # NoRow => report[w].reason \in Settled
  /\ \A h \in Handlers : handler[h] # NoRow /\ handler[h].from # NoWorker /\ handler[h].row # NoRow
                           => handler[h].row.node = handler[h].from /\ handler[h].row.reason \in Settled
  /\ PassIsFresh

\* c is placed in this step.
Placed(c) == SchedPut /\ c = sched.put.c /\ sched.put.to # NoWorker

\* c's row is left as it is, for what is asked here.
Same(c) ==
  /\ container[c] # NoRow /\ container'[c] # NoRow
  /\ container'[c].phase = container[c].phase
  /\ container'[c].node = container[c].node
  /\ container'[c].reason = container[c].reason

LEMMA FinishKeeps ==
  ASSUME Shape, Fresh, NEW h \in Handlers, Finish(h),
         NEW c \in Containers, Held(c)', c \notin restored'
  PROVE  /\ Held(c) /\ c \notin restored /\ container'[c].node = container[c].node
         /\ Same(c) \/ container'[c].reason \in Settled
<1> DEFINE call == handler[h]
           row == call.row
<1>1. call \in GoodCall /\ container' = [container EXCEPT ![call.c] = row]
        /\ restored' = Restored(call.c, row, UpToDate(call))
  BY DEF Finish, Shape
<1>2. CASE c # call.c
  <2>1. container'[c] = container[c] /\ c \notin restored
    BY <1>1, <1>2 DEF Shape, Restored
  <2> QED
    BY <2>1 DEF Held, Same
<1>3. CASE c = call.c
  <2>1. container'[c] = row
    BY <1>1, <1>3 DEF Shape
  <2>2. row # NoRow /\ holds_resources(row)
    BY <2>1 DEF Held
  <2>3. UpToDate(call) /\ c \notin restored
    BY <1>1, <1>3, <2>2 DEF Restored
  <2>4. CASE call.from # NoWorker
    <3>1. HeldBy(c, call.from)
      BY <1>3, <2>3, <2>4 DEF UpToDate
    <3>2. row.node = call.from /\ row.reason \in Settled
      BY <2>2, <2>4, <1>1 DEF Fresh, Finish
    <3> QED
      BY <2>1, <2>3, <3>1, <3>2 DEF HeldBy, Held
  <2>5. CASE call.from = NoWorker
    <3>1. container[c] \in Agreeing
      BY <1>3, <2>3 DEF UpToDate, Shape, Good
    <3>2. row = [container[c] EXCEPT !.desired = row.desired, !.deleting = row.deleting]
      BY <1>3, <2>3, <2>5 DEF UpToDate
    <3>3. row.phase = container[c].phase /\ row.node = container[c].node
            /\ row.reason = container[c].reason
      BY <3>1, <3>2 DEF Agreeing, Row
    <3>4. container[c] # NoRow
      BY <3>1, NoRowDoesNotAgree
    <3> QED
      BY <2>1, <2>2, <2>3, <3>3, <3>4 DEF Held, Same, holds_resources
  <2> QED
    BY <2>4, <2>5
<1> QED
  BY <1>2, <1>3

LEMMA SchedPutKeeps ==
  ASSUME Shape, SchedPut, NEW c \in Containers, Held(c)', c \notin restored', ~Placed(c)
  PROVE  /\ Held(c) /\ c \notin restored /\ container'[c].node = container[c].node
         /\ Same(c) \/ c = sched.put.c
<1> DEFINE d == sched.put.c
           row == sched.put.row
<1>1. sched.put \in GoodPut /\ container' = [container EXCEPT ![d] = row]
  BY DEF SchedPut, Shape, SchedShape
<1>2. CASE c # d
  <2>1. container'[c] = container[c] /\ c \notin restored
    BY <1>1, <1>2 DEF Shape, Restored, SchedPut
  <2> QED
    BY <2>1 DEF Held, Same
<1>3. CASE c = d
  <2>1. container'[c] = row /\ sched.put.to = NoWorker
    BY <1>1, <1>3 DEF Shape, Placed
  <2>2. row # NoRow /\ holds_resources(row)
    BY <2>1 DEF Held
  <2>3. container[c] # NoRow /\ row = [container[c] EXCEPT !.reason = "Unschedulable"] /\ c \notin restored
    BY <1>3, <2>1, <2>2 DEF SchedPut, Restored
  <2>4. container[c] \in Agreeing
    BY <2>3 DEF Shape, Good
  <2>5. row.phase = container[c].phase /\ row.node = container[c].node
    BY <2>3, <2>4 DEF Agreeing, Row
  <2> QED
    BY <1>3, <2>1, <2>2, <2>3, <2>5 DEF Held, holds_resources
<1> QED
  BY <1>2, <1>3

\* An eviction leaves a row that holds nothing.
LEMMA EvictedHoldsNothing ==
  ASSUME NEW c, NEW r \in Agreeing PROVE ~holds_resources(Evicted(c, r))
BY DEF Evicted, Agreeing, Row, holds_resources

\* What is held after a step and was not placed in it was held before, by the same worker.
LEMMA WhatIsKept ==
  ASSUME Shape, Fresh, [Next]_vars, NEW c \in Containers, Held(c)', c \notin restored', ~Placed(c)
  PROVE  /\ Held(c) /\ c \notin restored /\ container'[c].node = container[c].node
         /\ Same(c) \/ container'[c].reason \in Settled \/ (SchedPut /\ c = sched.put.c)
<1>1. CASE UNCHANGED <<container, restored>>
  BY <1>1 DEF Held, Same
<1>2. ASSUME NEW d \in Containers, create(d)
      PROVE  Held(c) /\ c \notin restored /\ Same(c)
  <2>1. c # d
    BY <1>2 DEF create, Shape, Submitted, Held, holds_resources
  <2>2. container'[c] = container[c] /\ c \notin restored
    BY <1>2, <2>1 DEF create, Shape
  <2> QED
    BY <2>2 DEF Held, Same
<1>3. ASSUME NEW h \in Handlers, NEW w \in Workers, replace(h, w)
      PROVE  Held(c) /\ c \notin restored /\ Same(c)
  <2>1. restored' = restored
    BY <1>3 DEF replace
  <2>2. \/ container' = container
        \/ /\ container[report[w].c] # NoRow
           /\ container' = [container EXCEPT ![report[w].c].finalizer = FALSE]
    BY <1>3 DEF replace
  <2>3. container[c] # NoRow => container[c] \in Row
    BY DEF Shape, Good, Agreeing
  <2>4. Same(c)
    BY <2>2, <2>3 DEF Same, Held, Shape, Row
  <2> QED
    BY <2>1, <2>4 DEF Held, Same, holds_resources
<1>4. ASSUME NEW d \in Containers, LcEvict(d)
      PROVE  Held(c) /\ c \notin restored /\ Same(c)
  <2>1. lc.clones[d] \in Agreeing
    BY <1>4 DEF LcEvict, Shape, Good
  <2>2. c # d
    BY <1>4, <2>1, EvictedHoldsNothing DEF LcEvict, Shape, Held
  <2>3. container'[c] = container[c] /\ c \notin restored
    BY <1>4, <2>2 DEF LcEvict, Shape
  <2> QED
    BY <2>3 DEF Held, Same
<1>5. ASSUME NEW h \in Handlers, Finish(h)
      PROVE  /\ Held(c) /\ c \notin restored /\ container'[c].node = container[c].node
             /\ Same(c) \/ container'[c].reason \in Settled
  BY <1>5, FinishKeeps
<1>6. CASE SchedPut
  BY <1>6, SchedPutKeeps
<1>7. CASE UNCHANGED vars \/ Tick \/ Restart \/ Daemon
  BY <1>1, <1>7 DEF vars, Tick, Restart, Daemon, register, heartbeat, Die, run_once, rows
<1>8. CASE Scheduling
  BY <1>1, <1>6, <1>8 DEF Scheduling, SchedListContainers, SchedListWorkers, SchedGet, rows
<1>9. CASE Lifecycle
  BY <1>1, <1>4, <1>9 DEF Lifecycle, LcLeases, LcWorkers, LcFlip, LcContainers, rows, Same
<1>10. CASE Request
  BY <1>1, <1>2, <1>3, <1>5, <1>10
  DEF Request, set_desired_state, delete, replace_status, NotFound, delete_worker, rows, Same
<1> QED
  BY <1>7, <1>8, <1>9, <1>10 DEF Next

\* What a worker reports of a container it has listed.
LEMMA WhatIsReported ==
  ASSUME NEW c, NEW p \in Reports(c) PROVE p.reason \in Settled
BY DEF Reports, Settled

LEMMA ReportsFresh ==
  ASSUME Shape, Fresh, [Next]_vars, NEW w \in Workers, report'[w] # NoRow
  PROVE  report'[w].reason \in Settled
<1>1. ASSUME NEW v \in Workers, NEW c \in Containers, run_once(v, c)
      PROVE  report'[w].reason \in Settled
  <2>1. PICK p \in Reports(c) : report' = [report EXCEPT ![v] = p]
    BY <1>1 DEF run_once
  <2> QED
    BY <2>1, WhatIsReported DEF Fresh, Shape
<1>2. CASE \E v \in Workers : report' = [report EXCEPT ![v] = NoRow]
  BY <1>2 DEF Fresh, Shape
<1>3. CASE UNCHANGED report
  BY <1>3 DEF Fresh
<1> QED
  BY <1>1, <1>2, <1>3
  DEF Next, vars, Tick, Restart, Daemon, register, heartbeat, Die, nodes, Request, create,
      set_desired_state, delete, replace_status, replace, NotFound, Finish, delete_worker,
      Scheduling, SchedListContainers, SchedListWorkers, SchedGet, SchedPut,
      Lifecycle, LcLeases, LcWorkers, LcFlip, LcContainers, LcEvict

LEMMA CallsFresh ==
  ASSUME Shape, Fresh, [Next]_vars,
         NEW h \in Handlers, handler'[h] # NoRow, handler'[h].from # NoWorker, handler'[h].row # NoRow
  PROVE  handler'[h].row.node = handler'[h].from /\ handler'[h].row.reason \in Settled
<1> DEFINE Good1(call) == call.from # NoWorker /\ call.row # NoRow
                            => call.row.node = call.from /\ call.row.reason \in Settled
           Goal == Good1(handler'[h])
<1> SUFFICES Goal
  OBVIOUS
<1>1. ASSUME NEW g \in Handlers, NEW c, NEW row, NEW from, Take(g, c, row, from),
             Good1([c |-> c, row |-> row, from |-> from])
      PROVE  Goal
  BY <1>1 DEF Take, Fresh, Shape
<1>2. ASSUME NEW g \in Handlers, NEW w \in Workers, replace_status(g, w) PROVE Goal
  <2> DEFINE c == report[w].c
             row == WithStatus(container[c], w, report[w].phase, report[w].reason)
  <2>1. container[c] \in Row
    BY <1>2 DEF replace_status, Shape, Reported, Good, Agreeing
  <2>2. row.node = w /\ row.reason = report[w].reason
    BY <2>1 DEF WithStatus, Row
  <2>3. Take(g, c, row, w) /\ report[w].reason \in Settled
    BY <1>2 DEF replace_status, Fresh
  <2> HIDE DEF row, c
  <2> QED
    BY <1>1, <2>2, <2>3
<1>3. ASSUME NEW g \in Handlers, NEW w \in Workers, replace(g, w) PROVE Goal
  <2>1. Take(g, report[w].c, NoRow, w) \/ UNCHANGED handler
    BY <1>3 DEF replace
  <2>2. CASE Take(g, report[w].c, NoRow, w)
    BY <1>1, <2>2
  <2>3. CASE UNCHANGED handler
    BY <2>3 DEF Fresh
  <2> QED
    BY <2>1, <2>2, <2>3
<1>4. ASSUME NEW g \in Handlers, NEW c \in Containers, NEW row, Take(g, c, row, NoWorker)
      PROVE  Goal
  BY <1>1, <1>4
<1>5. ASSUME NEW g \in Handlers, Finish(g) PROVE Goal
  BY <1>5 DEF Finish, Fresh, Shape
<1>6. CASE UNCHANGED handler
  BY <1>6 DEF Fresh
<1>7. CASE Restart
  BY <1>7 DEF Restart
<1> HIDE DEF Goal
<1>8. ASSUME NEW g \in Handlers, NEW c \in Containers, NEW d, set_desired_state(g, c, d) \/ delete(g, c)
      PROVE  Goal
  <2>1. \E row : Take(g, c, row, NoWorker)
    BY <1>8 DEF set_desired_state, delete
  <2> QED
    BY <1>4, <2>1
<1>9. CASE Request
  <2>1. CASE \E c \in Containers : create(c)
    BY <1>6, <2>1 DEF create
  <2>2. CASE \E w \in Workers : NotFound(w) \/ delete_worker(w)
    BY <1>6, <2>2 DEF NotFound, delete_worker
  <2>3. \/ \E c \in Containers : create(c)
        \/ \E g \in Handlers, c \in Containers : \E d : set_desired_state(g, c, d) \/ delete(g, c)
        \/ \E g \in Handlers, w \in Workers : replace_status(g, w) \/ replace(g, w)
        \/ \E g \in Handlers : Finish(g)
        \/ \E w \in Workers : NotFound(w) \/ delete_worker(w)
    BY <1>9 DEF Request
  <2> QED
    BY <1>2, <1>3, <1>5, <1>8, <2>1, <2>2, <2>3
<1>10. UNCHANGED handler \/ Restart \/ Request
  BY DEF Next, vars, rows, nodes, Tick, Daemon, register, heartbeat, Die, run_once,
      Scheduling, SchedListContainers, SchedListWorkers, SchedGet, SchedPut,
      Lifecycle, LcLeases, LcWorkers, LcFlip, LcContainers, LcEvict
<1> QED
  BY <1>6, <1>7, <1>9, <1>10

\* What SchedGet leaves of a pass.
Decides(c, w) ==
  LET rest == sched.todo \ {c}
      used == plan_bindings(c, w)
  IN \/ sched' = SchedIdle
     \/ sched' = SchedAt("placing", rest, used, sched.ready, NoRow)
     \/ \E r : /\ sched' = SchedAt("put", rest, used, sched.ready, [c |-> c, row |-> r, to |-> w])
               /\ w # NoWorker => r.node = w /\ r.reason = "none"

LEMMA WhatIsDecided ==
  ASSUME Shape, SchedGet
  PROVE  \E c \in Containers : c \in sched.todo /\ \E w \in PickedFor(c) : Decides(c, w)
<1>1. PICK c \in Containers : First(c, sched.todo) /\ \E w \in PickedFor(c) : Outcome(c, w)
  BY DEF SchedGet
<1>2. PICK w \in PickedFor(c) : Outcome(c, w)
  BY <1>1
<1>3. ASSUME container[c] # NoRow
      PROVE  Bound(container[c], w).node = w /\ Bound(container[c], w).reason = "none"
  BY <1>3 DEF Bound, Shape, Good, Agreeing, Row
<1>4. Decides(c, w)
  BY <1>2, <1>3 DEF Outcome, Decides
<1> QED
  BY <1>1, <1>4 DEF First

\* A pass goes on with what it had to do, or starts with what is nobody's.
LEMMA PassFresh ==
  ASSUME Shape, SchedTyped, Fresh, [Next]_vars
  PROVE  PassIsFresh'
<1>1. sched.todo \subseteq Containers /\ (sched.pc = "put" => sched.put.c \in Containers)
  BY DEF SchedTyped, SchedStates, Shape, SchedShape, GoodPut
<1>2. ASSUME sched.pc # "idle", NEW c \in sched.todo, Held(c)' PROVE c \in restored'
  <2> SUFFICES ASSUME c \notin restored' PROVE FALSE
    OBVIOUS
  <2>1. ~Placed(c)
    BY <1>2 DEF Fresh, PassIsFresh, Placed, SchedPut
  <2>2. Held(c) /\ c \notin restored
    BY <1>1, <1>2, <2>1, WhatIsKept
  <2> QED
    BY <1>2, <2>2 DEF Fresh, PassIsFresh
<1>3. ASSUME sched.pc = "put", sched.put.to = NoWorker,
             NEW c \in Containers, c = sched.put.c, Held(c)'
      PROVE  c \in restored'
  <2> SUFFICES ASSUME c \notin restored' PROVE FALSE
    OBVIOUS
  <2>1. Held(c) /\ c \notin restored
    BY <1>3, WhatIsKept DEF Placed
  <2> QED
    BY <1>3, <2>1 DEF Fresh, PassIsFresh
<1>4. CASE sched' = sched
  <2>1. sched'.pc = sched.pc /\ sched'.todo = sched.todo /\ sched'.put = sched.put
    BY <1>4
  <2>2. \A c \in Containers :
          sched.pc = "put" /\ sched.put.to = NoWorker /\ c = sched.put.c /\ Held(c)' => c \in restored'
    BY <1>3
  <2>3. sched.pc # "idle" => \A c \in sched.todo : Held(c)' => c \in restored'
    BY <1>2
  <2> QED
    BY <1>1, <2>1, <2>2, <2>3 DEF Fresh, PassIsFresh, Held
<1>5. CASE sched' = SchedIdle
  BY <1>5 DEF SchedIdle, SchedAt, PassIsFresh
<1>6. CASE SchedListContainers
  <2>1. sched'.todo = pending_containers /\ sched'.pc # "put" /\ container' = container
    BY <1>6 DEF SchedListContainers, SchedAt, rows
  <2> QED
    BY <2>1 DEF pending_containers, Held, holds_resources, PassIsFresh
<1>7. CASE SchedListWorkers \/ SchedPut
  <2>1. sched.pc # "idle" /\ sched'.pc # "put" /\ (sched'.pc # "idle" => sched'.todo = sched.todo)
    BY <1>7 DEF SchedListWorkers, SchedPut, SchedIdle, SchedAt
  <2>2. \A c \in sched.todo : Held(c)' => c \in restored'
    BY <1>2, <2>1
  <2> QED
    BY <2>1, <2>2 DEF PassIsFresh, Held
<1>8. CASE SchedGet
  <2>1. PICK c \in Containers : c \in sched.todo /\ \E w \in PickedFor(c) : Decides(c, w)
    BY <1>8, WhatIsDecided
  <2>2. PICK w \in PickedFor(c) : Decides(c, w)
    BY <2>1
  <2>3. sched.pc # "idle" /\ UNCHANGED <<container, restored>>
    BY <1>8 DEF SchedGet, rows
  <2>4. sched' # SchedIdle => sched'.todo = sched.todo \ {c} /\ (sched'.pc = "put" =>
          /\ sched'.put.c = c /\ sched'.put.to = w
          /\ w # NoWorker => sched'.put.row.node = w /\ sched'.put.row.reason = "none")
    BY <2>2 DEF Decides, SchedAt
  <2>5. \A d \in sched.todo : Held(d)' => d \in restored'
    BY <1>2, <2>3
  <2>6. CASE sched' # SchedIdle
    BY <2>1, <2>4, <2>5, <2>6 DEF PassIsFresh, Held
  <2> QED
    BY <1>5, <2>6
<1> QED
  BY <1>4, <1>5, <1>6, <1>7, <1>8
  DEF Next, vars, Tick, Restart, Daemon, register, heartbeat, Die, run_once, Request, create,
      set_desired_state, delete, replace_status, replace, NotFound, Finish, delete_worker,
      Scheduling, Lifecycle, LcLeases, LcWorkers, LcFlip, LcContainers, LcEvict

LEMMA FreshStep ==
  ASSUME Shape, SchedTyped, Fresh, [Next]_vars PROVE Fresh'
<1>1. ASSUME NEW c \in Containers, c \notin restored', container'[c] # NoRow,
             container'[c].phase = "Scheduled"
      PROVE  container'[c].reason \in Settled
  <2>1. Held(c)'
    BY <1>1 DEF Held, holds_resources
  <2>2. CASE Placed(c)
    <3>1. container'[c] = sched.put.row /\ sched.put.row.reason = "none"
      BY <2>2 DEF Placed, SchedPut, Fresh, PassIsFresh, Shape
    <3> QED
      BY <3>1 DEF Settled
  <2>3. CASE ~Placed(c)
    <3>1. /\ Held(c) /\ c \notin restored
          /\ Same(c) \/ container'[c].reason \in Settled \/ (SchedPut /\ c = sched.put.c)
      BY <1>1, <2>1, <2>3, WhatIsKept
    <3>2. ~(SchedPut /\ c = sched.put.c)
      BY <2>3, <3>1 DEF Placed, SchedPut, Fresh, PassIsFresh
    <3> QED
      BY <1>1, <3>1, <3>2 DEF Same, Fresh, NoStaleReason, Settled
  <2> QED
    BY <2>2, <2>3
<1>2. NoStaleReason'
  BY <1>1 DEF NoStaleReason, Settled
<1>3. \A w \in Workers : report'[w] # NoRow => report'[w].reason \in Settled
  BY ReportsFresh
<1>4. \A h \in Handlers :
        handler'[h] # NoRow /\ handler'[h].from # NoWorker /\ handler'[h].row # NoRow
          => handler'[h].row.node = handler'[h].from /\ handler'[h].row.reason \in Settled
  BY CallsFresh
<1>5. PassIsFresh'
  BY PassFresh
<1> QED
  BY <1>2, <1>3, <1>4, <1>5 DEF Fresh

LEMMA FreshHolds == Spec => []Fresh
<1>1. Init => Fresh
  BY DEF Init, Fresh, PassIsFresh, NoStaleReason, NoRows, SchedIdle, SchedAt
<1>2. Shape /\ SchedTyped /\ Fresh /\ [Next]_vars => Fresh'
  BY FreshStep
<1> QED
  BY <1>1, <1>2, ShapeHolds, SchedTypeHolds, PTL DEF Spec

\* NoStaleReason: whatever clients ask and workers report, and whoever comes back from a
\* crash, a container that a pass has placed does not keep the reason it waited for,
\* unless its row is put back out of date.
THEOREM ReasonsAreFresh == Spec => []NoStaleReason
<1>1. Fresh => NoStaleReason
  BY DEF Fresh
<1> QED
  BY <1>1, FreshHolds, PTL

------------------------------------------------------------------------------
(* What a worker has, and what a pass is about to give it.                   *)

Kept(w) == OnWorker(w) \ restored

Coming(w) ==
  Kept(w) \cup {c \in Containers : sched.pc = "put" /\ sched.put.to = w /\ sched.put.c = c}

\* The sums that can come up, as a function.
Totals == [S \in SUBSET Containers |-> SumOver(Demand, S)]

\* The count of the pass under way is never behind, and never beyond what there is.
Counted ==
  \A w \in Workers :
    /\ Totals[Coming(w)] <= Capacity[w]
    /\ sched.pc # "idle" => Totals[Coming(w)] <= sched.used[w]

LEMMA TotalsGrow ==
  ASSUME NEW S \in SUBSET Containers, NEW R \in SUBSET S
  PROVE  Totals[S] \in Nat /\ Totals[R] \in Nat /\ Totals[R] <= Totals[S]
<1>1. IsFiniteSet(S) /\ \A c \in S : Demand[c] \in Nat
  BY NamesAssumption, AmountsAssumption, FS_Subset
<1>2. /\ SumOver(Demand, S) \in Nat /\ SumOver(Demand, R) \in Nat
      /\ SumOver(Demand, R) <= SumOver(Demand, S)
  BY <1>1, SumGrows
<1> QED
  BY <1>2 DEF Totals

LEMMA TotalsTake ==
  ASSUME NEW S \in SUBSET Containers, NEW c \in Containers
  PROVE  Totals[S \cup {c}] <= Totals[S] + Demand[c]
<1> DEFINE T == S \cup {c}
<1>1. Totals[S] \in Nat /\ Demand[c] \in Nat
  BY TotalsGrow, AmountsAssumption
<1>2. CASE c \in S
  <2>1. T = S
    BY <1>2
  <2> HIDE DEF T
  <2>2. Totals[T] <= Totals[S] + Demand[c]
    BY <1>1, <2>1
  <2> QED
    BY <2>2 DEF T
<1>3. CASE c \notin S
  <2>1. T \in SUBSET Containers /\ T \ {c} = S /\ c \in T
    BY <1>3
  <2>2. IsFiniteSet(T) /\ \A d \in T : Demand[d] \in Int
    <3>1. IsFiniteSet(T)
      BY <2>1, NamesAssumption, FS_Subset
    <3>2. \A d \in Containers : Demand[d] \in Int
      BY AmountsAssumption
    <3> QED
      BY <2>1, <3>1, <3>2
  <2>3. SumOver(Demand, T) = Demand[c] + SumOver(Demand, T \ {c})
    BY <2>1, <2>2, SumTakes
  <2>4. Totals[T] = Demand[c] + Totals[S]
    BY <2>1, <2>3 DEF Totals
  <2> HIDE DEF T
  <2>5. Totals[T] <= Totals[S] + Demand[c]
    BY <1>1, <2>4
  <2> QED
    BY <2>5 DEF T
<1> QED
  BY <1>2, <1>3

\* What a worker keeps in a step it had before, or is given in it.
LEMMA WhatIsGiven ==
  ASSUME Shape, Fresh, [Next]_vars, NEW w \in Workers, NEW c \in Kept(w)'
  PROVE  c \in Kept(w) \/ (SchedPut /\ sched.put.to = w /\ sched.put.c = c)
<1>1. c \in Containers /\ Held(c)' /\ c \notin restored' /\ container'[c].node = w
  BY DEF Kept, OnWorker, Held
<1>2. CASE Placed(c)
  <2>1. container'[c] = sched.put.row /\ sched.put.row.node = sched.put.to
    BY <1>1, <1>2 DEF Placed, SchedPut, Fresh, PassIsFresh, Shape
  <2> QED
    BY <1>1, <1>2, <2>1 DEF Placed
<1>3. CASE ~Placed(c)
  <2>1. Held(c) /\ c \notin restored /\ container'[c].node = container[c].node
    BY <1>1, <1>3, WhatIsKept
  <2> QED
    BY <1>1, <2>1 DEF Kept, OnWorker, Held
<1> QED
  BY <1>2, <1>3

\* Only the controller's own steps, and a restart, move its pass.
LEMMA PassMoves ==
  ASSUME [Next]_vars, sched' # sched PROVE Scheduling \/ sched' = SchedIdle
BY DEF Next, vars, Tick, Restart, Daemon, register, heartbeat, Die, run_once, Request, create,
      set_desired_state, delete, replace_status, replace, NotFound, Finish, delete_worker,
      Lifecycle, LcLeases, LcWorkers, LcFlip, LcContainers, LcEvict

LEMMA PassAdvances ==
  ASSUME [Next]_vars, sched' # sched, ~SchedGet, sched'.pc # "idle"
  PROVE  /\ sched'.pc # "put"
         /\ SchedListContainers \/ (sched.pc # "idle" /\ sched'.used = sched.used)
<1>1. SchedListContainers \/ SchedListWorkers \/ SchedPut
  BY PassMoves DEF Scheduling, SchedIdle, SchedAt
<1> QED
  BY <1>1 DEF SchedListContainers, SchedListWorkers, SchedPut, SchedIdle, SchedAt

\* Nothing but a decision of the pass adds to what is coming.
LEMMA WhatIsComing ==
  ASSUME Shape, Fresh, [Next]_vars, NEW w \in Workers, NEW c \in Coming(w)', c \notin Coming(w)
  PROVE  SchedGet /\ sched'.pc = "put" /\ sched'.put.to = w /\ sched'.put.c = c
<1>1. c \notin Kept(w)'
  BY WhatIsGiven DEF Coming, SchedPut, Kept, OnWorker
<1>2. c \in Containers /\ sched'.pc = "put" /\ sched'.put.to = w /\ sched'.put.c = c
  BY <1>1 DEF Coming
<1>3. sched' # sched
  BY <1>2 DEF Coming
<1> QED
  BY <1>2, <1>3, PassAdvances

\* The count a pass begins with: everything in use, put back or not.
LEMMA ListCounts ==
  ASSUME SchedListContainers, NEW w \in Workers
  PROVE  Totals[Coming(w)'] <= sched'.used[w]
<1>1. sched'.pc # "put" /\ sched'.used[w] = usage_for(w) /\ UNCHANGED <<container, restored>>
  BY DEF SchedListContainers, SchedAt, rows
<1>2. Coming(w)' \subseteq OnWorker(w)
  BY <1>1 DEF Coming, Kept, OnWorker
<1>3. OnWorker(w) \in SUBSET Containers
  BY DEF OnWorker
<1>4. usage_for(w) = Totals[OnWorker(w)]
  BY <1>3, UsageIsASum DEF Totals
<1> QED
  BY <1>1, <1>2, <1>3, <1>4, TotalsGrow

\* A pass gives what is left, and counts what it gives.
LEMMA GetCounts ==
  ASSUME Shape, SchedTyped, Fresh, Counted, SchedGet, [Next]_vars, NEW w \in Workers
  PROVE  /\ Totals[Coming(w)'] <= Capacity[w]
         /\ sched'.pc # "idle" => Totals[Coming(w)'] <= sched'.used[w]
<1>1. PICK c \in Containers : c \in sched.todo /\ \E v \in PickedFor(c) : Decides(c, v)
  BY WhatIsDecided
<1>2. PICK v \in PickedFor(c) : Decides(c, v)
  BY <1>1
<1>3. PICK S \in SUBSET Containers : S = Coming(w)
  BY DEF Coming, Kept, OnWorker
<1>4. PICK T \in SUBSET Containers : T = Coming(w)'
  BY DEF Coming, Kept, OnWorker
<1>5. /\ Totals[S] \in Nat /\ Totals[T] \in Nat /\ Demand[c] \in Nat
      /\ Capacity[w] \in Nat /\ sched.used \in [Workers -> Nat]
  BY TotalsGrow, AmountsAssumption DEF SchedTyped, SchedStates
<1>6. Totals[S] <= Capacity[w] /\ Totals[S] <= sched.used[w]
  BY <1>3 DEF Counted, SchedGet
<1>7. \A d \in T \ S : d = c /\ v = w
  BY <1>2, <1>3, <1>4, WhatIsComing DEF Decides, SchedAt, SchedIdle
<1>8. v # NoWorker => v \in Workers /\ (Demand[c] = 0 \/ sched.used[v] + Demand[c] <= Capacity[v])
  BY <1>2, PickFits
<1>9. sched'.pc # "idle" => sched'.used = plan_bindings(c, v)
  BY <1>2 DEF Decides, SchedAt, SchedIdle
<1>10. CASE v = w
  <2>1. T \subseteq S \cup {c} /\ S \cup {c} \in SUBSET Containers
    BY <1>7
  <2>2. Totals[T] <= Totals[S \cup {c}] /\ Totals[S \cup {c}] \in Nat
    BY <2>1, TotalsGrow
  <2>3. Totals[S \cup {c}] <= Totals[S] + Demand[c]
    BY TotalsTake
  <2>4. w # NoWorker
    BY NamesAssumption DEF NoWorker
  <2>5. sched'.pc # "idle" => sched'.used[w] = sched.used[w] + Demand[c]
    BY <1>5, <1>9, <1>10, <2>4 DEF plan_bindings
  <2>6. Demand[c] = 0 \/ sched.used[w] + Demand[c] <= Capacity[w]
    BY <1>8, <1>10, <2>4
  <2>7. Totals[T] <= Totals[S] + Demand[c]
    BY <1>5, <2>2, <2>3
  <2>8. Totals[T] <= Capacity[w]
    BY <1>5, <1>6, <2>6, <2>7
  <2> QED
    BY <1>4, <1>5, <1>6, <2>5, <2>7, <2>8
<1>11. CASE v # w
  <2>1. T \subseteq S
    BY <1>7, <1>11
  <2>2. Totals[T] <= Totals[S]
    BY <2>1, TotalsGrow
  <2>3. sched'.pc # "idle" => sched'.used[w] = sched.used[w]
    BY <1>5, <1>8, <1>9, <1>11 DEF plan_bindings
  <2> QED
    BY <1>4, <1>5, <1>6, <2>2, <2>3
<1> QED
  BY <1>10, <1>11

LEMMA CountedStep ==
  ASSUME Shape, SchedTyped, Fresh, Counted, [Next]_vars PROVE Counted'
<1> SUFFICES ASSUME NEW w \in Workers
             PROVE  /\ Totals[Coming(w)'] <= Capacity[w]
                    /\ sched'.pc # "idle" => Totals[Coming(w)'] <= sched'.used[w]
  BY DEF Counted, Totals
<1>1. CASE SchedGet
  BY <1>1, GetCounts
<1>2. CASE ~SchedGet
  <2>1. Coming(w)' \subseteq Coming(w)
    BY <1>2, WhatIsComing
  <2>2. Coming(w) \in SUBSET Containers
    BY DEF Coming, Kept, OnWorker
  <2>3. PICK S \in SUBSET Containers : S = Coming(w)
    BY <2>2
  <2>4. PICK T \in SUBSET Containers : T = Coming(w)'
    BY <2>1, <2>2
  <2>5. Totals[T] <= Totals[S] /\ Totals[T] \in Nat /\ Totals[S] \in Nat
    BY <2>1, <2>3, <2>4, TotalsGrow
  <2>6. /\ Totals[S] <= Capacity[w] /\ Capacity[w] \in Nat
        /\ sched.pc # "idle" => Totals[S] <= sched.used[w] /\ sched.used[w] \in Nat
    BY <2>3, AmountsAssumption DEF Counted, SchedTyped, SchedStates
  <2>7. Totals[T] <= Capacity[w]
    BY <2>5, <2>6
  <2>8. CASE SchedListContainers
    BY <2>4, <2>7, <2>8, ListCounts
  <2>9. CASE sched'.pc # "idle" => sched.pc # "idle" /\ sched'.used = sched.used
    BY <2>4, <2>5, <2>6, <2>7, <2>9
  <2> QED
    BY <1>2, <2>8, <2>9, PassAdvances
<1> QED
  BY <1>1, <1>2

\* PlacementsFit: what holds a worker's resources because a pass placed it there fits,
\* whatever clients, workers and crashes do.
THEOREM NothingIsOvercommitted == Spec => []PlacementsFit
<1>1. Init => Counted
  <2> SUFFICES ASSUME Init, NEW w \in Workers
               PROVE  Totals[Coming(w)] <= Capacity[w] /\ sched.pc = "idle"
    BY DEF Counted
  <2>1. Coming(w) = {} /\ sched.pc = "idle"
    BY DEF Init, Coming, Kept, OnWorker, NoRows, SchedIdle, SchedAt
  <2>2. Totals[{}] = 0
    BY SumOfNone DEF Totals
  <2> QED
    BY <2>1, <2>2, AmountsAssumption
<1>2. Shape /\ SchedTyped /\ Fresh /\ Counted /\ [Next]_vars => Counted'
  BY CountedStep
<1>3. Counted => PlacementsFit
  <2> SUFFICES ASSUME Counted, NEW w \in Workers
               PROVE  SumOver(Demand, Kept(w)) <= Capacity[w]
    BY DEF PlacementsFit, SumOver, Kept
  <2>1. Kept(w) \in SUBSET Coming(w) /\ Coming(w) \in SUBSET Containers
    BY DEF Coming, Kept, OnWorker
  <2>2. PICK S \in SUBSET Containers : S = Coming(w)
    BY <2>1
  <2>3. PICK R \in SUBSET S : R = Kept(w)
    BY <2>1, <2>2
  <2>4. Totals[R] <= Totals[S] /\ Totals[R] \in Nat /\ Totals[S] \in Nat
    BY TotalsGrow
  <2>5. Totals[S] <= Capacity[w] /\ Capacity[w] \in Nat
    BY <2>2, AmountsAssumption DEF Counted
  <2>6. Totals[R] <= Capacity[w]
    BY <2>4, <2>5
  <2> QED
    BY <2>3, <2>6 DEF Totals
<1> QED
  BY <1>1, <1>2, <1>3, ShapeHolds, SchedTypeHolds, FreshHolds, PTL DEF Spec
==============================================================================
