----------------------------- MODULE ControlPlane -----------------------------
(***************************************************************************)
(* The control plane around the store: the scheduler controller and the    *)
(* node-lifecycle controller (crates/server/src/controllers.rs), the API   *)
(* handlers that write containers and workers (crates/server/src/lib.rs),  *)
(* and what a worker daemon asks of them (crates/veloslet/src/lib.rs).     *)
(*                                                                         *)
(* They share the store and nothing else.  Each store call is one step     *)
(* here (Store.tla is about what happens inside a call); a handler or a    *)
(* controller pass is several, and between two of them anybody may write   *)
(* the rows it has read.  All of them write with a blind put.              *)
(*                                                                         *)
(* Time is a number of ticks since something happened, kept only up to     *)
(* the point where it makes no further difference.  A pass and a handler   *)
(* last milliseconds, a tick seconds: none is under way during a Tick.     *)
(***************************************************************************)
EXTENDS Placement

CONSTANTS Containers,      \* container names, positive numbers
          Workers,         \* worker names, positive numbers
          Handlers,        \* API requests that can be in the server at a time
          NoRow,           \* an absent row; a free handler
          Reschedulable,   \* containers labelled velos.io/reschedulable=true
          Finalized,       \* containers created with the veloslet finalizer
          Demand,          \* cpu a container asks for
          Capacity,        \* cpu a worker offers
          LeaseDuration,   \* spec.leaseDurationSeconds, in ticks
          EvictionTimeout, \* ControllerConfig.eviction_timeout, in ticks
          Ops,             \* requests clients make, outcomes workers report
          Prompt,          \* a live worker renews before its lease runs out
          Returning,       \* workers that come back from a crash
          Restarts         \* the server crashes and comes back

ASSUME NamesAssumption ==
  Containers \subseteq Nat \ {0} /\ Workers \subseteq Nat \ {0} /\ IsFiniteSet(Containers)
ASSUME TimesAssumption == LeaseDuration \in Nat \ {0} /\ EvictionTimeout \in Nat
ASSUME AmountsAssumption == Demand \in [Containers -> Nat] /\ Capacity \in [Workers -> Nat]
ASSUME FlagsAssumption ==
  Prompt \in BOOLEAN /\ Restarts \in BOOLEAN /\ Returning \subseteq Workers

VARIABLES container,   \* rows of kind Container
          restored,    \* those put back on a worker by a writer that was not up to date
          worker,      \* rows of kind Worker
          leaseAge,    \* rows of kind Lease: ticks since renewTime, or NoRow
          up,          \* worker processes that run
          report,      \* per worker: the status it is about to put, or NoRow
          handler,     \* per handler: the put it is about to make, or NoRow
          sched,       \* the pass of reconcile_scheduling
          lc           \* the pass of reconcile_node_lifecycle

vars == <<container, restored, worker, leaseAge, up, report, handler, sched, lc>>
rows == <<container, restored, worker, leaseAge>>
nodes == <<up, report>>

------------------------------------------------------------------------------
(* Rows.                                                                     *)

NoWorker == 0
Phase == {"Pending", "Scheduled", "Running", "Hibernated", "Succeeded", "Failed", "Unknown"}
ReasonToken == {"none", "Unschedulable", "NodeLost", "ActionFailed"}

\* `worker` is status.workerName, `node` the index column beside the document.
Row == [phase : Phase, worker : Workers \cup {NoWorker}, node : Workers \cup {NoWorker},
        desired : {"Running", "Hibernated"}, reason : ReasonToken,
        deleting : BOOLEAN, finalizer : BOOLEAN]

\* `ready` is the Ready condition, "Unset" when conditions is empty; `age` the
\* ticks since its lastTransitionTime.
WorkerRow == [ready : {"Unset", "True", "False"}, age : 0..(EvictionTimeout + 1)]

ASSUME NoRowAssumption == NoRow \notin Row \cup WorkerRow \cup Nat

\* What clients post; the API stamps desiredState.
Submitted(c) == [phase |-> "Pending", worker |-> NoWorker, node |-> NoWorker,
                 desired |-> "Running", reason |-> "none",
                 deleting |-> FALSE, finalizer |-> c \in Finalized]

is_terminal(p) == p \in {"Succeeded", "Failed"}

holds_resources(r) == r.phase \in {"Scheduled", "Running", "Hibernated"}

\* The index column decides whose resources they are.
OnWorker(w) ==
  {c \in Containers : container[c] # NoRow /\ container[c].node = w /\ holds_resources(container[c])}

usage_for(w) == MapThenSumSet(LAMBDA c : Demand[c], OnWorker(w))

HeldBy(c, w) ==
  container[c] # NoRow /\ container[c].node = w /\ holds_resources(container[c])

\* Row r is put for c: what a put does to `restored`.  A row that is nobody's, or holds
\* nothing, leaves it.  One that holds a worker's resources enters it, unless the put is
\* up to date: then it takes nothing that was not c's at the moment.
Restored(c, r, uptodate) ==
  IF r = NoRow \/ ~holds_resources(r) THEN restored \ {c}
  ELSE IF uptodate THEN restored ELSE restored \cup {c}

Later(age, limit) == IF age > limit THEN age ELSE age + 1

------------------------------------------------------------------------------
(* Passes and requests under way.                                            *)

\* `to` is the worker that was picked.
Put == [c : Containers, row : Row \cup {NoRow}, to : Workers \cup {NoWorker}]
Call == [c : Containers, row : Row \cup {NoRow}, from : Workers \cup {NoWorker}]

SchedAt(pc, todo, used, ready, put) ==
  [pc |-> pc, todo |-> todo, used |-> used, ready |-> ready, put |-> put]

Unused == [w \in Workers |-> 0]
NoRows == [c \in Containers |-> NoRow]
SchedIdle == SchedAt("idle", {}, Unused, {}, NoRow)

LcAt(pc, fresh, flips, evictable, clones) ==
  [pc |-> pc, fresh |-> fresh, flips |-> flips, evictable |-> evictable, clones |-> clones]

LcIdle == LcAt("idle", {}, {}, {}, NoRows)

TypeOK ==
  /\ container \in [Containers -> Row \cup {NoRow}]
  /\ restored \subseteq Containers
  /\ worker \in [Workers -> WorkerRow \cup {NoRow}]
  /\ leaseAge \in [Workers -> 0..(LeaseDuration + 1) \cup {NoRow}]
  /\ up \in [Workers -> BOOLEAN]
  /\ report \in [Workers -> [c : Containers, phase : Phase \cup {"clear"}, reason : ReasonToken]
                              \cup {NoRow}]
  /\ handler \in [Handlers -> Call \cup {NoRow}]
  /\ sched \in [pc : {"idle", "containers", "placing", "put"}, todo : SUBSET Containers,
                used : [Workers -> Nat], ready : SUBSET Workers, put : Put \cup {NoRow}]
  /\ lc \in [pc : {"idle", "leases", "flip", "evict"}, fresh : SUBSET Workers,
             flips : SUBSET Workers, evictable : SUBSET Workers,
             clones : [Containers -> Row \cup {NoRow}]]

\* The cluster has been installed; nothing has been submitted.
Init ==
  /\ container = NoRows
  /\ restored = {}
  /\ worker = [w \in Workers |-> NoRow]
  /\ leaseAge = [w \in Workers |-> NoRow]
  /\ up = [w \in Workers |-> FALSE]
  /\ report = [w \in Workers |-> NoRow]
  /\ handler = [h \in Handlers |-> NoRow]
  /\ sched = SchedIdle
  /\ lc = LcIdle

------------------------------------------------------------------------------
(* API handlers.  create reads nothing; the others read the row, derive a    *)
(* new one from it and put that one whatever the row is by then.  A put of   *)
(* NoRow is Store::delete.                                                   *)

\* POST on a name that exists overwrites the object.
create(c) ==
  /\ "create" \in Ops
  /\ container[c] = NoRow \/ "overwrite" \in Ops
  /\ container' = [container EXCEPT ![c] = Submitted(c)]
  /\ restored' = restored \ {c}
  /\ UNCHANGED <<worker, leaseAge, nodes, handler, sched, lc>>

Take(h, c, row, from) ==
  /\ handler[h] = NoRow
  /\ handler' = [handler EXCEPT ![h] = [c |-> c, row |-> row, from |-> from]]

\* Nothing is written when the container is as asked; a container that ran to
\* completion cannot be hibernated (409).
set_desired_state(h, c, desired) ==
  /\ "desire" \in Ops
  /\ container[c] # NoRow
  /\ container[c].desired # desired
  /\ desired = "Hibernated" => ~is_terminal(container[c].phase)
  /\ Take(h, c, [container[c] EXCEPT !.desired = desired], NoWorker)
  /\ UNCHANGED <<rows, nodes, sched, lc>>

\* With the finalizer: mark.  Without: remove.
delete(h, c) ==
  /\ "delete" \in Ops
  /\ container[c] # NoRow
  /\ Take(h, c, IF container[c].finalizer THEN [container[c] EXCEPT !.deleting = TRUE] ELSE NoRow,
          NoWorker)
  /\ UNCHANGED <<rows, nodes, sched, lc>>

\* Mutant: the index column is left as it was.
WithStatus_Index(r, w, phase, reason) ==
  [r EXCEPT !.phase = phase, !.worker = w, !.reason = reason]

\* The status document is replaced whole, and the index column follows it.
WithStatus(r, w, phase, reason) ==
  [r EXCEPT !.phase = phase, !.worker = w, !.node = w, !.reason = reason]

\* replace_status, sent by worker w.
replace_status(h, w) ==
  /\ report[w] # NoRow /\ report[w].phase # "clear"
  /\ container[report[w].c] # NoRow
  /\ Take(h, report[w].c,
          WithStatus(container[report[w].c], w, report[w].phase, report[w].reason), w)
  /\ report' = [report EXCEPT ![w] = NoRow]
  /\ UNCHANGED <<rows, up, sched, lc>>

\* replace, sent by worker w, which listed a row marked for deletion, got it again
\* and removed our finalizer from it.  With the mark in what it got, or in the row
\* as it is, the handler's delete follows, whatever is there by then.  If the
\* container was overwritten before the worker got it, there is no mark: put_cas
\* takes the place of the row the worker got, or fails.
replace(h, w) ==
  LET c == report[w].c IN
  /\ report[w] # NoRow /\ report[w].phase = "clear"
  /\ container[c] # NoRow
  /\ \/ /\ Take(h, c, NoRow, w)
        /\ UNCHANGED container
     \/ /\ ~container[c].deleting
        /\ container' \in {container, [container EXCEPT ![c].finalizer = FALSE]}
        /\ UNCHANGED handler
  /\ report' = [report EXCEPT ![w] = NoRow]
  /\ UNCHANGED <<restored, worker, leaseAge, up, sched, lc>>

\* 404: the container is gone, and the worker goes on.
NotFound(w) ==
  /\ report[w] # NoRow
  /\ container[report[w].c] = NoRow
  /\ report' = [report EXCEPT ![w] = NoRow]
  /\ UNCHANGED <<rows, up, handler, sched, lc>>

\* A user's request is up to date if it changes what was asked for and nothing else, a
\* worker's if the container is still the worker's: the status is for the worker to say.
UpToDate(call) ==
  /\ container[call.c] # NoRow
  /\ IF call.from # NoWorker THEN HeldBy(call.c, call.from)
     ELSE call.row = [container[call.c] EXCEPT !.desired = call.row.desired,
                                               !.deleting = call.row.deleting]

\* The handler's store call: put, or delete.
Finish(h) ==
  /\ handler[h] # NoRow
  /\ container' = [container EXCEPT ![handler[h].c] = handler[h].row]
  /\ restored' = Restored(handler[h].c, handler[h].row, UpToDate(handler[h]))
  /\ handler' = [handler EXCEPT ![h] = NoRow]
  /\ UNCHANGED <<worker, leaseAge, nodes, sched, lc>>

\* DELETE of a worker revokes its credential: nothing it sends is heard again.
delete_worker(w) ==
  /\ "deleteWorker" \in Ops
  /\ worker[w] # NoRow
  /\ worker' = [worker EXCEPT ![w] = NoRow]
  /\ up' = [up EXCEPT ![w] = FALSE]
  /\ report' = [report EXCEPT ![w] = NoRow]
  /\ UNCHANGED <<container, restored, leaseAge, handler, sched, lc>>

------------------------------------------------------------------------------
(* Worker daemons.                                                           *)

\* A start registers: a fresh row, with no condition.  The first start joins,
\* a later one presents the worker's own credential.
register(w) ==
  /\ ~up[w]
  /\ (worker[w] = NoRow /\ leaseAge[w] = NoRow) \/ w \in Returning
  /\ up' = [up EXCEPT ![w] = TRUE]
  /\ worker' = [worker EXCEPT ![w] = [ready |-> "Unset", age |-> 0]]
  /\ UNCHANGED <<container, restored, leaseAge, report, handler, sched, lc>>

heartbeat(w) ==
  /\ up[w]
  /\ leaseAge' = [leaseAge EXCEPT ![w] = 0]
  /\ UNCHANGED <<container, restored, worker, nodes, handler, sched, lc>>

Die(w) ==
  /\ up[w]
  /\ up' = [up EXCEPT ![w] = FALSE]
  /\ report' = [report EXCEPT ![w] = NoRow]
  /\ UNCHANGED <<rows, handler, sched, lc>>

\* Mutants: the user's wish is not looked at; a finalizer is never cleared.
Converged_Awake(r) == {"Running", "Succeeded", "Failed"}
Cleared_Never(r) == {}

\* The phase that the action picked by `reconcile` leads to: the micro-VM is put
\* to sleep, or it is started, or it is found to have exited.
Converged(r) ==
  IF r.desired = "Hibernated" THEN {"Hibernated"} ELSE {"Running", "Succeeded", "Failed"}

Cleared(r) == IF r.finalizer THEN {"clear"} ELSE {}

\* What a worker may report of a container it has just listed.  A failed action
\* restates the listed phase.
Reports(c) ==
  LET r == container[c]
      As(phases, reason) == {[c |-> c, phase |-> p, reason |-> reason] : p \in phases}
  IN IF r.deleting THEN As(Cleared(r), "none")
     ELSE IF is_terminal(r.phase) THEN {}
     ELSE As(Converged(r), "none") \cup As({r.phase}, "ActionFailed")

\* run_once: list what is bound to this worker, act on one of them.  A worker
\* waits for the answer to its last report before it goes on.
run_once(w, c) ==
  /\ up[w] /\ report[w] = NoRow
  /\ \A h \in Handlers : handler[h] # NoRow => handler[h].from # w
  /\ container[c] # NoRow /\ container[c].node = w
  /\ \E p \in Reports(c) :
       /\ p.phase \in {"clear", "Running", container[c].phase} \cup Ops
       /\ p.reason \in {"none"} \cup Ops
       /\ report' = [report EXCEPT ![w] = p]
  /\ UNCHANGED <<rows, up, handler, sched, lc>>

------------------------------------------------------------------------------
(* Time passes.                                                              *)

Quiet == sched.pc = "idle" /\ lc.pc = "idle" /\ \A h \in Handlers : handler[h] = NoRow

\* With Prompt, nobody that runs is caught with a lease about to run out.
NobodyLate == \A w \in Workers : up[w] => leaseAge[w] \notin {NoRow, LeaseDuration}

Tick ==
  /\ Quiet
  /\ Prompt => NobodyLate
  /\ leaseAge' = [w \in Workers |-> IF leaseAge[w] = NoRow THEN NoRow
                                    ELSE Later(leaseAge[w], LeaseDuration)]
  /\ worker' = [w \in Workers |-> IF worker[w] = NoRow THEN NoRow
                                  ELSE [worker[w] EXCEPT !.age = Later(@, EvictionTimeout)]]
  /\ UNCHANGED <<container, restored, nodes, handler, sched, lc>>

\* The server process dies and comes back: passes and requests are cut short
\* where they are.  The store's rows survive.
Restart ==
  /\ Restarts
  /\ ~Quiet
  /\ handler' = [h \in Handlers |-> NoRow]
  /\ sched' = SchedIdle
  /\ lc' = LcIdle
  /\ UNCHANGED <<rows, nodes>>

------------------------------------------------------------------------------
(* reconcile_scheduling: list containers, list workers, then for each        *)
(* pending container, in name order, get it afresh and put it.  The plan is  *)
(* a function of the two lists; it is worked out here as it is carried out.  *)

First(n, S) == n \in S /\ \A m \in S : n <= m

pending_containers ==
  {c \in Containers : /\ container[c] # NoRow
                      /\ container[c].phase = "Pending"
                      /\ container[c].worker = NoWorker}

SchedListContainers ==
  /\ sched.pc = "idle"
  /\ sched' = SchedAt("containers", pending_containers, [w \in Workers |-> usage_for(w)],
                      {}, NoRow)
  /\ UNCHANGED <<rows, nodes, handler, lc>>

worker_ready(w) == worker[w] # NoRow /\ worker[w].ready = "True"

\* A pass with nothing pending ends here.
SchedListWorkers ==
  /\ sched.pc = "containers"
  /\ sched' = IF sched.todo = {} THEN SchedIdle
              ELSE SchedAt("placing", sched.todo, sched.used,
                           {w \in Workers : worker_ready(w)}, NoRow)
  /\ UNCHANGED <<rows, nodes, handler, lc>>

container_request(c) ==
  [cpu |-> Demand[c], mem |-> 0, nodeName |-> NoPin, nodeSelector |-> << >>,
   required |-> {}, preferred |-> << >>, tolerations |-> {}]

build_worker_view(w) ==
  [cpu |-> Capacity[w], mem |-> 0, ready |-> w \in sched.ready, unschedulable |-> FALSE,
   labels |-> << >>, taints |-> << >>]

\* The worker picked for c: one of them, or none.
PickedFor(c) ==
  LET views == [w \in Workers |-> build_worker_view(w)]
      allocated == [w \in Workers |-> [cpu |-> sched.used[w], mem |-> 0]]
  IN {schedule(container_request(c), views, allocated)} \cap (Workers \cup {NoWorker})

\* Mutant: the reason a container waited is left on it.
Bound_KeepReason(r, w) ==
  [r EXCEPT !.phase = "Scheduled", !.worker = w, !.node = w]

Bound(r, w) ==
  [r EXCEPT !.phase = "Scheduled", !.worker = w, !.node = w, !.reason = "none"]

\* Mutant: plan_bindings forgets what it has just placed.
plan_bindings_Forget(c, w) == sched.used

\* plan_bindings accounts for a placement whatever becomes of it.
plan_bindings(c, w) ==
  IF w = NoWorker THEN sched.used ELSE [sched.used EXCEPT ![w] = @ + Demand[c]]

\* The container of an outcome is fetched.  If it is gone, or is already recorded
\* as unschedulable for the same reason, there is nothing to put.
Outcome(c, w) ==
  LET rest == sched.todo \ {c}
      used == plan_bindings(c, w)
      Skip == sched' = IF rest = {} THEN SchedIdle
                       ELSE SchedAt("placing", rest, used, sched.ready, NoRow)
      PutRow(r) == sched' = SchedAt("put", rest, used, sched.ready,
                                    [c |-> c, row |-> r, to |-> w])
  IN \/ container[c] = NoRow /\ Skip
     \/ /\ container[c] # NoRow /\ w = NoWorker
        /\ \/ container[c].reason = "Unschedulable" /\ Skip
           \/ PutRow([container[c] EXCEPT !.reason = "Unschedulable"])
     \/ container[c] # NoRow /\ w # NoWorker /\ PutRow(Bound(container[c], w))

SchedGet ==
  /\ sched.pc = "placing"
  /\ \E c \in Containers : First(c, sched.todo) /\ \E w \in PickedFor(c) : Outcome(c, w)
  /\ UNCHANGED <<rows, nodes, handler, lc>>

\* Up to date if the row is still the one that was fetched.
SchedPut ==
  LET c == sched.put.c
      r == sched.put.row
  IN /\ sched.pc = "put"
     /\ container' = [container EXCEPT ![c] = r]
     /\ restored' = IF sched.put.to # NoWorker THEN restored \ {c}
                    ELSE Restored(c, r, container[c] # NoRow
                                          /\ r = [container[c] EXCEPT !.reason = "Unschedulable"])
     /\ sched' = IF sched.todo = {} THEN SchedIdle
                 ELSE SchedAt("placing", sched.todo, sched.used, sched.ready, NoRow)
     /\ UNCHANGED <<worker, leaseAge, nodes, handler, lc>>

------------------------------------------------------------------------------
(* reconcile_node_lifecycle: list leases, list workers, put the workers      *)
(* whose readiness changed, list containers, put those that are evicted.     *)
(* All of it is decided from the lists; what is put are clones out of them.  *)

\* Mutants: any lease will do; a lease ends one tick early.
has_fresh_lease_Any(w) == leaseAge[w] # NoRow
has_fresh_lease_Strict(w) == leaseAge[w] # NoRow /\ leaseAge[w] < LeaseDuration

has_fresh_lease(w) == leaseAge[w] # NoRow /\ leaseAge[w] <= LeaseDuration

LcLeases ==
  /\ lc.pc = "idle"
  /\ lc' = LcAt("leases", {w \in Workers : has_fresh_lease(w)}, {}, {}, NoRows)
  /\ UNCHANGED <<rows, nodes, handler, sched>>

\* The Ready condition of the listed row, which this pass may be about to
\* replace, is what the grace period is measured from.
Evictable(w) ==
  /\ worker[w] # NoRow
  /\ w \notin lc.fresh
  /\ worker[w].ready # "Unset"
  /\ worker[w].age > EvictionTimeout

LcWorkers ==
  /\ lc.pc = "leases"
  /\ lc' = LcAt("flip", lc.fresh,
                {w \in Workers : worker[w] # NoRow /\ (w \in lc.fresh) # worker_ready(w)},
                {w \in Workers : Evictable(w)}, NoRows)
  /\ UNCHANGED <<rows, nodes, handler, sched>>

\* The put of a clone: it also brings back a worker deleted since.
LcFlip(w) ==
  /\ lc.pc = "flip" /\ First(w, lc.flips)
  /\ worker' = [worker EXCEPT ![w] =
                  [ready |-> IF w \in lc.fresh THEN "True" ELSE "False", age |-> 0]]
  /\ lc' = [lc EXCEPT !.flips = @ \ {w}]
  /\ UNCHANGED <<container, restored, leaseAge, nodes, handler, sched>>

\* With nobody to evict the pass is over.
LcContainers ==
  /\ lc.pc = "flip" /\ lc.flips = {}
  /\ LET victims == UNION {OnWorker(w) : w \in lc.evictable}
     IN lc' = IF victims = {} THEN LcIdle
              ELSE LcAt("evict", {}, {}, {},
                        [c \in Containers |-> IF c \in victims THEN container[c] ELSE NoRow])
  /\ UNCHANGED <<rows, nodes, handler, sched>>

\* Mutant: the phase is set back, the binding is not.
Evicted_KeepWorker(c, r) ==
  [r EXCEPT !.phase = IF c \in Reschedulable THEN "Pending" ELSE "Unknown",
            !.reason = "NodeLost"]

\* Mutant: the reason is written in the place of the phase.
Evicted_Swapped(c, r) ==
  [r EXCEPT !.phase = "NodeLost", !.reason = "NodeLost"]

\* Unbound if it may move, a dead end on its worker otherwise.
Evicted(c, r) ==
  IF c \in Reschedulable
  THEN [r EXCEPT !.phase = "Pending", !.worker = NoWorker, !.node = NoWorker,
                 !.reason = "NodeLost"]
  ELSE [r EXCEPT !.phase = "Unknown", !.reason = "NodeLost"]

\* By worker, then by name.
LcEvict(c) ==
  LET left == {d \in Containers : lc.clones[d] # NoRow} IN
  /\ lc.pc = "evict"
  /\ c \in left
  /\ \A d \in left : \/ lc.clones[c].node < lc.clones[d].node
                     \/ lc.clones[c].node = lc.clones[d].node /\ c <= d
  /\ container' = [container EXCEPT ![c] = Evicted(c, lc.clones[c])]
  /\ restored' = restored \ {c}
  /\ lc' = IF left = {c} THEN LcIdle ELSE [lc EXCEPT !.clones[c] = NoRow]
  /\ UNCHANGED <<worker, leaseAge, nodes, handler, sched>>

------------------------------------------------------------------------------

Request ==
  \/ \E c \in Containers : create(c)
  \/ \E h \in Handlers, c \in Containers :
       \/ \E d \in {"Running", "Hibernated"} : set_desired_state(h, c, d)
       \/ delete(h, c)
  \/ \E h \in Handlers, w \in Workers : replace_status(h, w) \/ replace(h, w)
  \/ \E h \in Handlers : Finish(h)
  \/ \E w \in Workers : NotFound(w) \/ delete_worker(w)

Daemon ==
  \E w \in Workers : \/ register(w) \/ heartbeat(w) \/ Die(w)
                     \/ \E c \in Containers : run_once(w, c)

Scheduling == SchedListContainers \/ SchedListWorkers \/ SchedGet \/ SchedPut

Lifecycle ==
  \/ LcLeases \/ LcWorkers \/ LcContainers
  \/ \E w \in Workers : LcFlip(w)
  \/ \E c \in Containers : LcEvict(c)

Next == Request \/ Daemon \/ Tick \/ Restart \/ Scheduling \/ Lifecycle

Spec == Init /\ [][Next]_vars

\* The controllers' loops run for ever, every store call returns, and a live
\* worker heartbeats.  The passes' intervals are seconds and the passes are not,
\* and a worker that starts heartbeats at once, so that there are moments in which
\* a Tick can be taken, and time goes on.
LoopFairness ==
  /\ WF_vars(Scheduling)
  /\ WF_vars(Lifecycle)
  /\ \A h \in Handlers : WF_vars(Finish(h))
  /\ \A w \in Workers : WF_vars(heartbeat(w))
  /\ SF_vars(Tick) /\ []<>(Quiet /\ NobodyLate)

LoopSpec == Spec /\ LoopFairness

\* A live worker acts on every container it lists, and its requests are taken:
\* they wait for a handler only because Handlers is bounded.
WorkerFairness ==
  \A w \in Workers :
    /\ WF_vars(NotFound(w))
    /\ SF_vars(\E h \in Handlers : replace_status(h, w) \/ replace(h, w))
    /\ \A c \in Containers : SF_vars(run_once(w, c))

FairSpec == LoopSpec /\ WorkerFairness

------------------------------------------------------------------------------
(* Properties.                                                               *)

InSync(r) == r # NoRow => r.node = r.worker

\* The index column names the worker the document names, in every row and in
\* every clone that is about to be put (extract_node_name's comment,
\* lib.rs:119-120: the column tracks the actual placement).  The worker lists
\* by the column and the scheduler plans by the document; four writers keep
\* them together, each in its own way.
IndexInSync ==
  /\ \A c \in Containers : InSync(container[c]) /\ InSync(lc.clones[c])
  /\ \A h \in Handlers : handler[h] # NoRow => InSync(handler[h].row)
  /\ sched.put # NoRow => InSync(sched.put.row)

\* The scheduler never gives a worker more than it offers (plan_bindings' comment,
\* controllers.rs:366-367), whatever clients, workers and crashes do: what holds a
\* worker's resources because a pass placed it there fits.  Each pass counts from a
\* list that reports, evictions, requests and restarts outdate before the last put.
\* (A whole row that is put back out of date may hold what has been given to another
\* since: no later pass can know.  Those are `restored`, and left out.)
PlacementsFit ==
  \A w \in Workers : MapThenSumSet(LAMBDA c : Demand[c], OnWorker(w) \ restored) <= Capacity[w]

\* A container that has been placed, and only waits for its worker, is not still called
\* unschedulable or lost (clear_reason's comment, controllers.rs:542-549): the two
\* outcomes of a pass, a report and an eviction each write the reason of a row that
\* others write.  Again without the rows put back out of date.
NoStaleReason ==
  \A c \in Containers \ restored :
    container[c] # NoRow /\ container[c].phase = "Scheduled"
      => container[c].reason \in {"none", "ActionFailed"}

\* Where workers renew in time and stay dead when they die, and clients create
\* containers and delete workers and nothing else, no row is put back on a worker out of date:
\* evictions, reports, passes and restarts of the server do not get in each other's
\* way.  With PlacementsFit: then no worker is overcommitted at all.
NothingPutBack == restored = {}

\* Pending and bound exclude each other: what the scheduler may place is
\* nobody's, and what nobody has is up for placement.
PendingIsUnbound ==
  \A c \in Containers : container[c] # NoRow =>
    (container[c].phase = "Pending" <=> container[c].worker = NoWorker)

\* No pass evicts from a worker that runs and renews in time, although leases,
\* workers and containers are listed one after the other and the decision is
\* made from the lists.
LiveWorkersKeepContainers ==
  [][\A c \in Containers :
       LcEvict(c) => lc.clones[c].node = NoWorker \/ ~up[lc.clones[c].node]]_vars

\* The grace period (comment, controllers.rs:568-569 and 608): a container is
\* evicted off a worker only if the store has called it NotReady for longer
\* than the eviction timeout.
EvictedAfterGrace ==
  [][\A c \in Containers : LET w == lc.clones[c].node IN
       LcEvict(c) => worker[w] # NoRow /\ worker[w].ready = "False"
                       /\ worker[w].age > EvictionTimeout]_vars

\* A request of a user leaves the container where it is ("keeping the object,
\* its binding, and its worker-side disk", lib.rs:777-778).
HibernateKeepsBinding ==
  [][\A h \in Handlers :
       handler[h] # NoRow /\ handler[h].from = NoWorker /\ Finish(h)
         => LET c == handler[h].c IN
            container[c] # NoRow => container'[c].worker = container[c].worker]_vars

\* A dead worker's containers are taken from it, or declared Unknown, once the
\* controller has pronounced on it since it last registered.  (Of a worker that
\* dies before that, with its lease run out, no pass ever takes notice.)
DeadWorkersLetGo ==
  \A c \in Containers, w \in Workers :
    (HeldBy(c, w) /\ ~up[w] /\ worker[w] # NoRow /\ worker[w].ready # "Unset")
      ~> (~HeldBy(c, w) \/ up[w])

Fits(c, w) == up[w] /\ usage_for(w) + Demand[c] <= Capacity[w]

\* A container marked for deletion on a live worker is gone in the end: mark,
\* cleanup, finalizer and removal take two handlers and the worker between them.
DeletionCompletes ==
  \A c \in Containers :
    ~<>[](container[c] # NoRow /\ container[c].deleting /\ container[c].finalizer
           /\ \E w \in Workers : container[c].node = w /\ up[w])

\* A container that is to sleep, on a live worker, falls asleep or has ended.
HibernationConverges ==
  \A c \in Containers :
    ~<>[](container[c] # NoRow /\ container[c].desired = "Hibernated"
           /\ ~container[c].deleting /\ container[c].phase \in {"Scheduled", "Running"}
           /\ \E w \in Workers : container[c].node = w /\ up[w])

\* Nobody waits for ever beside a live worker that has room for it.
RoomIsUsed ==
  \A c \in Containers, w \in Workers :
    ~<>[](container[c] # NoRow /\ container[c].phase = "Pending" /\ Fits(c, w))
==============================================================================
