------------------------------- MODULE Veloslet -------------------------------
(***************************************************************************)
(* One worker daemon (crates/veloslet) between the server's rows of the    *)
(* containers bound to it and the container runtime of its machine         *)
(* (crates/runtime).                                                       *)
(*                                                                         *)
(* A pass, run_once, lists the rows, lists the instances, decides with     *)
(* `reconcile`, and carries the decisions out call by call.  Between two   *)
(* calls users change the rows, instances exit, the runtime's service      *)
(* stops, and the daemon itself may die.  Rows are written by NAME,        *)
(* instances are addressed by uid.  The other branch of the loop is the    *)
(* heartbeat.                                                              *)
(*                                                                         *)
(* A request to the server is one step here: what can happen inside one is *)
(* what ControlPlane and Store are about.                                  *)
(***************************************************************************)
EXTENDS Integers, FiniteSets

CONSTANTS Names,         \* container names, positive numbers
          MaxUid,        \* bound: objects ever created
          NoRow,         \* an absent row
          Finalized,     \* names whose objects carry the veloslet finalizer
          Overwritten,   \* names that clients POST again while they exist
          Sleepers,      \* names that users hibernate and resume
          Reschedulable, \* names labelled velos.io/reschedulable=true
          PolicyOf,      \* spec.restartPolicy of what is posted under a name
          BadImages,     \* objects whose image never launches
          Faults,        \* what may go wrong
          MaxFaults      \* bound: how often something goes wrong

Policy == {"Never", "OnFailure", "Always"}
FaultKind == {"exit", "prune", "runtime", "silent", "api", "crash"}

ASSUME NamesAssumption == Names \subseteq Nat \ {0} /\ IsFiniteSet(Names)
ASSUME BoundsAssumption == MaxUid \in Nat /\ MaxFaults \in Nat
ASSUME FlagsAssumption ==
  /\ PolicyOf \in [Names -> Policy] /\ Faults \subseteq FaultKind
  /\ Finalized \cup Overwritten \cup Sleepers \cup Reschedulable \subseteq Names

VARIABLES row,     \* the server's row of each name
          uids,    \* uids given out so far
          inst,    \* per uid: the runtime's instance
          service, \* the runtime's service
          lease,   \* the worker's lease is fresh
          pass,    \* what the daemon is in the middle of
          faults,  \* faults so far
          ended,   \* uids whose workload ended by itself
          leaked   \* uids a stop or a removal of which failed in silence

vars == <<row, uids, inst, service, lease, pass, faults, ended, leaked>>
server == <<row, uids>>
runtime == <<inst, service, ended, leaked>>

------------------------------------------------------------------------------
(* Rows and instances.                                                       *)

Uids == 1..MaxUid
NoName == 0
Phase == {"Pending", "Scheduled", "Running", "Hibernated", "Succeeded", "Failed", "Unknown"}
FailureReason == {"StartFailed", "RestartFailed", "ResumeFailed", "HibernateFailed"}

\* `bound`: status.workerName names this worker.
Row == [uid : Uids, policy : Policy, desired : {"Running", "Hibernated"}, phase : Phase,
        reason : {"none", "NodeLost"} \cup FailureReason, bound : BOOLEAN,
        deleting : BOOLEAN, finalizer : BOOLEAN]

ASSUME NoRowAssumption == NoRow \notin Row

\* InstanceState, with an exit code that is zero or not.
InstanceState == {"none", "Running", "Zero", "NonZero"}

Act == {"none", "Start", "Restart", "ReportRunning", "ReportSucceeded", "ReportFailed",
        "Hibernate", "Resume", "ReportHibernated", "Cleanup", "ClearFinalizer", "Reap"}

is_terminal(phase) == phase \in {"Succeeded", "Failed"}

should_restart(policy, exit) == policy = "Always" \/ (policy = "OnFailure" /\ exit = "NonZero")

holds_resources(r) == r.phase \in {"Scheduled", "Running", "Hibernated"}

NoRows == [n \in Names |-> NoRow]
NoPlan == [n \in Names |-> "none"]

\* `who` and `uid` name the target of the action being carried out, `call` the
\* call it is about to make; `got` is the row that clear_finalizer read.
At(pc, listed, plan, reap, who, uid, act, call, got) ==
  [pc |-> pc, listed |-> listed, plan |-> plan, reap |-> reap, who |-> who, uid |-> uid,
   act |-> act, call |-> call, got |-> got]

Waiting(pc) == At(pc, NoRows, NoPlan, {}, NoName, 0, "none", "none", NoRow)
Between(listed, plan, reap) ==
  At("between", listed, plan, reap, NoName, 0, "none", "none", NoRow)

TypeOK ==
  /\ row \in [Names -> Row \cup {NoRow}]
  /\ uids \in 0..MaxUid
  /\ inst \in [Uids -> InstanceState]
  /\ service \in {"up", "down", "broken"}
  /\ lease \in BOOLEAN
  /\ pass \in [pc : {"idle", "listed", "between", "acting", "failing", "renew"},
               listed : [Names -> Row \cup {NoRow}], plan : [Names -> Act],
               reap : SUBSET Uids, who : Names \cup {NoName}, uid : Uids \cup {0}, act : Act,
               call : {"none", "run", "stop", "start", "remove", "put", "get", "replace"},
               got : Row \cup {NoRow}]
  /\ faults \in 0..MaxFaults
  /\ ended \subseteq Uids
  /\ leaked \subseteq Uids

\* The machine has joined the cluster; nothing has been submitted.
Init ==
  /\ row = NoRows
  /\ uids = 0
  /\ inst = [u \in Uids |-> "none"]
  /\ service = "up"
  /\ lease = TRUE
  /\ pass = Waiting("idle")
  /\ faults = 0
  /\ ended = {}
  /\ leaked = {}

\* Something goes wrong, once more.
Fault(kind) == kind \in Faults /\ faults < MaxFaults /\ faults' = faults + 1

------------------------------------------------------------------------------
(* The server's side: what users and controllers do to the rows.             *)

\* POST, and the scheduler binding the container to this worker.
create(n) ==
  /\ row[n] = NoRow \/ n \in Overwritten
  /\ uids < MaxUid
  /\ uids' = uids + 1
  /\ row' = [row EXCEPT ![n] =
               [uid |-> uids + 1, policy |-> PolicyOf[n], desired |-> "Running",
                phase |-> "Scheduled", reason |-> "none", bound |-> TRUE, deleting |-> FALSE,
                finalizer |-> n \in Finalized]]
  /\ UNCHANGED <<runtime, lease, pass, faults>>

delete(n) ==
  /\ row[n] # NoRow
  /\ row' = [row EXCEPT ![n] = IF @.finalizer THEN [@ EXCEPT !.deleting = TRUE] ELSE NoRow]
  /\ UNCHANGED <<uids, runtime, lease, pass, faults>>

set_desired_state(n, desired) ==
  /\ n \in Sleepers
  /\ row[n] # NoRow
  /\ row[n].desired # desired
  /\ desired = "Hibernated" => ~is_terminal(row[n].phase)
  /\ row' = [row EXCEPT ![n] = [@ EXCEPT !.desired = desired]]
  /\ UNCHANGED <<uids, runtime, lease, pass, faults>>

\* The lease has run out for long: moved to another worker, or given up.
Evict(n) ==
  /\ ~lease
  /\ row[n] # NoRow /\ row[n].bound /\ holds_resources(row[n])
  /\ row' = [row EXCEPT ![n] =
               IF n \in Reschedulable
               THEN [@ EXCEPT !.phase = "Pending", !.bound = FALSE, !.reason = "NodeLost"]
               ELSE [@ EXCEPT !.phase = "Unknown", !.reason = "NodeLost"]]
  /\ UNCHANGED <<uids, runtime, lease, pass, faults>>

\* The scheduler places it here again.
Bind(n) ==
  /\ lease
  /\ row[n] # NoRow /\ ~row[n].bound /\ row[n].phase = "Pending"
  /\ row' = [row EXCEPT ![n] = [@ EXCEPT !.phase = "Scheduled", !.bound = TRUE, !.reason = "none"]]
  /\ UNCHANGED <<uids, runtime, lease, pass, faults>>

------------------------------------------------------------------------------
(* The machine's side.                                                       *)

Exit(u) ==
  /\ Fault("exit")
  /\ inst[u] = "Running"
  /\ \E code \in {"Zero", "NonZero"} : inst' = [inst EXCEPT ![u] = code]
  /\ ended' = ended \cup {u}
  /\ UNCHANGED <<server, service, leaked, lease, pass>>

\* An operator removes the instance behind the daemon's back.
Prune(u) ==
  /\ Fault("prune")
  /\ inst[u] # "none"
  /\ inst' = [inst EXCEPT ![u] = "none"]
  /\ leaked' = leaked \ {u}
  /\ UNCHANGED <<server, service, ended, lease, pass>>

\* The service stops: "down" can be started again, "broken" not by the daemon.
Outage ==
  /\ Fault("runtime")
  /\ service = "up"
  /\ service' \in {"down", "broken"}
  /\ UNCHANGED <<server, inst, ended, leaked, lease, pass>>

\* An operator mends it.
Mend ==
  /\ service = "broken"
  /\ service' = "up"
  /\ UNCHANGED <<server, inst, ended, leaked, lease, pass, faults>>

\* The daemon dies and launchd starts it again; the micro-VMs live on.
Crash ==
  /\ Fault("crash")
  /\ pass.pc # "idle"
  /\ pass' = Waiting("idle")
  /\ UNCHANGED <<server, runtime, lease>>

\* The daemon is held up in a call, or the runtime is out.
LeaseLapses ==
  /\ lease
  /\ pass.pc # "idle" \/ service # "up"
  /\ lease' = FALSE
  /\ UNCHANGED <<server, runtime, pass, faults>>

------------------------------------------------------------------------------
(* reconcile: what is done about container d, of which o is observed.        *)

terminal_report(exit) == IF exit = "Zero" THEN "ReportSucceeded" ELSE "ReportFailed"
terminal_phase(exit) == IF exit = "Zero" THEN "Succeeded" ELSE "Failed"

ForDeleted(d, o) ==
  IF o # "none" THEN "Cleanup" ELSE IF d.finalizer THEN "ClearFinalizer" ELSE "none"

ForAsleep(d, o) ==
  IF is_terminal(d.phase) THEN "none"
  ELSE IF o = "Running" THEN "Hibernate"
  ELSE IF d.phase = "Hibernated" THEN "none" ELSE "ReportHibernated"

ForExited(d, exit) ==
  IF d.phase = "Hibernated" THEN "Resume"
  ELSE IF should_restart(d.policy, exit) THEN "Restart"
  ELSE IF d.phase = terminal_phase(exit) THEN "none" ELSE terminal_report(exit)

\* Mutant: an instance that is gone is taken to have finished.
ForAwake_GoneIsDone(d, o) ==
  IF o = "none" THEN (IF is_terminal(d.phase) THEN "none"
                      ELSE IF d.phase = "Running" THEN "ReportSucceeded" ELSE "Start")
  ELSE IF o = "Running" THEN (IF d.phase = "Running" THEN "none" ELSE "ReportRunning")
  ELSE ForExited(d, o)

ForAwake(d, o) ==
  IF o = "none" THEN (IF is_terminal(d.phase) THEN "none" ELSE "Start")
  ELSE IF o = "Running" THEN (IF d.phase = "Running" THEN "none" ELSE "ReportRunning")
  ELSE ForExited(d, o)

\* Mutant: the restart policy is asked before the desired state.
reconcile_PolicyFirst(d, o) ==
  IF d.deleting THEN ForDeleted(d, o)
  ELSE IF o \in {"Zero", "NonZero"} /\ should_restart(d.policy, o) THEN "Restart"
  ELSE IF d.desired = "Hibernated" THEN ForAsleep(d, o) ELSE ForAwake(d, o)

reconcile(d, o) ==
  IF d.deleting THEN ForDeleted(d, o)
  ELSE IF d.desired = "Hibernated" THEN ForAsleep(d, o) ELSE ForAwake(d, o)

Plan(listed) ==
  [n \in Names |-> IF listed[n] = NoRow THEN "none" ELSE reconcile(listed[n], inst[listed[n].uid])]

\* Mutant: only what runs is reaped.
Orphans_Running(listed) ==
  {u \in Uids : inst[u] = "Running" /\ \A n \in Names : listed[n] # NoRow => listed[n].uid # u}

Orphans(listed) ==
  {u \in Uids : inst[u] # "none" /\ \A n \in Names : listed[n] # NoRow => listed[n].uid # u}

\* apply_action: the first call of an action, and the one that follows a call.
FirstCall(act) ==
  IF act = "Start" THEN "run"
  ELSE IF act = "Restart" THEN "remove"
  ELSE IF act = "Resume" THEN "start"
  ELSE IF act = "ClearFinalizer" THEN "get"
  ELSE IF act \in {"Hibernate", "Cleanup", "Reap"} THEN "stop"
  ELSE "put"

\* Mutant: a cleanup stops the instance and leaves it there.
NextCall_StopOnly(act, call, d) ==
  IF call = "stop" THEN (IF act = "Hibernate" THEN "put"
                         ELSE IF act = "Cleanup" /\ d.finalizer THEN "get" ELSE "remove")
  ELSE IF call = "remove" /\ act = "Restart" THEN "run"
  ELSE IF call \in {"run", "start"} THEN "put"
  ELSE "none"

NextCall(act, call, d) ==
  IF call = "stop" THEN (IF act = "Hibernate" THEN "put" ELSE "remove")
  ELSE IF call = "remove" /\ act = "Restart" THEN "run"
  ELSE IF call = "remove" /\ act = "Cleanup" /\ d.finalizer THEN "get"
  ELSE IF call \in {"run", "start"} THEN "put"
  ELSE "none"

\* Mutant: the action is sent where its phase should be.
PhaseOf_Act(act) == act

\* running_status, hibernated_status, terminal_status: the phase put.
PhaseOf(act) ==
  IF act \in {"Start", "Restart", "Resume", "ReportRunning"} THEN "Running"
  ELSE IF act \in {"Hibernate", "ReportHibernated"} THEN "Hibernated"
  ELSE IF act = "ReportSucceeded" THEN "Succeeded" ELSE "Failed"

\* failure_reason, of the actions that have one.
ReasonOf(act) ==
  IF act = "Start" THEN "StartFailed"
  ELSE IF act = "Restart" THEN "RestartFailed"
  ELSE IF act = "Resume" THEN "ResumeFailed" ELSE "HibernateFailed"

HasReason(act) == act \in {"Start", "Restart", "Resume", "Hibernate"}

------------------------------------------------------------------------------
(* run_once.                                                                 *)

\* list_assigned.
ListAssigned ==
  /\ pass.pc = "idle"
  /\ pass' = [Waiting("listed") EXCEPT !.listed =
                [n \in Names |-> IF row[n] # NoRow /\ row[n].bound THEN row[n] ELSE NoRow]]
  /\ UNCHANGED <<server, runtime, lease, faults>>

\* Nothing to do for a row: it is not looked at again.
Kept(listed, plan) == [n \in Names |-> IF plan[n] = "none" THEN NoRow ELSE listed[n]]

\* runtime.list, and the decision.  A runtime that cannot list ends the pass.
ListInstances ==
  /\ pass.pc = "listed"
  /\ pass' = IF service # "up" THEN Waiting("idle")
             ELSE LET plan == Plan(pass.listed)
                  IN Between(Kept(pass.listed, plan), plan, Orphans(pass.listed))
  /\ UNCHANGED <<server, runtime, lease, faults>>

\* The containers in the order of the list, then the orphans.
Begin(n) ==
  /\ pass.pc = "between"
  /\ pass.plan[n] # "none"
  /\ \A m \in Names : pass.plan[m] # "none" => n <= m
  /\ pass' = [pass EXCEPT !.pc = "acting", !.who = n, !.uid = pass.listed[n].uid,
                          !.act = pass.plan[n], !.call = FirstCall(pass.plan[n])]
  /\ UNCHANGED <<server, runtime, lease, faults>>

BeginReap(u) ==
  /\ pass.pc = "between"
  /\ \A n \in Names : pass.plan[n] = "none"
  /\ u \in pass.reap
  /\ pass' = [pass EXCEPT !.pc = "acting", !.uid = u, !.act = "Reap", !.call = FirstCall("Reap")]
  /\ UNCHANGED <<server, runtime, lease, faults>>

EndPass ==
  /\ pass.pc = "between"
  /\ pass.reap = {} /\ \A n \in Names : pass.plan[n] = "none"
  /\ pass' = Waiting("idle")
  /\ UNCHANGED <<server, runtime, lease, faults>>

------------------------------------------------------------------------------
(* The calls of the action being carried out.                                *)

Calls(call) == pass.pc = "acting" /\ pass.call = call

Listed == pass.listed[pass.who]
Finalizes == IF pass.who = NoName THEN [finalizer |-> FALSE] ELSE Listed

\* The action is over, done or failed: the pass goes on with the others.
Over ==
  Between([n \in Names |-> IF n = pass.who THEN NoRow ELSE pass.listed[n]],
          [n \in Names |-> IF n = pass.who THEN "none" ELSE pass.plan[n]],
          pass.reap \ {pass.uid})

Proceed ==
  LET next == NextCall(pass.act, pass.call, Finalizes)
  IN pass' = IF next = "none" THEN Over ELSE [pass EXCEPT !.call = next]

\* Mutant: a failed action ends the pass, as `?` would.
Fail_EndsPass == pass' = Waiting("idle")

\* report_failure.  A failure that the listed status already tells of, reason and
\* message, is not written again, nor is one that is not the container's to carry.
Fail ==
  \/ /\ HasReason(pass.act) => Listed.reason = ReasonOf(pass.act)
     /\ pass' = Over
  \/ /\ HasReason(pass.act)
     /\ pass' = [pass EXCEPT !.pc = "failing"]

\* An instance of that name must not exist, not even a stopped one.
CallRun ==
  /\ Calls("run")
  /\ \/ /\ service = "up" /\ inst[pass.uid] = "none" /\ pass.uid \notin BadImages
        /\ inst' = [inst EXCEPT ![pass.uid] = "Running"]
        /\ Proceed
        /\ UNCHANGED faults
     \/ /\ service # "up" \/ inst[pass.uid] # "none" \/ pass.uid \in BadImages
        /\ Fail
        /\ UNCHANGED <<inst, faults>>
     \/ /\ Fault("runtime")
        /\ Fail
        /\ UNCHANGED inst
  /\ UNCHANGED <<server, service, ended, leaked, lease>>

\* `container start` of an instance that there is.
CallStart ==
  /\ Calls("start")
  /\ \/ /\ service = "up" /\ inst[pass.uid] # "none"
        /\ inst' = [inst EXCEPT ![pass.uid] = "Running"]
        /\ Proceed
        /\ UNCHANGED faults
     \/ /\ service # "up" \/ inst[pass.uid] = "none"
        /\ Fail
        /\ UNCHANGED <<inst, faults>>
     \/ /\ Fault("runtime")
        /\ Fail
        /\ UNCHANGED inst
  /\ UNCHANGED <<server, service, ended, leaked, lease>>

\* stop and remove return Ok whatever the CLI says (output_best_effort).
BestEffort(state) ==
  \/ /\ service = "up"
     /\ inst' = [inst EXCEPT ![pass.uid] = state]
     /\ leaked' = leaked \ {pass.uid}
     /\ UNCHANGED faults
  \/ /\ service # "up"
     /\ leaked' = leaked \cup {pass.uid}
     /\ UNCHANGED <<inst, faults>>
  \/ /\ Fault("silent")
     /\ leaked' = leaked \cup {pass.uid}
     /\ UNCHANGED inst

CallStop ==
  /\ Calls("stop")
  /\ BestEffort(IF inst[pass.uid] = "Running" THEN "Zero" ELSE inst[pass.uid])
  /\ Proceed
  /\ UNCHANGED <<server, service, ended, lease>>

CallRemove ==
  /\ Calls("remove")
  /\ BestEffort("none")
  /\ Proceed
  /\ UNCHANGED <<server, service, ended, lease>>

\* replace_status: it names the container, not the uid, and binds it here.
Written(n, phase, reason) ==
  row' = [row EXCEPT ![n] = [@ EXCEPT !.phase = phase, !.reason = reason, !.bound = TRUE]]

PutStatus ==
  /\ Calls("put")
  /\ \/ /\ row[pass.who] # NoRow
        /\ Written(pass.who, PhaseOf(pass.act), "none")
        /\ \/ Proceed /\ UNCHANGED faults
           \/ Fault("api") /\ Fail
     \/ /\ row[pass.who] = NoRow
        /\ Fail
        /\ UNCHANGED <<row, faults>>
     \/ /\ Fault("api")
        /\ Fail
        /\ UNCHANGED row
  /\ UNCHANGED <<uids, runtime, lease>>

\* failed_status: the listed status again, with the reason.
PutFailure ==
  /\ pass.pc = "failing"
  /\ \/ /\ row[pass.who] # NoRow
        /\ Written(pass.who, Listed.phase, ReasonOf(pass.act))
        /\ UNCHANGED faults
     \/ /\ row[pass.who] = NoRow
        /\ UNCHANGED <<row, faults>>
     \/ /\ Fault("api")
        /\ UNCHANGED row
  /\ pass' = Over
  /\ UNCHANGED <<uids, runtime, lease>>

\* clear_finalizer: get, take our finalizer out, replace.
GetContainer ==
  /\ Calls("get")
  /\ \/ /\ pass' = IF row[pass.who] = NoRow THEN Over
                   ELSE [pass EXCEPT !.call = "replace", !.got = row[pass.who]]
        /\ UNCHANGED faults
     \/ /\ Fault("api")
        /\ pass' = Over
  /\ UNCHANGED <<server, runtime, lease>>

\* replace: with the mark in either document the object goes, whichever it is by
\* now; without, put_cas takes the place of what was read, or fails.
Replaced ==
  LET now == row[pass.who] IN
  row' = [row EXCEPT ![pass.who] =
            IF now = NoRow THEN NoRow
            ELSE IF now.deleting \/ pass.got.deleting THEN NoRow
            ELSE IF now = pass.got THEN [now EXCEPT !.finalizer = FALSE] ELSE now]

ReplaceContainer ==
  /\ Calls("replace")
  /\ \/ Replaced /\ UNCHANGED faults
     \/ Fault("api") /\ (Replaced \/ UNCHANGED row)
  /\ pass' = Over
  /\ UNCHANGED <<uids, runtime, lease>>

------------------------------------------------------------------------------
(* heartbeat.                                                                *)

\* Mutant: a CLI that answers is taken for a runtime that works.
ensure_ready_Version ==
  /\ pass.pc = "idle"
  /\ pass' = Waiting("renew")
  /\ UNCHANGED <<server, runtime, lease, faults>>

\* `list` is the probe; if it fails the service is started and probed again.
ensure_ready ==
  /\ pass.pc = "idle"
  /\ service' = IF service = "down" THEN "up" ELSE service
  /\ pass' = IF service = "broken" THEN pass ELSE Waiting("renew")
  /\ UNCHANGED <<server, inst, ended, leaked, lease, faults>>

renew_lease ==
  /\ pass.pc = "renew"
  /\ \/ lease' = TRUE /\ UNCHANGED faults
     \/ Fault("api") /\ UNCHANGED lease
  /\ pass' = Waiting("idle")
  /\ UNCHANGED <<server, runtime>>

------------------------------------------------------------------------------

Users ==
  \E n \in Names : \/ create(n) \/ delete(n) \/ Evict(n) \/ Bind(n)
                   \/ \E d \in {"Running", "Hibernated"} : set_desired_state(n, d)

Machine ==
  \/ \E u \in Uids : Exit(u) \/ Prune(u)
  \/ Outage \/ Mend \/ Crash \/ LeaseLapses

Call ==
  \/ CallRun \/ CallStart \/ CallStop \/ CallRemove
  \/ PutStatus \/ PutFailure \/ GetContainer \/ ReplaceContainer

run_once ==
  \/ ListAssigned \/ ListInstances \/ EndPass \/ Call
  \/ \E n \in Names : Begin(n)
  \/ \E u \in Uids : BeginReap(u)

Next == Users \/ Machine \/ run_once \/ ensure_ready \/ renew_lease

Spec == Init /\ [][Next]_vars

\* run_loop: whatever is under way goes on, and when nothing is, both ticks come.
\* A lease that is not renewed runs out.
FairSpec ==
  /\ Spec
  /\ WF_vars(run_once /\ pass.pc # "idle") /\ WF_vars(renew_lease)
  /\ SF_vars(ListAssigned) /\ SF_vars(ensure_ready)
  /\ WF_vars(LeaseLapses)
------------------------------------------------------------------------------
(* Properties.                                                               *)

Has(n, u) == row[n] # NoRow /\ row[n].uid = u

\* A container that is recorded as Hibernated keeps its instance, and the disk in
\* it, until it is deleted or leaves this worker: a restart, a reap or a cleanup
\* decided from an older list does not take it (reconcile.rs:213-216; the promise
\* is lib.rs:777-778 of the server).
Asleep(u) ==
  /\ inst[u] \in {"Zero", "NonZero"}
  /\ \E n \in Names : /\ Has(n, u) /\ row[n].phase = "Hibernated"
                      /\ row[n].bound /\ ~row[n].deleting

KeepsTheDisk == [][\A u \in Uids : Asleep(u) /\ inst'[u] = "none" => Prune(u)]_vars

\* FINALIZER's comment, lib.rs:32-34: an object with the finalizer is removed only
\* when its micro-VM is, or when a stop or removal of it failed unheard.
RemovedMeansCleaned ==
  [][\A n \in Names \ Overwritten :
       row[n] # NoRow /\ row[n].finalizer /\ row'[n] = NoRow
         => inst[row[n].uid] = "none" \/ row[n].uid \in leaked]_vars

\* What the worker calls finished has ended by itself, through crashes, lost
\* answers, and objects deleted and created again.  Not of a container that the
\* worker may have stopped itself: to hibernate it, or when it had moved away.
TerminalMeansEnded ==
  \A n \in Finalized \ (Overwritten \cup Sleepers \cup Reschedulable) :
    row[n] # NoRow /\ is_terminal(row[n].phase) => row[n].uid \in ended

\* Whatever has gone wrong: a container that is to run on this worker runs, and
\* one that is to sleep does not, once wishes stop changing and the runtime can be
\* used, and although others fail.
Settled(n, desired) ==
  /\ service # "broken"
  /\ row[n] # NoRow /\ row[n].bound /\ ~row[n].deleting /\ row[n].desired = desired
  /\ ~is_terminal(row[n].phase)

Runs(n) == row[n] # NoRow /\ (inst[row[n].uid] = "Running" \/ row[n].uid \in BadImages)
Sleeps(n) == row[n] # NoRow /\ inst[row[n].uid] # "Running"
Orphan(u) == service # "broken" /\ \A n \in Names : ~Has(n, u)

Converges ==
  /\ \A n \in Names : <>[]Settled(n, "Running") => <>[]Runs(n)
  /\ \A n \in Names : <>[]Settled(n, "Hibernated") => <>[]Sleeps(n)

\* An instance that is no container's any more goes, and stays away: one whose
\* object went without cleanup, whose stop or removal failed unheard before the
\* finalizer was cleared, or that an action decided from an older list launched
\* after its object was gone (reconcile's orphans, reconcile.rs, and Reap).
OrphansAreReaped == \A u \in Uids : <>[]Orphan(u) => <>[](inst[u] = "none")

\* heartbeat's comment, lib.rs:435-447: a machine that cannot run containers stops
\* claiming that it can, and one whose services can be started makes the claim again.
HonestLease ==
  /\ <>[](service = "broken") => <>[]~lease
  /\ <>[](service # "broken") => []<>lease
==============================================================================
