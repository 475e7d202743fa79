------------------------------ MODULE Scheduler ------------------------------
(***************************************************************************)
(* The loops of placement: schedule's over the workers (pick the best;     *)
(* crates/scheduler/src/lib.rs:324-352) inside plan_bindings' over the      *)
(* pending containers (crates/server/src/controllers.rs:366-397).          *)
(*                                                                         *)
(* The two nested loops are the state machine: one step per worker         *)
(* considered, one per container decided.                                  *)
(*                                                                         *)
(* A worker's name is its position in the list the pass works on.           *)
(***************************************************************************)
EXTENDS Placement

CONSTANTS Requests,    \* placement requests
          Views,       \* worker views
          MaxPending,  \* bound: containers in a pass
          MaxWorkers   \* bound: workers in a pass

VARIABLES pending,     \* the requests of the pass, in order
          workers,     \* the worker views, in order
          allocated,   \* per worker: what is committed, this pass included
          at,          \* the worker `schedule` looks at next
          best,        \* the best worker so far and its score, or NoBest
          reasons,     \* why workers were rejected, for the current container
          out          \* the outcomes so far, one per container decided

vars == <<pending, workers, allocated, at, best, reasons, out>>

NoTally == [r \in Reason |-> 0]
NoBest == [worker |-> 0, score |-> 0]

------------------------------------------------------------------------------
\* Preferences and taints are finite lists, weights are integers.
ASSUME ScoreAssumption ==
  /\ \A req \in Requests : /\ IsFiniteSet(DOMAIN req.preferred)
                           /\ \A i \in DOMAIN req.preferred : req.preferred[i].weight \in Int
  /\ \A w \in Views : IsFiniteSet(DOMAIN w.taints)
ASSUME AmountsAssumption ==
  /\ \A req \in Requests : req.cpu \in Nat /\ req.mem \in Nat
  /\ \A w \in Views : /\ w.cpu \in Nat /\ w.mem \in Nat
                      /\ w.used \in [cpu : Nat, mem : Nat]
ASSUME BoundsAssumption == MaxPending \in Nat /\ MaxWorkers \in Nat

------------------------------------------------------------------------------
(* The pass.                                                                 *)

Init ==
  /\ pending \in UNION {[1..n -> Requests] : n \in 1..MaxPending}
  /\ workers \in UNION {[1..n -> Views] : n \in 0..MaxWorkers}
  /\ allocated = [j \in DOMAIN workers |-> workers[j].used]
  /\ at = 1
  /\ best = NoBest
  /\ reasons = << >>
  /\ out = << >>

More == Len(out) < Len(pending)
request == pending[Len(out) + 1]

\* Mutant: the first admitted worker stays.
better_Never(s) == best = NoBest

better(s) == best = NoBest \/ s > best.score

\* One turn of schedule's loop over the workers.
Consider ==
  /\ More
  /\ at <= Len(workers)
  /\ LET w == workers[at]
         used == allocated[at]
         s == score(request, w)
     IN IF admits(request, w, at, used)
        THEN /\ best' = IF better(s) THEN [worker |-> at, score |-> s] ELSE best
             /\ UNCHANGED reasons
        ELSE /\ reasons' = Append(reasons, rejection(request, w, at, used))
             /\ UNCHANGED best
  /\ at' = at + 1
  /\ UNCHANGED <<pending, workers, allocated, out>>

\* Mutant: a placement is given back instead of accounted for.
committed_Released(used, req) == [cpu |-> used.cpu - req.cpu, mem |-> used.mem - req.mem]

\* What is committed to a worker once the container is placed there.
committed(used, req) == [cpu |-> used.cpu + req.cpu, mem |-> used.mem + req.mem]

NextContainer == at' = 1 /\ best' = NoBest /\ reasons' = << >>

\* The loop is over and found a worker: plan_bindings accounts for it.
Bind ==
  /\ More
  /\ at > Len(workers)
  /\ best # NoBest
  /\ allocated' = [allocated EXCEPT ![best.worker] = committed(@, request)]
  /\ out' = Append(out, [worker |-> best.worker, tally |-> NoTally])
  /\ NextContainer
  /\ UNCHANGED <<pending, workers>>

\* Mutant: each reason is counted once.
tally_Distinct == [r \in Reason |-> IF \E i \in DOMAIN reasons : reasons[i] = r THEN 1 ELSE 0]

\* unschedulable_reason: how many workers were rejected for each reason.
tally == [r \in Reason |-> Cardinality({i \in DOMAIN reasons : reasons[i] = r})]

GiveUp ==
  /\ More
  /\ at > Len(workers)
  /\ best = NoBest
  /\ out' = Append(out, [worker |-> 0, tally |-> tally])
  /\ NextContainer
  /\ UNCHANGED <<pending, workers, allocated>>

Next == Consider \/ Bind \/ GiveUp

Spec == Init /\ [][Next]_vars

------------------------------------------------------------------------------
TypeOK ==
  /\ pending \in Seq(Requests)
  /\ workers \in Seq(Views)
  /\ allocated \in [DOMAIN workers -> [cpu : Nat, mem : Nat]]
  /\ at \in 1..(Len(workers) + 1)
  /\ best \in {NoBest} \cup [worker : DOMAIN workers, score : Int]
  /\ reasons \in Seq(Reason)
  /\ out \in Seq([worker : 0..Len(workers), tally : [Reason -> Nat]])
  /\ Len(out) <= Len(pending)

\* The loop over the workers is over for the current container.
Decided == More /\ at > Len(workers)

AdmittedNow == Admitted(request, workers, allocated)

\* The pass never places on a worker more than is free there, its own earlier
\* placements included: what is committed fits, or was there before the pass.
NoOvercommit ==
  \A j \in DOMAIN workers :
    /\ allocated[j].cpu <= workers[j].cpu \/ allocated[j].cpu = workers[j].used.cpu
    /\ allocated[j].mem <= workers[j].mem \/ allocated[j].mem = workers[j].used.mem

IsBestOf(candidates) ==
  IF best = NoBest THEN candidates = {}
  ELSE /\ best.worker \in candidates
       /\ best.score = score(request, workers[best.worker])
       /\ \A j \in candidates :
            LET s == score(request, workers[j]) IN
            s < best.score \/ (s = best.score /\ best.worker <= j)

\* `schedule` answers with the first of the best: an admitted worker no other
\* admitted worker outscores, earliest in the list among its equals; and with
\* none only if none is admitted.
PickIsBest ==
  Decided => /\ IsBestOf(AdmittedNow)
             /\ best.worker = schedule(request, workers, allocated)

\* With no preference and no soft taint the pick is plain first fit
\* (crates/scheduler/src/lib.rs:10-11).
FirstFitByDefault ==
  /\ Decided /\ best # NoBest
  /\ request.preferred = << >>
  /\ \A j \in DOMAIN workers : \A i \in DOMAIN workers[j].taints :
       workers[j].taints[i].effect # "PreferNoSchedule"
  => best.worker = Min(AdmittedNow)

\* The explanation given for a container that fits nowhere accounts for every
\* worker exactly once.
EveryWorkerAccountedFor ==
  \A k \in DOMAIN out : out[k].worker = 0 =>
    MapThenSumSet(LAMBDA r : out[k].tally[r], Reason) = Len(workers)
==============================================================================
