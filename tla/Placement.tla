------------------------------ MODULE Placement ------------------------------
(***************************************************************************)
(* Placement as a pure function (crates/scheduler/src/lib.rs): filter by    *)
(* hard predicates, score by soft preferences, pick.                        *)
(*                                                                         *)
(* Objects are listed sorted by name, so a name is a positive number here.  *)
(* A label value is an integer: what `parse::<i64>` accepts stands for      *)
(* itself, and NotANumber for everything else.                              *)
(***************************************************************************)
EXTENDS Integers, Sequences, FiniteSets, FiniteSetsExt

CONSTANT NotANumber     \* a label value that is not an integer

NoPin == 0
Reason == {"NotReady", "Cordoned", "InsufficientCpu", "InsufficientMemory",
           "NodeNameMismatch", "LabelMismatch", "AffinityMismatch", "UntoleratedTaint"}

------------------------------------------------------------------------------
(* Filter.                                                                   *)

saturating_sub(a, b) == IF a < b THEN 0 ELSE a - b
free_cpu(w, used) == saturating_sub(w.cpu, used.cpu)
free_memory(w, used) == saturating_sub(w.mem, used.mem)

\* Labels are functions on the keys that are present.
node_selector_matches(sel, labels) ==
  \A k \in DOMAIN sel : k \in DOMAIN labels /\ labels[k] = sel[k]

\* Gt and Lt compare only when both sides parse.
BothParse(k, r, labels) ==
  /\ k \in DOMAIN labels /\ labels[k] # NotANumber
  /\ r.values # << >> /\ Head(r.values) # NotANumber

IsOneOf(v, values) == \E i \in DOMAIN values : values[i] = v

requirement_matches(r, labels) ==
  LET present == r.key \in DOMAIN labels IN
  \/ r.operator = "In" /\ present /\ IsOneOf(labels[r.key], r.values)
  \/ r.operator = "NotIn" /\ (present => ~IsOneOf(labels[r.key], r.values))
  \/ r.operator = "Exists" /\ present
  \/ r.operator = "DoesNotExist" /\ ~present
  \/ r.operator = "Gt" /\ BothParse(r.key, r, labels) /\ labels[r.key] > Head(r.values)
  \/ r.operator = "Lt" /\ BothParse(r.key, r, labels) /\ labels[r.key] < Head(r.values)

\* A term is a set of requirements, all of which must match.
term_matches(term, labels) == \A r \in term : requirement_matches(r, labels)

\* Terms are alternatives; no term at all is no demand.
required_matches(terms, labels) == terms = {} \/ \E t \in terms : term_matches(t, labels)

\* Mutant: Exists ignores the key.
tolerates_AnyKey(tol, taint) ==
  /\ tol.effect \in {"Any", taint.effect}
  /\ \/ tol.operator = "Exists"
     \/ tol.operator = "Equal" /\ tol.key = taint.key /\ tol.value = taint.value

\* The empty key (written "") matches every key, under Exists only.
tolerates(tol, taint) ==
  /\ tol.effect \in {"Any", taint.effect}
  /\ \/ tol.operator = "Exists" /\ tol.key \in {"", taint.key}
     \/ tol.operator = "Equal" /\ tol.key = taint.key /\ tol.value = taint.value

Tolerated(req, taint) == \E t \in req.tolerations : tolerates(t, taint)

untolerated(req, w, effect) ==
  {i \in DOMAIN w.taints : w.taints[i].effect = effect /\ ~Tolerated(req, w.taints[i])}

\* Mutant: free memory is compared with what the worker has in all.
checks_TotalMemory(req, w, j, used) ==
  << <<"NotReady",           w.ready>>,
     <<"Cordoned",           ~w.unschedulable>>,
     <<"InsufficientCpu",    free_cpu(w, used) >= req.cpu>>,
     <<"InsufficientMemory", w.mem >= req.mem>>,
     <<"NodeNameMismatch",   req.nodeName \in {NoPin, j}>>,
     <<"LabelMismatch",      node_selector_matches(req.nodeSelector, w.labels)>>,
     <<"AffinityMismatch",   required_matches(req.required, w.labels)>>,
     <<"UntoleratedTaint",   untolerated(req, w, "NoSchedule") = {}>> >>

\* What worker j must pass, in the order it is asked (admits_base, then the
\* four hard filters): reason if it does not, test.
checks(req, w, j, used) ==
  << <<"NotReady",           w.ready>>,
     <<"Cordoned",           ~w.unschedulable>>,
     <<"InsufficientCpu",    free_cpu(w, used) >= req.cpu>>,
     <<"InsufficientMemory", free_memory(w, used) >= req.mem>>,
     <<"NodeNameMismatch",   req.nodeName \in {NoPin, j}>>,
     <<"LabelMismatch",      node_selector_matches(req.nodeSelector, w.labels)>>,
     <<"AffinityMismatch",   required_matches(req.required, w.labels)>>,
     <<"UntoleratedTaint",   untolerated(req, w, "NoSchedule") = {}>> >>

admits(req, w, j, used) == \A i \in 1..8 : checks(req, w, j, used)[i][2]

\* `?` returns the first failure.
rejection(req, w, j, used) ==
  LET c == checks(req, w, j, used)
      first == CHOOSE i \in 1..8 : ~c[i][2] /\ \A h \in 1..(i-1) : c[h][2]
  IN c[first][1]

------------------------------------------------------------------------------
(* Score.                                                                    *)

PREFER_NO_SCHEDULE_PENALTY == 100

score(req, w) ==
  LET matched == {i \in DOMAIN req.preferred :
                    term_matches(req.preferred[i].preference, w.labels)}
  IN MapThenSumSet(LAMBDA i : req.preferred[i].weight, matched)
       - PREFER_NO_SCHEDULE_PENALTY * Cardinality(untolerated(req, w, "PreferNoSchedule"))

------------------------------------------------------------------------------
(* Pick.  `views` and `allocated` are functions on the workers' names.       *)

Admitted(req, views, allocated) ==
  {j \in DOMAIN views : admits(req, views[j], j, allocated[j])}

\* The first of the highest-scored admitted workers; 0 if none is admitted.
\* Scheduler.tla runs the loop that computes it.
schedule(req, views, allocated) ==
  LET S == Admitted(req, views, allocated)
      Beats(j, k) == \/ score(req, views[k]) < score(req, views[j])
                     \/ score(req, views[k]) = score(req, views[j]) /\ j <= k
  IN IF S = {} THEN 0 ELSE CHOOSE j \in S : \A k \in S : Beats(j, k)
==============================================================================
