------------------------------- MODULE Admission -------------------------------
(***************************************************************************)
(* From a document to a placement request: what the API admits             *)
(* (validate_placement and normalize_desired_state, crates/server/src/     *)
(* lib.rs) and what the scheduler controller then reads in it (the parse_* *)
(* functions of crates/server/src/controllers.rs).  The requests of a pass *)
(* are those of admitted documents.                                        *)
(*                                                                         *)
(* A JSON object is a function on the fields that are present, an array a  *)
(* sequence, or a set where its order does not matter.                     *)
(***************************************************************************)
EXTENDS Scheduler

CONSTANTS Specs,       \* the specs that users post: of containers
          WorkerSpecs, \* and of workers
          NotAString,  \* a JSON value where a string belongs
          U32          \* how many values a u32 has (2^32, here a small number)

ASSUME U32Assumption == U32 \in Nat \ {0}

\* A field, unless it is absent or of another type.
Get(object, field, default) ==
  IF field \in DOMAIN object /\ object[field] # NotAString THEN object[field] ELSE default

\* The items of an array that are in a set, in order: filter_map.  (A recursive
\* function, which the proofs can look into.)
Keep(s, good) ==
  LET kept[i \in 0..Len(s)] ==
        IF i = 0 THEN << >>
        ELSE IF s[i] \in good THEN Append(kept[i-1], s[i]) ELSE kept[i-1]
  IN kept[Len(s)]

NoObject == << >>
DEFAULT_CPU == 1
DEFAULT_MEM == 1

------------------------------------------------------------------------------
(* Admission.                                                                *)

validate_term(term) ==
  \A e \in Get(term, "matchExpressions", {}) :
    LET op == Get(e, "operator", "none")
        values == Get(e, "values", << >>)
    IN \/ op \in {"In", "NotIn", "Exists", "DoesNotExist"}
       \/ op \in {"Gt", "Lt"} /\ values # << >> /\ Head(values) \notin {NotANumber, NotAString}

validate_preferred(p) ==
  /\ Get(p, "weight", 0) \in 1..100
  /\ "preference" \in DOMAIN p => validate_term(p.preference)

validate_placement(spec) ==
  LET affinity == Get(spec, "affinity", NoObject)
      preferred == Get(affinity, "preferred", << >>)
  IN /\ \A term \in Get(affinity, "required", {}) : validate_term(term)
     /\ \A i \in DOMAIN preferred : validate_preferred(preferred[i])
     /\ \A t \in Get(spec, "tolerations", {}) : Get(t, "operator", "Equal") \in {"Equal", "Exists"}

TaintEffect == {"NoSchedule", "PreferNoSchedule"}

\* The same of a worker's spec.
validate_taints(spec) ==
  LET taints == Get(spec, "taints", << >>) IN
  \A i \in DOMAIN taints :
    Get(taints[i], "key", "") # "" /\ Get(taints[i], "effect", "none") \in TaintEffect

\* What is stored says whether the container is to run; anything else is refused.
normalize_desired_state(spec) ==
  [f \in DOMAIN spec \cup {"desiredState"} |-> IF f \in DOMAIN spec THEN spec[f] ELSE "Running"]

AdmittedSpecs ==
  {normalize_desired_state(spec) : spec \in
     {s \in Specs : /\ validate_placement(s)
                    /\ normalize_desired_state(s).desiredState \in {"Running", "Hibernated"}}}

AdmittedWorkerSpecs == {spec \in WorkerSpecs : validate_taints(spec)}

------------------------------------------------------------------------------
(* Parsing: what does not parse is left out.                                 *)

\* `as u32`: the ask for cpus wraps.
container_request(spec) ==
  LET resources == Get(spec, "resources", NoObject)
  IN [cpu |-> Get(resources, "cpu", DEFAULT_CPU) % U32,
      mem |-> Get(resources, "memoryBytes", DEFAULT_MEM)]

parse_node_selector(spec) ==
  LET selector == Get(spec, "nodeSelector", NoObject)
  IN [k \in {f \in DOMAIN selector : selector[f] # NotAString} |-> selector[k]]

parse_operator == {"In", "NotIn", "Exists", "DoesNotExist", "Gt", "Lt"}

Parses(e) == "none" # Get(e, "key", "none") /\ Get(e, "operator", "none") \in parse_operator

parse_requirement(e) ==
  LET values == Get(e, "values", << >>)
  IN [key |-> e.key, operator |-> e.operator, values |-> Keep(values, Range(values) \ {NotAString})]

parse_term(term) == {parse_requirement(e) : e \in {x \in Get(term, "matchExpressions", {}) : Parses(x)}}

\* required, and preferred: a preference without its two parts is none.
parse_affinity(spec) ==
  LET affinity == Get(spec, "affinity", NoObject)
      preferred == Get(affinity, "preferred", << >>)
      whole == Keep(preferred, {p \in Range(preferred) : {"weight", "preference"} \subseteq DOMAIN p})
  IN [required  |-> {parse_term(t) : t \in Get(affinity, "required", {})},
      preferred |-> [i \in DOMAIN whole |->
                       [weight |-> whole[i].weight, preference |-> parse_term(whole[i].preference)]]]

\* Any: no effect, or one that does not parse.
parse_taint_effect(effect) == IF effect \in TaintEffect THEN effect ELSE "Any"

parse_toleration(t) ==
  [key      |-> Get(t, "key", ""),
   operator |-> Get(t, "operator", "Equal"),
   value    |-> Get(t, "value", ""),
   effect   |-> parse_taint_effect(Get(t, "effect", "Any"))]

parse_tolerations(spec) ==
  {parse_toleration(t) : t \in
     {x \in Get(spec, "tolerations", {}) : Get(x, "operator", "Equal") \in {"Equal", "Exists"}}}

\* An empty key is a key here; admission has refused it.
parse_taints(spec) ==
  LET taints == Get(spec, "taints", << >>)
      whole == Keep(taints, {t \in Range(taints) : /\ Get(t, "key", NotAString) # NotAString
                                                  /\ Get(t, "effect", "none") \in TaintEffect})
  IN [i \in DOMAIN whole |->
        [key |-> whole[i].key, value |-> Get(whole[i], "value", ""), effect |-> whole[i].effect]]

container_placement_request(spec) ==
  [nodeName     |-> Get(spec, "nodeName", NoPin),
   nodeSelector |-> parse_node_selector(spec),
   tolerations  |-> parse_tolerations(spec),
   required     |-> parse_affinity(spec).required,
   preferred    |-> parse_affinity(spec).preferred,
   cpu          |-> container_request(spec).cpu,
   mem          |-> container_request(spec).mem]

ASSUME RequestsAssumption == Requests = {container_placement_request(spec) : spec \in AdmittedSpecs}
ASSUME ViewsAssumption ==
  \A w \in Views :
    /\ \E spec \in AdmittedWorkerSpecs : w.taints = parse_taints(spec)
    /\ \A k \in DOMAIN w.labels : w.labels[k] # NotAString

\* What a spec is, where it is read: a name is a positive number, arrays that
\* are read in order are sequences.
Array == Seq(Int \cup {NotANumber, NotAString})
ASSUME SpecsAssumption ==
  /\ NotAString \notin Int \cup {NotANumber}
  /\ \A spec \in Specs :
       /\ Get(spec, "nodeName", 1) # NoPin
       /\ Get(Get(spec, "resources", NoObject), "cpu", DEFAULT_CPU) \in Nat
       /\ \A term \in Get(Get(spec, "affinity", NoObject), "required", {}) :
            \A e \in Get(term, "matchExpressions", {}) : Get(e, "values", << >>) \in Array
  /\ \A spec \in WorkerSpecs :
       LET taints == Get(spec, "taints", << >>) IN taints \in Seq(Range(taints))

------------------------------------------------------------------------------
(* What a document demands of a worker, read off the document itself.        *)

\* An expression without a key passes admission and is then left out.
Met(e, labels) ==
  Get(e, "key", "none") # "none" =>
    requirement_matches([key |-> e.key, operator |-> e.operator, values |-> Get(e, "values", << >>)],
                        labels)

Covers(t, taint) ==
  /\ \/ Get(t, "operator", "Equal") = "Exists" /\ Get(t, "key", "") \in {"", taint.key}
     \/ "key" \in DOMAIN t /\ t.key = taint.key /\ Get(t, "value", "") = taint.value
  /\ Get(t, "effect", "Any") \in TaintEffect => t.effect = taint.effect

Allows(spec, j, w) ==
  LET selector == Get(spec, "nodeSelector", NoObject)
      required == Get(Get(spec, "affinity", NoObject), "required", {})
  IN /\ w.ready /\ ~w.unschedulable
     /\ Get(spec, "nodeName", j) = j
     /\ \A k \in DOMAIN selector :
          selector[k] # NotAString => k \in DOMAIN w.labels /\ w.labels[k] = selector[k]
     /\ required # {} =>
          \E term \in required :
            \A e \in Get(term, "matchExpressions", {}) : Met(e, w.labels)
     /\ \A i \in DOMAIN w.taints : w.taints[i].effect = "NoSchedule" =>
          \E t \in Get(spec, "tolerations", {}) : Covers(t, w.taints[i])
     /\ LET cpu == Get(Get(spec, "resources", NoObject), "cpu", DEFAULT_CPU)
        IN cpu < U32 => cpu <= w.cpu

\* validate_placement's comment, server lib.rs:153-154: a malformed demand is refused,
\* not skipped.  So where a container is put, its own document allows it: ready and
\* uncordoned, the pin, the selector, one required term, every NoSchedule taint
\* tolerated, and cpus that the worker has; though document, admission, parser and
\* filter are four readings of it.  Admission does let through, and the parser drops,
\* an expression without a key, a selector value that is no string, an effect that
\* is none, and the upper half of a very large ask for cpus.
HardConstraintsHold ==
  \A k \in DOMAIN out : out[k].worker # 0 =>
    \A spec \in AdmittedSpecs : container_placement_request(spec) = pending[k] =>
      Allows(spec, out[k].worker, workers[out[k].worker])
==============================================================================
