----------------------------- MODULE MCScheduler -----------------------------
(* Scheduler on small lists of containers and workers that, between them,    *)
(* take every branch of admission, of parsing, of the filter and of the      *)
(* score.                                                                    *)
EXTENDS Admission

Zone(z) == [zone |-> z]
Needs(key, op, values) == [key |-> key, operator |-> op, values |-> values]
All(exprs) == [matchExpressions |-> exprs]
Required(terms) == [required |-> terms]
Asks(c, m) == [cpu |-> c, memoryBytes |-> m]

MCSpecs ==
  { [desiredState |-> "Running"],
    [resources |-> Asks(2, 2), tolerations |-> {[operator |-> "Sometimes"]}],
    [resources |-> Asks(2, 2)],
    [resources |-> Asks(U32 + 1, 1), nodeName |-> 2],
    [resources |-> Asks(1, 0), nodeSelector |-> [zone |-> 1, disk |-> NotAString]],
    [resources |-> Asks(0, 1),
     affinity |-> Required({All({Needs("zone", "In", <<2, 1>>), Needs("zone", "Lt", <<2>>)}),
                            All({Needs("zone", "Gt", <<1>>)})}),
     tolerations |-> {[operator |-> "Exists", effect |-> "NoSchedule"]}],
    [affinity |-> Required({All({Needs("zone", "Gt", <<NotANumber>>)})})],
    [affinity |-> Required({All({[key |-> "gpu", operator |-> "DoesNotExist"], [operator |-> "Exists"],
                                 Needs("zone", "NotIn", <<1, NotAString>>)})}),
     tolerations |-> {[key |-> "other", operator |-> "Exists", effect |-> "Never"]}],
    [affinity |-> [preferred |->
       << [weight |-> 60, preference |-> All({[key |-> "zone", operator |-> "Exists"]})],
          [weight |-> 10],
          [weight |-> 50, preference |-> All({Needs("zone", "In", <<2>>)})] >>],
     tolerations |-> {[key |-> "gpu", value |-> "yes"]}, desiredState |-> "Hibernated"],
    [affinity |-> [preferred |-> << [weight |-> 101, preference |-> NoObject] >>]],
    [resources |-> Asks(1, 1), desiredState |-> "Paused"] }

MCRequests == {container_placement_request(spec) : spec \in AdmittedSpecs}

Taint(effect) == [key |-> "gpu", value |-> "yes", effect |-> effect]
Soft == [taints |-> <<Taint("PreferNoSchedule")>>]
Hard == [taints |-> <<Taint("NoSchedule"), Taint("PreferNoSchedule")>>]

MCWorkerSpecs == {NoObject, Soft, Hard, [taints |-> <<Taint("NoExecute")>>]}

View(c, m, u, labels, spec) ==
  [ready |-> TRUE, unschedulable |-> FALSE, cpu |-> c, mem |-> m,
   used |-> [cpu |-> u, mem |-> u], labels |-> labels, taints |-> parse_taints(spec)]

MCViews ==
  { View(2, 2, 0, Zone(1), NoObject),
    View(3, 2, 1, Zone(2), NoObject),
    View(1, 2, 2, Zone(NotANumber), NoObject),
    View(2, 3, 0, NoObject, Soft),
    View(2, 2, 0, Zone(2), Hard),
    [View(2, 2, 0, Zone(1), NoObject) EXCEPT !.ready = FALSE],
    [View(2, 2, 0, NoObject, NoObject) EXCEPT !.unschedulable = TRUE] }
==============================================================================
