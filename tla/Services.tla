------------------------------- MODULE Services -------------------------------
(***************************************************************************)
(* Services: the node ports they own (allocate_node_ports under port_alloc,*)
(* crates/server/src/lib.rs), the endpoints the control plane publishes    *)
(* for them (reconcile_service_endpoints, controllers.rs), and the         *)
(* listeners one worker keeps for them (sync_services and NodeProxy,       *)
(* crates/veloslet).                                                       *)
(*                                                                         *)
(* POST and PUT hold port_alloc from the list to the put.  PUT of the      *)
(* status, DELETE (which marks a row that has finalizers) and the          *)
(* endpoints controller do not: they put back the whole row they have read *)
(* before.  Each list, get, put and delete of the store is one step.       *)
(***************************************************************************)
EXTENDS Integers, FiniteSets

CONSTANTS Names,      \* Service names, positive numbers
          Containers, \* containers that Services select
          Workers,    \* workers
          Nowhere,    \* not Running on any worker
          Addressed,  \* workers that advertise an address
          Node,       \* the worker whose listeners are modelled
          MaxPort,    \* the node-port range is 1..MaxPort
          Contended,  \* ports that other processes of Node have at first
          Asks,       \* bodies that clients send
          Statuses,   \* endpoints that clients write with PUT .../status
          Handlers,   \* requests under way at a time
          MaxRequests,\* bound: requests that are served
          MaxChanges, \* bound: changes of the world below the Services
          NoRow       \* an absent row, a free handler, no listener

Ports == 1..MaxPort
Unset == 0

VARIABLES service,    \* rows of kind Service
          where,      \* per container: the worker whose Running container it is
          alive,      \* containers with a running instance on Node
          port_alloc, \* the handler that holds the lock, or NoRow
          handler,    \* per handler: the request it serves, or NoRow
          ctl,        \* the pass of reconcile_service_endpoints
          listener,   \* per port: the listener on Node, or NoRow
          sync,       \* the pass of sync_services
          held,       \* ports of Node that some other process holds
          restored,   \* Services put back, without the lock, from an out-of-date copy
          served,     \* requests so far
          changes     \* changes so far

vars == <<service, where, alive, port_alloc, handler, ctl, listener, sync, held, restored,
          served, changes>>
requests == <<port_alloc, handler, served>>
world == <<where, alive, held, changes>>
proxy == <<listener, sync>>

------------------------------------------------------------------------------
(* Admission and allocation.                                                 *)

\* Of the ports of a body, the ones asked for by number.
Explicit(ask) == {ask.ports[i] : i \in {j \in DOMAIN ask.ports : ask.ports[j] # Unset}}
Automatic(ask) == Cardinality({i \in DOMAIN ask.ports : ask.ports[i] = Unset})

\* Fail closed: a selector, at least one port, every number in the range and once.
validate_service(ask) ==
  /\ ask.selector # {}
  /\ ask.ports # << >>
  /\ Explicit(ask) \subseteq Ports
  /\ Cardinality(Explicit(ask)) + Automatic(ask) = Cardinality(DOMAIN ask.ports)

ASSUME AsksAssumption ==
  \A ask \in Asks : ask.selector \subseteq Containers /\ ask.finalizer \in BOOLEAN
ASSUME PlacesAssumption == Node \in Workers /\ Addressed \subseteq Workers /\ Nowhere \notin Workers
ASSUME PortsAssumption ==
  /\ MaxPort \in Nat /\ Contended \subseteq Ports
  /\ Names \subseteq Nat \ {0} /\ IsFiniteSet(Names)
ASSUME BoundsAssumption == MaxRequests \in Nat /\ MaxChanges \in Nat

claimed_node_ports(r) == IF r = NoRow THEN {} ELSE r.ports

\* The Service itself is left out, so that a replace keeps its ports.
taken(s) == UNION {claimed_node_ports(service[t]) : t \in Names \ {s}}

\* The n lowest of a set of ports.
Lowest(n, free) == {p \in free : Cardinality({q \in free : q < p}) < n}

\* First every port asked for by number, then the lowest free ones.  Nothing is
\* allocated if one is taken or there are too few (409).
Fits(s, ask) ==
  /\ Explicit(ask) \cap taken(s) = {}
  /\ Automatic(ask) <= Cardinality(Ports \ (taken(s) \cup Explicit(ask)))

\* Mutant: the range starts one too low.
allocate_node_ports_Below(s, ask) ==
  Explicit(ask) \cup Lowest(Automatic(ask), (0..MaxPort) \ (taken(s) \cup Explicit(ask)))

allocate_node_ports(s, ask) ==
  Explicit(ask) \cup Lowest(Automatic(ask), Ports \ (taken(s) \cup Explicit(ask)))

------------------------------------------------------------------------------
(* Rows, endpoints, listeners.                                               *)

\* `deleting` is the deletion mark, `finalizer` that somebody has to clean up first.
Endpoint == [container : Containers, worker : Workers, port : Ports]
Row == [ports : SUBSET Ports, selector : SUBSET Containers, endpoints : SUBSET Endpoint,
        finalizer : BOOLEAN, deleting : BOOLEAN]
View == [ports : SUBSET Ports, selector : SUBSET Containers]

\* What a handler has in hand: a body with the ports allocated to it and what it
\* keeps of the row it read; that row, edited, to be put back; or a row to remove.
Request == [name : Names, ask : Asks, ports : SUBSET Ports, endpoints : SUBSET Endpoint,
            deleting : BOOLEAN, pc : {"allocate", "put"}]
Copy == [name : Names, row : Row, pc : {"copy"}]
Removal == [name : Names, pc : {"remove"}]
Backend == [container : Containers, service : Names]
Listener == [service : Names, backends : SUBSET Backend]

ASSUME StatusesAssumption == Statuses \subseteq SUBSET Endpoint
ASSUME NoRowAssumption ==
  NoRow \notin Row \cup View \cup Request \cup Copy \cup Removal \cup Listener \cup Handlers

\* service_from_doc: what the proxy reads of a row.
service_from_doc(r) == IF r = NoRow THEN NoRow ELSE [ports |-> r.ports, selector |-> r.selector]

\* Mutant: a container is an endpoint wherever it is.
endpoints_for_Anywhere(r) ==
  {e \in Endpoint : e.container \in r.selector /\ e.worker \in Addressed /\ e.port \in r.ports}

\* Each Running container the selector matches, on a worker that advertises an
\* address, with each of the Service's ports.
endpoints_for(r) ==
  {e \in Endpoint : /\ e.container \in r.selector
                    /\ where[e.container] = e.worker /\ e.worker \in Addressed
                    /\ e.port \in r.ports}

\* A listing of Services and what it shows.
NoServices == [s \in Names |-> NoRow]
CtlAt(pc, rows) == [pc |-> pc, rows |-> rows]
CtlIdle == CtlAt("idle", NoServices)
SyncAt(pc, rows) == [pc |-> pc, rows |-> rows]
SyncIdle == SyncAt("idle", NoServices)

TypeOK ==
  /\ service \in [Names -> Row \cup {NoRow}]
  /\ where \in [Containers -> Workers \cup {Nowhere}]
  /\ alive \subseteq Containers
  /\ port_alloc \in Handlers \cup {NoRow}
  /\ handler \in [Handlers -> Request \cup Copy \cup Removal \cup {NoRow}]
  /\ ctl \in [pc : {"idle", "containers", "putting"}, rows : [Names -> Row \cup {NoRow}]]
  /\ listener \in [Ports -> Listener \cup {NoRow}]
  /\ sync \in [pc : {"idle", "instances"}, rows : [Names -> View \cup {NoRow}]]
  /\ held \subseteq Ports
  /\ restored \subseteq Names
  /\ served \in 0..MaxRequests /\ changes \in 0..MaxChanges

Init ==
  /\ service = NoServices
  /\ where = [c \in Containers |-> Nowhere]
  /\ alive = {}
  /\ port_alloc = NoRow
  /\ handler = [h \in Handlers |-> NoRow]
  /\ ctl = CtlIdle
  /\ listener = [p \in Ports |-> NoRow]
  /\ sync = SyncIdle
  /\ held = Contended
  /\ restored = {}
  /\ served = 0 /\ changes = 0

------------------------------------------------------------------------------
(* Requests.                                                                 *)

Serve(h, request) == handler' = [handler EXCEPT ![h] = request]

Arrives == served < MaxRequests /\ served' = served + 1

\* Mutant: requests do not wait for one another.
lock_port_alloc_Not(h) == port_alloc' = h

lock_port_alloc(h) == port_alloc = NoRow /\ port_alloc' = h

Unlock == port_alloc' = NoRow

Allocating(s, ask, endpoints, deleting) ==
  [name |-> s, ask |-> ask, ports |-> {}, endpoints |-> endpoints, deleting |-> deleting,
   pc |-> "allocate"]

\* POST: a new row, or one in the place of the row there is.
create(h, s) ==
  /\ handler[h] = NoRow
  /\ Arrives
  /\ lock_port_alloc(h)
  /\ \E ask \in Asks : validate_service(ask) /\ Serve(h, Allocating(s, ask, {}, FALSE))
  /\ UNCHANGED <<service, ctl, world, proxy, restored>>

\* PUT on a Service that there is: its endpoints and its mark are carried over.
replace(h, s) ==
  /\ handler[h] = NoRow
  /\ service[s] # NoRow
  /\ Arrives
  /\ lock_port_alloc(h)
  /\ \E ask \in Asks :
       /\ validate_service(ask)
       /\ Serve(h, Allocating(s, ask, service[s].endpoints, service[s].deleting))
  /\ UNCHANGED <<service, ctl, world, proxy, restored>>

Allocate(h) ==
  /\ handler[h] # NoRow /\ handler[h].pc = "allocate"
  /\ LET s == handler[h].name
         ask == handler[h].ask
     IN \/ /\ Fits(s, ask)
           /\ Serve(h, [handler[h] EXCEPT !.ports = allocate_node_ports(s, ask), !.pc = "put"])
           /\ UNCHANGED port_alloc
        \/ ~Fits(s, ask) /\ Serve(h, NoRow) /\ Unlock
  /\ UNCHANGED <<service, served, ctl, world, proxy, restored>>

\* The row, or no row: a marked one whose last finalizer the body leaves out goes.
Put(h) ==
  /\ handler[h] # NoRow /\ handler[h].pc = "put"
  /\ service' = [service EXCEPT ![handler[h].name] =
                   IF handler[h].deleting /\ ~handler[h].ask.finalizer THEN NoRow
                   ELSE [ports |-> handler[h].ports, selector |-> handler[h].ask.selector,
                         endpoints |-> handler[h].endpoints,
                         finalizer |-> handler[h].ask.finalizer,
                         deleting |-> handler[h].deleting]]
  /\ restored' = restored \ {handler[h].name}
  /\ Serve(h, NoRow)
  /\ Unlock
  /\ UNCHANGED <<served, ctl, world, proxy>>

\* A row is put without the lock: over the row there is by now, or over nothing.
PutBack(s, row) ==
  /\ service' = [service EXCEPT ![s] = row]
  /\ restored' = IF service_from_doc(row) = service_from_doc(service[s])
                 THEN restored ELSE restored \cup {s}

\* PUT .../status: the row it read, with the client's status.
replace_status(h, s) ==
  /\ handler[h] = NoRow
  /\ service[s] # NoRow
  /\ Arrives
  /\ \E endpoints \in Statuses :
       Serve(h, [name |-> s, row |-> [service[s] EXCEPT !.endpoints = endpoints], pc |-> "copy"])
  /\ UNCHANGED <<service, port_alloc, ctl, world, proxy, restored>>

\* DELETE: the row it read, marked, if that has a finalizer; else the row goes.
delete(h, s) ==
  /\ handler[h] = NoRow
  /\ service[s] # NoRow
  /\ Arrives
  /\ Serve(h, IF service[s].finalizer
              THEN [name |-> s, row |-> [service[s] EXCEPT !.deleting = TRUE], pc |-> "copy"]
              ELSE [name |-> s, pc |-> "remove"])
  /\ UNCHANGED <<service, port_alloc, ctl, world, proxy, restored>>

PutCopy(h) ==
  /\ handler[h] # NoRow /\ handler[h].pc = "copy"
  /\ PutBack(handler[h].name, handler[h].row)
  /\ Serve(h, NoRow)
  /\ UNCHANGED <<port_alloc, served, ctl, world, proxy>>

\* Whatever row there is by now.
Remove(h) ==
  /\ handler[h] # NoRow /\ handler[h].pc = "remove"
  /\ service' = [service EXCEPT ![handler[h].name] = NoRow]
  /\ restored' = restored \ {handler[h].name}
  /\ Serve(h, NoRow)
  /\ UNCHANGED <<port_alloc, served, ctl, world, proxy>>

------------------------------------------------------------------------------
(* Containers come to run, stop and move; what Node's runtime says is not    *)
(* always what the server's rows say.                                        *)

Changes == changes < MaxChanges /\ changes' = changes + 1

Move(c) ==
  /\ Changes
  /\ \E w \in Workers \cup {Nowhere} : w # where[c] /\ where' = [where EXCEPT ![c] = w]
  /\ UNCHANGED <<service, alive, held, requests, ctl, proxy, restored>>

StartOrExit(c) ==
  /\ Changes
  /\ c \in alive \/ where[c] = Node
  /\ alive' = IF c \in alive THEN alive \ {c} ELSE alive \cup {c}
  /\ UNCHANGED <<service, where, held, requests, ctl, proxy, restored>>

\* The process that has a port lets it go.
Vacate(p) ==
  /\ p \in held
  /\ held' = held \ {p}
  /\ UNCHANGED <<service, where, alive, changes, requests, ctl, proxy, restored>>

------------------------------------------------------------------------------
(* reconcile_service_endpoints: list Services, list containers (and the      *)
(* workers' addresses), put back the Services whose endpoints have changed.  *)

ListServices ==
  /\ ctl.pc = "idle"
  /\ service # NoServices
  /\ ctl' = CtlAt("containers", service)
  /\ UNCHANGED <<service, requests, world, proxy, restored>>

\* The clones to put: of the Services whose endpoints are not what they should be.
Clones(rows) ==
  [s \in Names |->
     IF rows[s] = NoRow \/ rows[s].endpoints = endpoints_for(rows[s]) THEN NoRow
     ELSE [rows[s] EXCEPT !.endpoints = endpoints_for(rows[s])]]

ListContainers ==
  /\ ctl.pc = "containers"
  /\ ctl' = IF Clones(ctl.rows) = NoServices THEN CtlIdle ELSE CtlAt("putting", Clones(ctl.rows))
  /\ UNCHANGED <<service, requests, world, proxy, restored>>

\* A clone takes the place of the row, or of nothing.
PutEndpoints(s) ==
  LET rest == [ctl.rows EXCEPT ![s] = NoRow]
  IN /\ ctl.pc = "putting"
     /\ ctl.rows[s] # NoRow /\ \A t \in Names : ctl.rows[t] # NoRow => s <= t
     /\ PutBack(s, ctl.rows[s])
     /\ ctl' = IF rest = NoServices THEN CtlIdle ELSE CtlAt("putting", rest)
     /\ UNCHANGED <<requests, world, proxy>>

------------------------------------------------------------------------------
(* sync_services on Node: list Services, then list the containers bound here *)
(* and the instances, and make the listeners match.  (A list that fails ends *)
(* the pass with the listeners as they are.)                                 *)

SyncServices ==
  /\ sync.pc = "idle"
  /\ sync' = SyncAt("instances", [s \in Names |-> service_from_doc(service[s])])
  /\ UNCHANGED <<service, requests, ctl, world, listener, restored>>

\* Bound here, and with an address in the runtime's list.
local_containers == {c \in alive : where[c] = Node}

backends_of(s) == [container : sync.rows[s].selector \cap local_containers, service : {s}]

\* plan_bindings: a port without a local backend has no binding.
Owners(p) ==
  {s \in Names : sync.rows[s] # NoRow /\ p \in sync.rows[s].ports /\ backends_of(s) # {}}

\* Mutant: a listener is kept if its port is still wanted by anybody.
Stale_ByPort(p) == listener[p] # NoRow /\ Owners(p) = {}

Stale(p) == listener[p] # NoRow /\ listener[p].service \notin Owners(p)

Last(S) == CHOOSE s \in S : \A t \in S : t <= s
First(S) == CHOOSE s \in S : \A t \in S : s <= t

\* Bindings in the order of ports, those of one port in the order of Services: the
\* first is bound, each later one only sends its backends to the listener there is.
Converged(p) ==
  LET live == IF Stale(p) THEN NoRow ELSE listener[p]
      owner == IF live = NoRow THEN First(Owners(p)) ELSE live.service
  IN IF Owners(p) = {} \/ (live = NoRow /\ p \in held) THEN live
     ELSE [service |-> owner, backends |-> backends_of(Last(Owners(p)))]

\* NodeProxy::sync.  A port that cannot be bound is left out of this pass.
Sync ==
  /\ sync.pc = "instances"
  /\ listener' = [p \in Ports |-> Converged(p)]
  /\ sync' = SyncIdle
  /\ UNCHANGED <<service, requests, ctl, world, restored>>

------------------------------------------------------------------------------

Carry(h) == Allocate(h) \/ Put(h) \/ PutCopy(h) \/ Remove(h)

Requests ==
  \/ \E h \in Handlers, s \in Names :
       create(h, s) \/ replace(h, s) \/ replace_status(h, s) \/ delete(h, s)
  \/ \E h \in Handlers : Carry(h)

World == (\E c \in Containers : Move(c) \/ StartOrExit(c)) \/ \E p \in Ports : Vacate(p)

Controller == ListServices \/ ListContainers \/ \E s \in Names : PutEndpoints(s)

Proxy == SyncServices \/ Sync

Next == Requests \/ World \/ Controller \/ Proxy

Spec == Init /\ [][Next]_vars

\* Both loops run for ever, and a request under way is carried out.
FairSpec ==
  /\ Spec
  /\ WF_vars(Controller) /\ WF_vars(Proxy)
  /\ \A h \in Handlers : WF_vars(Carry(h))

------------------------------------------------------------------------------
(* Properties.                                                               *)

\* port_alloc's comment, lib.rs:32-36: no two Services own a node port, however
\* requests overlap.  Every way to two owners leads through a writer that puts back
\* a whole row without the lock (the endpoints controller, PUT .../status, the mark
\* of a DELETE), and through a copy that was out of date: over an edit of the ports,
\* or over nothing, when it brings back a Service whose port was given away.
OneOwner ==
  \A s, t \in Names :
    s # t /\ claimed_node_ports(service[s]) \cap claimed_node_ports(service[t]) # {}
      => s \in restored \/ t \in restored

\* ProxyBinding's comment, proxy.rs:58-61: what a listener forwards to belongs to
\* the Service it was bound for; a port that went to another Service is bound
\* anew.  Unless the Services this pass listed both own the port.
NeverRepointed ==
  [][\A p \in Ports :
       Sync /\ listener'[p] # NoRow /\ (\A s, t \in Owners(p) : s = t)
         => \A b \in listener'[p].backends : b.service = listener'[p].service]_vars

\* The requests and changes there can be come to an end.  From then on what is
\* published is right, and Node listens on just the ports that a local container
\* answers for, those apart that are never let go: whatever the passes had listed
\* before, and with ports that were not free when they were first to be bound.
Published ==
  \A s \in Names, e \in Endpoint :
    service[s] # NoRow =>
      (e \in service[s].endpoints <=> /\ where[e.container] = e.worker /\ e.worker \in Addressed
                                     /\ e.container \in service[s].selector
                                     /\ e.port \in service[s].ports)

Answered(p) ==
  \E s \in Names : /\ service[s] # NoRow /\ p \in service[s].ports
                   /\ \E c \in service[s].selector : where[c] = Node /\ c \in alive

Converges ==
  /\ <>[]Published
  /\ \A p \in Ports : <>[](p \in held \/ (listener[p] # NoRow <=> Answered(p)))
==============================================================================
