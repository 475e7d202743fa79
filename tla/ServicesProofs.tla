---------------------------- MODULE ServicesProofs ----------------------------
(***************************************************************************)
(* A node port has one owner, for every set of Services, ports, bodies and *)
(* handlers.  What makes it inductive: a request that allocates holds the  *)
(* lock, and what it has allocated is nobody else's, Services that were    *)
(* put back without the lock from an old copy apart.                       *)
(***************************************************************************)
EXTENDS Services, SumTheorems

Held == Request \cup Copy \cup Removal

RowsOK ==
  /\ service \in [Names -> Row \cup {NoRow}]
  /\ ctl \in [pc : {"idle", "containers", "putting"}, rows : [Names -> Row \cup {NoRow}]]
  /\ handler \in [Handlers -> Held \cup {NoRow}]

\* A handler between its choice of ports and its put, or before that choice.
Allocates(h) == handler[h] # NoRow /\ handler[h].pc \in {"allocate", "put"}

\* Who allocates holds port_alloc.
Locked == \A h \in Handlers : Allocates(h) => port_alloc = h

\* What is served was admitted.
Validated == \A h \in Handlers : Allocates(h) => validate_service(handler[h].ask)

\* Ports chosen and not yet put are free, but for Services out of an old copy.
Reserved ==
  \A h \in Handlers : handler[h] # NoRow /\ handler[h].pc = "put" =>
    \A t \in Names \ {handler[h].name} :
      t \in restored \/ handler[h].ports \cap claimed_node_ports(service[t]) = {}

IInv == RowsOK /\ Locked /\ Validated /\ Reserved /\ OneOwner

------------------------------------------------------------------------------
(* Allocation.                                                               *)

\* What allocate_node_ports takes is in the range, and is no other Service's.
LEMMA AllocateIsFree ==
  ASSUME NEW s \in Names, NEW ask, Explicit(ask) \subseteq Ports, Fits(s, ask)
  PROVE  /\ allocate_node_ports(s, ask) \subseteq Ports
         /\ \A t \in Names \ {s} :
              allocate_node_ports(s, ask) \cap claimed_node_ports(service[t]) = {}
<1>1. allocate_node_ports(s, ask) \subseteq Ports
  BY DEF allocate_node_ports, Lowest
<1>2. allocate_node_ports(s, ask) \cap taken(s) = {}
  BY DEF allocate_node_ports, Lowest, Fits
<1>3. \A t \in Names \ {s} : claimed_node_ports(service[t]) \subseteq taken(s)
  BY DEF taken
<1> QED
  BY <1>1, <1>2, <1>3

\* A clone that shows the proxy what the row shows it owns what the row owns.
LEMMA SameViewSamePorts ==
  ASSUME NEW r \in Row, NEW q \in Row \cup {NoRow}, service_from_doc(r) = service_from_doc(q)
  PROVE  claimed_node_ports(r) = claimed_node_ports(q)
<1>1. r # NoRow
  BY NoRowAssumption
<1>2. service_from_doc(r) = [ports |-> r.ports, selector |-> r.selector]
  BY <1>1 DEF service_from_doc
<1>3. service_from_doc(r) \in View
  BY <1>2 DEF View, Row
<1>4. q # NoRow
  BY <1>3, NoRowAssumption DEF service_from_doc
<1>5. r.ports = q.ports
  <2>1. service_from_doc(q) = [ports |-> q.ports, selector |-> q.selector]
    BY <1>4 DEF service_from_doc
  <2>2. service_from_doc(r).ports = r.ports
    BY <1>2
  <2>3. service_from_doc(q).ports = q.ports
    BY <2>1
  <2> QED
    BY <2>2, <2>3
<1> QED
  BY <1>1, <1>4, <1>5 DEF claimed_node_ports

\* What a handler does next tells what it has in hand.
LEMMA PcTells ==
  ASSUME NEW r \in Held
  PROVE  /\ r # NoRow
         /\ r.pc \in {"allocate", "put"} => r \in Request
         /\ r.pc = "copy" => r \in Copy
         /\ r.pc = "remove" => r \in Removal
  BY NoRowAssumption DEF Held, Request, Copy, Removal

LEMMA EndpointsType ==
  ASSUME NEW r \in Row PROVE endpoints_for(r) \in SUBSET Endpoint
BY DEF endpoints_for

------------------------------------------------------------------------------
(* The inductive step, action by action.                                     *)

LEMMA InitHolds == Init => IInv
<1> SUFFICES ASSUME Init PROVE IInv
  OBVIOUS
<1>1. RowsOK
  BY DEF Init, RowsOK, NoServices, CtlIdle, CtlAt
<1>2. Locked /\ Validated /\ Reserved
  BY DEF Init, Locked, Validated, Reserved, Allocates
<1>3. OneOwner
  BY DEF Init, OneOwner, NoServices, claimed_node_ports
<1> QED
  BY <1>1, <1>2, <1>3 DEF IInv

\* A request that arrives to allocate finds the lock free and takes it.
LEMMA ArrivalKeeps ==
  ASSUME IInv, NEW h \in Handlers, NEW r \in Request,
         lock_port_alloc(h), Serve(h, r),
         validate_service(r.ask), r.pc = "allocate",
         UNCHANGED <<service, ctl, restored>>
  PROVE  IInv'
<1>1. \A k \in Handlers : ~Allocates(k)
  BY NoRowAssumption DEF IInv, Locked, lock_port_alloc
<1>2. handler' = [handler EXCEPT ![h] = r] /\ handler \in [Handlers -> Held \cup {NoRow}]
  BY DEF Serve, IInv, RowsOK
<1>3. RowsOK'
  BY <1>2 DEF IInv, RowsOK, Held
<1>4. handler'[h] = r /\ \A k \in Handlers \ {h} : handler'[k] = handler[k]
  BY <1>2
<1>5. Locked' /\ Validated'
  BY <1>1, <1>4 DEF Locked, Validated, Allocates, lock_port_alloc
<1>6. Reserved'
  BY <1>1, <1>4 DEF Reserved, Allocates
<1>7. OneOwner'
  BY DEF IInv, OneOwner
<1> QED
  BY <1>3, <1>5, <1>6, <1>7 DEF IInv

\* One that arrives to put back a row, or to remove it, takes nothing.
LEMMA CopyKeeps ==
  ASSUME IInv, NEW h \in Handlers, NEW r \in Copy \cup Removal, Serve(h, r),
         UNCHANGED <<service, port_alloc, ctl, restored>>
  PROVE  IInv'
<1>1. handler' = [handler EXCEPT ![h] = r] /\ handler \in [Handlers -> Held \cup {NoRow}]
  BY DEF Serve, IInv, RowsOK
<1>2. r.pc \notin {"allocate", "put"}
  BY DEF Copy, Removal
<1>3. handler'[h] = r /\ \A k \in Handlers \ {h} : handler'[k] = handler[k]
  BY <1>1
<1>4. RowsOK'
  BY <1>1 DEF IInv, RowsOK, Held
<1>5. Locked' /\ Validated' /\ Reserved' /\ OneOwner'
  BY <1>2, <1>3 DEF IInv, Locked, Validated, Reserved, Allocates, OneOwner
<1> QED
  BY <1>4, <1>5 DEF IInv

LEMMA CreateKeeps ==
  ASSUME IInv, NEW h \in Handlers, NEW s \in Names, create(h, s) PROVE IInv'
<1>1. PICK ask \in Asks : validate_service(ask) /\ Serve(h, Allocating(s, ask, {}, FALSE))
  BY DEF create
<1> DEFINE r == Allocating(s, ask, {}, FALSE)
<1>2. r \in Request /\ r.ask = ask /\ r.pc = "allocate"
  BY DEF Request, Allocating
<1>3. lock_port_alloc(h) /\ UNCHANGED <<service, ctl, restored>>
  BY DEF create
<1> HIDE DEF r
<1> QED
  BY <1>1, <1>2, <1>3, ArrivalKeeps DEF r

LEMMA ReplaceKeeps ==
  ASSUME IInv, NEW h \in Handlers, NEW s \in Names, replace(h, s) PROVE IInv'
<1>1. PICK ask \in Asks :
        /\ validate_service(ask)
        /\ Serve(h, Allocating(s, ask, service[s].endpoints, service[s].deleting))
  BY DEF replace
<1> DEFINE r == Allocating(s, ask, service[s].endpoints, service[s].deleting)
<1>2. service[s] \in Row
  BY DEF replace, IInv, RowsOK
<1>3. r \in Request /\ r.ask = ask /\ r.pc = "allocate"
  BY <1>2 DEF Request, Row, Allocating
<1>4. lock_port_alloc(h) /\ UNCHANGED <<service, ctl, restored>>
  BY DEF replace
<1> HIDE DEF r
<1> QED
  BY <1>1, <1>3, <1>4, ArrivalKeeps DEF r

LEMMA ReplaceStatusKeeps ==
  ASSUME IInv, NEW h \in Handlers, NEW s \in Names, replace_status(h, s) PROVE IInv'
<1>1. PICK endpoints \in Statuses :
        Serve(h, [name |-> s, row |-> [service[s] EXCEPT !.endpoints = endpoints], pc |-> "copy"])
  BY DEF replace_status
<1> DEFINE r == [name |-> s, row |-> [service[s] EXCEPT !.endpoints = endpoints], pc |-> "copy"]
<1>2. service[s] \in Row /\ endpoints \in SUBSET Endpoint
  BY StatusesAssumption DEF replace_status, IInv, RowsOK
<1>3. r \in Copy
  BY <1>2 DEF Copy, Row
<1>4. UNCHANGED <<service, port_alloc, ctl, restored>>
  BY DEF replace_status
<1> HIDE DEF r
<1> QED
  BY <1>1, <1>3, <1>4, CopyKeeps DEF r

LEMMA DeleteKeeps ==
  ASSUME IInv, NEW h \in Handlers, NEW s \in Names, delete(h, s) PROVE IInv'
<1> DEFINE r == IF service[s].finalizer
                THEN [name |-> s, row |-> [service[s] EXCEPT !.deleting = TRUE], pc |-> "copy"]
                ELSE [name |-> s, pc |-> "remove"]
<1>1. service[s] \in Row
  BY DEF delete, IInv, RowsOK
<1>2. r \in Copy \cup Removal
  BY <1>1 DEF Copy, Removal, Row
<1>3. Serve(h, r) /\ UNCHANGED <<service, port_alloc, ctl, restored>>
  BY DEF delete
<1> HIDE DEF r
<1> QED
  BY <1>2, <1>3, CopyKeeps

LEMMA AllocateKeeps ==
  ASSUME IInv, NEW h \in Handlers, Allocate(h) PROVE IInv'
<1> DEFINE s == handler[h].name
           ask == handler[h].ask
           r == [handler[h] EXCEPT !.ports = allocate_node_ports(s, ask), !.pc = "put"]
<1>1. handler[h] \in Request /\ port_alloc = h /\ validate_service(ask)
  BY PcTells DEF Allocate, IInv, RowsOK, Locked, Validated, Allocates
<1>2. handler \in [Handlers -> Held \cup {NoRow}] /\ UNCHANGED <<service, ctl, restored>>
  BY DEF Allocate, IInv, RowsOK
<1>3. OneOwner'
  BY <1>2 DEF IInv, OneOwner
<1>0. \A k \in Handlers \ {h} : ~Allocates(k)
  BY <1>1 DEF IInv, Locked
<1>4. CASE /\ Fits(s, ask)
           /\ handler' = [handler EXCEPT ![h] = r]
           /\ UNCHANGED port_alloc
  <2>1. s \in Names /\ Explicit(ask) \subseteq Ports
    BY <1>1 DEF Request, validate_service
  <2>2. /\ allocate_node_ports(s, ask) \subseteq Ports
        /\ \A t \in Names \ {s} :
             allocate_node_ports(s, ask) \cap claimed_node_ports(service[t]) = {}
    BY <2>1, <1>4, AllocateIsFree
  <2>3. /\ r \in Request
        /\ r.name = s /\ r.ask = ask
        /\ r.ports = allocate_node_ports(s, ask)
    BY <1>1, <2>2 DEF Request
  <2> HIDE DEF r
  <2>4. RowsOK'
    BY <1>2, <1>4, <2>3 DEF IInv, RowsOK, Held
  <2>5. handler'[h] = r /\ \A k \in Handlers \ {h} : handler'[k] = handler[k]
    BY <1>2, <1>4
  <2>6. Locked' /\ Validated'
    BY <1>0, <1>1, <1>4, <2>3, <2>5 DEF Locked, Validated, Allocates
  <2>7. Reserved'
    BY <1>0, <1>2, <2>2, <2>3, <2>5 DEF Reserved, Allocates
  <2> QED
    BY <1>3, <2>4, <2>6, <2>7 DEF IInv
<1>5. CASE ~Fits(s, ask) /\ handler' = [handler EXCEPT ![h] = NoRow]
  <2>1. handler'[h] = NoRow /\ \A k \in Handlers \ {h} : handler'[k] = handler[k]
    BY <1>2, <1>5
  <2>2. RowsOK'
    BY <1>2, <1>5 DEF IInv, RowsOK
  <2>3. Locked' /\ Validated' /\ Reserved'
    BY <1>0, <2>1 DEF Locked, Validated, Reserved, Allocates
  <2> QED
    BY <1>3, <2>2, <2>3 DEF IInv
<1> QED
  BY <1>4, <1>5 DEF Allocate, Serve

\* The put under the lock: the new owner is nobody's rival.
LEMMA PutKeeps ==
  ASSUME IInv, NEW h \in Handlers, Put(h) PROVE IInv'
<1> DEFINE s == handler[h].name
           q == [ports |-> handler[h].ports, selector |-> handler[h].ask.selector,
                 endpoints |-> handler[h].endpoints, finalizer |-> handler[h].ask.finalizer,
                 deleting |-> handler[h].deleting]
           r == IF handler[h].deleting /\ ~handler[h].ask.finalizer THEN NoRow ELSE q
<1>1. handler[h] \in Request /\ port_alloc = h /\ handler[h].pc = "put"
  BY PcTells DEF Put, IInv, RowsOK, Locked, Allocates
<1>2. /\ service' = [service EXCEPT ![s] = r]
      /\ restored' = restored \ {s}
      /\ handler' = [handler EXCEPT ![h] = NoRow]
      /\ UNCHANGED ctl
  BY DEF Put, Serve
<1>3. s \in Names /\ q \in Row /\ r \in Row \cup {NoRow}
  BY <1>1, AsksAssumption DEF Request, Row
<1>4. RowsOK'
  <2> HIDE DEF r
  <2> QED
    BY <1>2, <1>3 DEF IInv, RowsOK
<1>5. /\ \A k \in Handlers \ {h} : handler'[k] = handler[k] /\ ~Allocates(k)
      /\ handler'[h] = NoRow
  BY <1>1, <1>2 DEF IInv, Locked, RowsOK
<1>6. Locked' /\ Validated' /\ Reserved'
  BY <1>5 DEF Locked, Validated, Reserved, Allocates
<1>7. OneOwner'
  <2>1. claimed_node_ports(r) \subseteq handler[h].ports
    BY <1>3, NoRowAssumption DEF claimed_node_ports
  <2>2. \A t \in Names \ {s} :
          t \in restored \/ claimed_node_ports(r) \cap claimed_node_ports(service[t]) = {}
    BY <1>1, <2>1, NoRowAssumption DEF IInv, Reserved
  <2>3. service'[s] = r /\ \A t \in Names \ {s} : service'[t] = service[t]
    BY <1>2, <1>3 DEF IInv, RowsOK
  <2> HIDE DEF r
  <2> QED
    BY <1>2, <2>2, <2>3 DEF IInv, OneOwner
<1> QED
  BY <1>4, <1>6, <1>7 DEF IInv

\* A copy that is up to date owns what the row owned; any other is in `restored`.
LEMMA PutBackKeeps ==
  ASSUME IInv, NEW s \in Names, NEW r \in Row, PutBack(s, r),
         \A h \in Handlers : handler'[h] = handler[h] \/ handler'[h] = NoRow,
         RowsOK', UNCHANGED port_alloc
  PROVE  IInv'
<1> DEFINE same == service_from_doc(r) = service_from_doc(service[s])
<1>1. /\ service \in [Names -> Row \cup {NoRow}]
      /\ service' = [service EXCEPT ![s] = r]
      /\ restored' = IF same THEN restored ELSE restored \cup {s}
  BY DEF PutBack, IInv, RowsOK
<1>2. \A t \in Names :
        t \in restored' \/ (t \notin restored /\ claimed_node_ports(service'[t]) = claimed_node_ports(service[t]))
  <2>1. same => claimed_node_ports(r) = claimed_node_ports(service[s])
    BY <1>1, SameViewSamePorts
  <2>2. service'[s] = r /\ \A t \in Names \ {s} : service'[t] = service[t]
    BY <1>1
  <2> HIDE DEF same
  <2> QED
    BY <1>1, <2>1, <2>2
<1>3. restored \subseteq restored'
  BY <1>1
<1>4. Locked' /\ Validated'
  BY DEF IInv, Locked, Validated, Allocates
<1>5. Reserved'
  BY <1>2, <1>3 DEF IInv, Reserved
<1>6. OneOwner'
  BY <1>2, <1>3 DEF IInv, OneOwner
<1> QED
  BY <1>4, <1>5, <1>6 DEF IInv

LEMMA PutCopyKeeps ==
  ASSUME IInv, NEW h \in Handlers, PutCopy(h) PROVE IInv'
<1>1. handler[h] \in Copy
  BY PcTells DEF PutCopy, IInv, RowsOK
<1>2. handler[h].name \in Names /\ handler[h].row \in Row
  BY <1>1 DEF Copy
<1>3. /\ PutBack(handler[h].name, handler[h].row)
      /\ handler' = [handler EXCEPT ![h] = NoRow]
      /\ UNCHANGED <<port_alloc, ctl>>
  BY DEF PutCopy, Serve
<1>4. RowsOK'
  BY <1>2, <1>3 DEF IInv, RowsOK, PutBack
<1>5. \A k \in Handlers : handler'[k] = handler[k] \/ handler'[k] = NoRow
  BY <1>3 DEF IInv, RowsOK
<1> QED
  BY <1>2, <1>3, <1>4, <1>5, PutBackKeeps

LEMMA RemoveKeeps ==
  ASSUME IInv, NEW h \in Handlers, Remove(h) PROVE IInv'
<1> DEFINE s == handler[h].name
<1>1. handler[h] \in Removal
  BY PcTells DEF Remove, IInv, RowsOK
<1>2. s \in Names
  BY <1>1 DEF Removal
<1>3. /\ service' = [service EXCEPT ![s] = NoRow]
      /\ restored' = restored \ {s}
      /\ handler' = [handler EXCEPT ![h] = NoRow]
      /\ UNCHANGED <<port_alloc, ctl>>
  BY DEF Remove, Serve
<1> HIDE DEF s
<1>4. RowsOK'
  BY <1>2, <1>3 DEF IInv, RowsOK
<1>5. claimed_node_ports(service'[s]) = {} /\ \A t \in Names \ {s} : service'[t] = service[t]
  BY <1>2, <1>3 DEF IInv, RowsOK, claimed_node_ports
<1>6. \A k \in Handlers : handler'[k] = handler[k] \/ handler'[k] = NoRow
  BY <1>3 DEF IInv, RowsOK
<1>7. Locked' /\ Validated'
  BY <1>3, <1>6 DEF IInv, Locked, Validated, Allocates
<1>8. Reserved'
  BY <1>3, <1>5, <1>6 DEF IInv, Reserved
<1>9. OneOwner'
  BY <1>3, <1>5 DEF IInv, OneOwner
<1> QED
  BY <1>4, <1>7, <1>8, <1>9 DEF IInv

LEMMA PutEndpointsKeeps ==
  ASSUME IInv, NEW s \in Names, PutEndpoints(s) PROVE IInv'
<1>1. /\ ctl.rows[s] \in Row
      /\ PutBack(s, ctl.rows[s])
      /\ UNCHANGED <<port_alloc, handler>>
  BY DEF PutEndpoints, IInv, RowsOK, requests
<1>2. [ctl.rows EXCEPT ![s] = NoRow] \in [Names -> Row \cup {NoRow}]
  BY DEF IInv, RowsOK
<1>3. ctl' \in [pc : {"idle", "containers", "putting"}, rows : [Names -> Row \cup {NoRow}]]
  BY <1>2 DEF PutEndpoints, CtlIdle, CtlAt, NoServices
<1>4. RowsOK'
  BY <1>1, <1>3 DEF IInv, RowsOK, PutBack
<1> QED
  BY <1>1, <1>4, PutBackKeeps

\* A pass of the controller before its puts.
LEMMA ListingKeeps ==
  ASSUME IInv, ListServices \/ ListContainers PROVE IInv'
<1>1. UNCHANGED <<service, port_alloc, handler, restored>>
  BY DEF ListServices, ListContainers, requests
<1>2. Clones(ctl.rows) \in [Names -> Row \cup {NoRow}]
  <2> SUFFICES ASSUME NEW t \in Names
               PROVE  Clones(ctl.rows)[t] \in Row \cup {NoRow}
    BY DEF Clones
  <2>1. ctl.rows[t] \in Row => [ctl.rows[t] EXCEPT !.endpoints = endpoints_for(ctl.rows[t])] \in Row
    BY EndpointsType DEF Row
  <2> QED
    BY <2>1 DEF Clones, IInv, RowsOK
<1>3. RowsOK'
  BY <1>1, <1>2 DEF ListServices, ListContainers, IInv, RowsOK, CtlAt, CtlIdle, NoServices
<1>4. (Locked /\ Validated /\ Reserved /\ OneOwner)'
  BY <1>1 DEF IInv, Locked, Validated, Reserved, Allocates, OneOwner
<1> QED
  BY <1>3, <1>4 DEF IInv

\* Steps that touch no row of a Service and no request.
LEMMA OthersKeep ==
  ASSUME IInv, UNCHANGED <<service, port_alloc, handler, ctl, restored>> PROVE IInv'
<1>1. RowsOK'
  BY DEF IInv, RowsOK
<1>2. (Locked /\ Validated /\ Reserved /\ OneOwner)'
  BY DEF IInv, Locked, Validated, Reserved, Allocates, OneOwner
<1> QED
  BY <1>1, <1>2 DEF IInv

LEMMA StepKeeps == IInv /\ [Next]_vars => IInv'
<1> SUFFICES ASSUME IInv, [Next]_vars PROVE IInv'
  OBVIOUS
<1>1. CASE Requests
  BY <1>1, CreateKeeps, ReplaceKeeps, ReplaceStatusKeeps, DeleteKeeps, AllocateKeeps, PutKeeps,
     PutCopyKeeps, RemoveKeeps DEF Requests, Carry
<1>2. CASE Controller
  BY <1>2, ListingKeeps, PutEndpointsKeeps DEF Controller
<1>3. CASE World
  <2>1. UNCHANGED <<service, port_alloc, handler, ctl, restored>>
    BY <1>3 DEF World, Move, StartOrExit, Vacate, requests
  <2> QED
    BY <2>1, OthersKeep
<1>4. CASE Proxy
  <2>1. UNCHANGED <<service, port_alloc, handler, ctl, restored>>
    BY <1>4 DEF Proxy, SyncServices, Sync, requests
  <2> QED
    BY <2>1, OthersKeep
<1>5. CASE UNCHANGED vars
  <2>1. UNCHANGED <<service, port_alloc, handler, ctl, restored>>
    BY <1>5 DEF vars
  <2> QED
    BY <2>1, OthersKeep
<1> QED
  BY <1>1, <1>2, <1>3, <1>4, <1>5 DEF Next

\* No two Services own a node port, whatever requests overlap, Services apart that
\* a writer without the lock put back from an out-of-date copy: the endpoints
\* controller, replace_status and the mark of delete (create, replace and
\* allocate_node_ports, in server/src/lib.rs, allocate under port_alloc).
THEOREM NodePortsHaveOneOwner == Spec => []OneOwner
<1>1. IInv => OneOwner
  BY DEF IInv
<1> QED
  BY <1>1, InitHolds, StepKeeps, PTL DEF Spec

------------------------------------------------------------------------------
(* The proxy.                                                                *)

\* After a pass over Services of which at most one owns the port, the listener
\* there forwards to containers of the Service it is bound for.
LEMMA OneBinding ==
  ASSUME NEW p \in Ports, Converged(p) # NoRow, \A s, t \in Owners(p) : s = t
  PROVE  \A b \in Converged(p).backends : b.service = Converged(p).service
<1> DEFINE live == IF Stale(p) THEN NoRow ELSE listener[p]
           owner == IF live = NoRow THEN First(Owners(p)) ELSE live.service
<1>1. live # NoRow => live.service \in Owners(p)
  BY DEF Stale
<1>2. PICK s \in Owners(p) : Owners(p) = {s}
  <2>1. Owners(p) # {}
    BY <1>1 DEF Converged
  <2> QED
    BY <2>1
<1>3. s \in Nat
  BY PortsAssumption DEF Owners
<1>4. First(Owners(p)) = s /\ Last(Owners(p)) = s
  <2>1. s <= s
    BY <1>3
  <2> QED
    BY <1>2, <2>1 DEF First, Last
<1>5. owner = s
  BY <1>1, <1>2, <1>4
<1>6. Converged(p) = [service |-> owner, backends |-> backends_of(Last(Owners(p)))]
  BY <1>2 DEF Converged
<1> HIDE DEF owner
<1>7. Converged(p).service = s /\ Converged(p).backends = backends_of(s)
  BY <1>4, <1>5, <1>6
<1> QED
  BY <1>7 DEF backends_of

\* A listener serves the Service it was bound for, in every behaviour (NodeProxy::sync
\* and plan_bindings, veloslet/src/proxy.rs).
THEOREM ListenersAreNotRepointed == Spec => NeverRepointed
<1> DEFINE Served(p) ==
             Sync /\ listener'[p] # NoRow /\ (\A s, t \in Owners(p) : s = t)
               => \A b \in listener'[p].backends : b.service = listener'[p].service
<1>1. ASSUME NEW p \in Ports PROVE Served(p)
  <2>1. Sync => listener'[p] = Converged(p)
    BY DEF Sync
  <2> QED
    BY <2>1, OneBinding
<1>2. [Next]_vars => [\A p \in Ports : Served(p)]_vars
  BY <1>1
<1> QED
  BY <1>2, PTL DEF Spec, NeverRepointed

------------------------------------------------------------------------------
(* Types.  The rows, requests and clones are IInv's; what is left is the lock,*)
(* the world below the Services, and the proxy.                              *)

\* Who holds the lock, what is bounded, and the containers.
WorldOK ==
  /\ where \in [Containers -> Workers \cup {Nowhere}]
  /\ alive \subseteq Containers
  /\ port_alloc \in Handlers \cup {NoRow}
  /\ held \subseteq Ports
  /\ restored \subseteq Names
  /\ served \in 0..MaxRequests /\ changes \in 0..MaxChanges

ProxyOK ==
  /\ listener \in [Ports -> Listener \cup {NoRow}]
  /\ sync \in [pc : {"idle", "instances"}, rows : [Names -> View \cup {NoRow}]]

\* Of some Services there is a first and a last, in the order they are listed.
LEMMA FirstAndLast ==
  ASSUME NEW S \in SUBSET Names, S # {}
  PROVE  First(S) \in S /\ Last(S) \in S
<1>1. S \in SUBSET Nat /\ IsFiniteSet(S)
  BY PortsAssumption, FS_Subset
<1>2. \E s \in S : \A t \in S : s <= t
  BY <1>1, LeastNumber
<1>3. \E s \in S : \A t \in S : t <= s
  BY <1>1, GreatestNumber
<1> QED
  BY <1>2, <1>3 DEF First, Last

\* What a pass leaves on a port is a listener of a Service, or nothing.
LEMMA ConvergedType ==
  ASSUME WorldOK, ProxyOK, NEW p \in Ports
  PROVE  Converged(p) \in Listener \cup {NoRow}
<1> DEFINE live == IF Stale(p) THEN NoRow ELSE listener[p]
           owner == IF live = NoRow THEN First(Owners(p)) ELSE live.service
           backends == backends_of(Last(Owners(p)))
<1>1. live \in Listener \cup {NoRow}
  BY DEF ProxyOK
<1>2. Converged(p) = live \/ (Owners(p) # {} /\ Converged(p) = [service |-> owner, backends |-> backends])
  BY DEF Converged
<1>3. ASSUME Owners(p) # {} PROVE [service |-> owner, backends |-> backends] \in Listener
  <2> DEFINE l == Last(Owners(p))
  <2>1. Owners(p) \in SUBSET Names
    BY DEF Owners
  <2>2. First(Owners(p)) \in Names /\ l \in Owners(p)
    BY <1>3, <2>1, FirstAndLast
  <2>3. owner \in Names
    BY <1>1, <2>2 DEF Listener
  <2>4. l \in Names /\ sync.rows[l] \in View
    BY <2>2 DEF Owners, ProxyOK
  <2> HIDE DEF l
  <2>5. backends_of(l) \in SUBSET Backend
    <3>1. sync.rows[l].selector \subseteq Containers
      BY <2>4 DEF View
    <3> QED
      BY <2>4, <3>1 DEF backends_of, Backend
  <2>6. backends \in SUBSET Backend
    BY <2>5 DEF l
  <2> HIDE DEF owner, backends
  <2> QED
    BY <2>3, <2>6 DEF Listener
<1> QED
  BY <1>1, <1>2, <1>3

\* The lock, the counters and the world keep their types.
LEMMA WorldStep == IInv /\ WorldOK /\ [Next]_vars => WorldOK'
<1> SUFFICES ASSUME IInv, WorldOK, [Next]_vars PROVE WorldOK'
  OBVIOUS
<1>1. ASSUME NEW h \in Handlers, NEW s \in Names, create(h, s) \/ replace(h, s) PROVE WorldOK'
  <2>1. Arrives /\ lock_port_alloc(h) /\ UNCHANGED <<world, restored>>
    BY <1>1 DEF create, replace
  <2> QED
    BY <2>1, BoundsAssumption DEF Arrives, lock_port_alloc, world, WorldOK
<1>2. ASSUME NEW h \in Handlers, Allocate(h) PROVE WorldOK'
  BY <1>2 DEF Allocate, Unlock, world, WorldOK
<1>3. ASSUME NEW h \in Handlers, Put(h) PROVE WorldOK'
  BY <1>3 DEF Put, Unlock, world, WorldOK
<1>4. ASSUME NEW h \in Handlers, NEW s \in Names, replace_status(h, s) \/ delete(h, s)
      PROVE  WorldOK'
  BY <1>4, BoundsAssumption DEF replace_status, delete, Arrives, world, WorldOK
<1>12. ASSUME NEW h \in Handlers, PutCopy(h) PROVE WorldOK'
  <2>1. handler[h].name \in Names
    BY <1>12, PcTells DEF PutCopy, IInv, RowsOK, Copy
  <2> QED
    BY <1>12, <2>1 DEF PutCopy, PutBack, world, WorldOK
<1>13. ASSUME NEW h \in Handlers, Remove(h) PROVE WorldOK'
  BY <1>13 DEF Remove, world, WorldOK
<1>5. ASSUME NEW c \in Containers, Move(c) PROVE WorldOK'
  BY <1>5, BoundsAssumption DEF Move, Changes, requests, WorldOK
<1>6. ASSUME NEW c \in Containers, StartOrExit(c) PROVE WorldOK'
  BY <1>6, BoundsAssumption DEF StartOrExit, Changes, requests, WorldOK
<1>7. ASSUME NEW p \in Ports, Vacate(p) PROVE WorldOK'
  BY <1>7 DEF Vacate, requests, WorldOK
<1>8. CASE ListServices \/ ListContainers
  BY <1>8 DEF ListServices, ListContainers, requests, world, WorldOK
<1>9. ASSUME NEW s \in Names, PutEndpoints(s) PROVE WorldOK'
  BY <1>9 DEF PutEndpoints, PutBack, requests, world, WorldOK
<1>10. CASE Proxy
  BY <1>10 DEF Proxy, SyncServices, Sync, requests, world, WorldOK
<1>11. CASE UNCHANGED vars
  BY <1>11 DEF vars, WorldOK
<1> QED
  BY <1>1, <1>2, <1>3, <1>4, <1>5, <1>6, <1>7, <1>8, <1>9, <1>10, <1>11,
     <1>12, <1>13
     DEF Next, Requests, Carry, World, Controller

\* So do the listeners, and what the pass has listed.
LEMMA ProxyStep == IInv /\ WorldOK /\ ProxyOK /\ [Next]_vars => ProxyOK'
<1> SUFFICES ASSUME IInv, WorldOK, ProxyOK, [Next]_vars PROVE ProxyOK'
  OBVIOUS
<1>1. CASE SyncServices
  <2>1. \A s \in Names : service_from_doc(service[s]) \in View \cup {NoRow}
    <3> SUFFICES ASSUME NEW s \in Names, service[s] # NoRow
                 PROVE  service_from_doc(service[s]) \in View
      BY DEF service_from_doc
    <3>1. service[s] \in Row
      BY DEF IInv, RowsOK
    <3> QED
      BY <3>1 DEF service_from_doc, Row, View
  <2> DEFINE listed == [s \in Names |-> service_from_doc(service[s])]
  <2>2. listed \in [Names -> View \cup {NoRow}]
    BY <2>1
  <2>3. sync' = [pc |-> "instances", rows |-> listed] /\ UNCHANGED listener
    BY <1>1 DEF SyncServices, SyncAt
  <2> HIDE DEF listed
  <2> QED
    BY <2>2, <2>3 DEF ProxyOK
<1>2. CASE Sync
  <2>1. listener' \in [Ports -> Listener \cup {NoRow}]
    BY <1>2, ConvergedType DEF Sync
  <2>2. sync' = [pc |-> "idle", rows |-> [s \in Names |-> NoRow]]
    BY <1>2 DEF Sync, SyncIdle, SyncAt, NoServices
  <2> QED
    BY <2>1, <2>2 DEF ProxyOK
<1>3. CASE UNCHANGED proxy
  BY <1>3 DEF proxy, ProxyOK
<1>4. Requests \/ World \/ Controller => UNCHANGED proxy
  BY DEF Requests, World, Controller, create, replace, replace_status, delete, Carry, Allocate,
         Put, PutCopy, Remove, Move, StartOrExit, Vacate, ListServices, ListContainers, PutEndpoints
<1>5. UNCHANGED vars => UNCHANGED proxy
  BY DEF vars, proxy
<1> QED
  BY <1>1, <1>2, <1>3, <1>4, <1>5 DEF Next, Proxy

\* Rows, requests, clones and listeners keep their types, in particular every
\* node port allocated is in the range, and a listener is always some Service's.
THEOREM TypeCorrect == Spec => []TypeOK
<1>1. Init => WorldOK /\ ProxyOK
  <2> SUFFICES ASSUME Init PROVE WorldOK /\ ProxyOK
    OBVIOUS
  <2>1. WorldOK
    BY PortsAssumption, BoundsAssumption DEF Init, WorldOK
  <2>2. ProxyOK
    BY DEF Init, ProxyOK, SyncIdle, SyncAt, NoServices
  <2> QED
    BY <2>1, <2>2
<1>2. IInv /\ WorldOK /\ ProxyOK => TypeOK
  BY DEF IInv, RowsOK, Held, WorldOK, ProxyOK, TypeOK
<1> QED
  BY <1>1, <1>2, InitHolds, StepKeeps, WorldStep, ProxyStep, PTL DEF Spec
==============================================================================
