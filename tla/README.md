# velos in TLA+

velos runs containers in micro-VMs on a few macOS machines. A control-plane
server keeps objects (containers, workers, leases, services) in SQLite behind an
HTTP API; three controller loops in the server place containers, watch over
workers and publish endpoints; a daemon on every worker (veloslet) renews a
lease, lists the containers bound to it and converges its runtime to them.

This directory holds TLA+ modules of that system, configurations that
model-check them with TLC, and theorems about them that TLAPS proves. Paths
below are relative to the repository; crates are under `crates/`.

    tlc -workers 2 -config MCStore_concurrent.cfg MCStore
    tlc -workers 2 -config MCVeloslet.cfg MCVeloslet
    tlapm StoreProofs.tla

`PROJECT.json` lists components, runs, hazards, theorems, and the source lines
behind every definition. Operators whose comment starts with "Mutant" are
deliberately wrong variants of the definition below them: each is a plausible
bug, and the property it is listed with in `PROJECT.json` fails under it.

## 1. Inventory

| Part | State | Operations | Talks to | Correct when |
|---|---|---|---|---|
| Object store (`store/src/lib.rs`) | tables `objects`, `events`, `rv_seq`; one mutex | `next_resource_version`, `put`, `put_cas`, `get`, `list`, `delete`, `list_since` | called by everything below | a call is one step; versions are unique; `put_cas` is an exact test; the log is the table's history |
| Watch streams (`server/src/lib.rs:606-650`) | cursor `last` per stream | poll `list_since`, send frames | store, clients | no event is sent twice; one that is on time is not skipped |
| Placement (`scheduler/src/lib.rs`) | none: pure functions | filter, score, pick | called by `plan_bindings` | hard constraints hold; first of the best; reasons tallied |
| Scheduler controller (`server/src/controllers.rs:280-452`) | none between passes; two lists and a plan within one | list, list, then get and put per container | store | no overcommitment; a container that fits is placed |
| Node-lifecycle controller (`controllers.rs:455-677`) | three lists within a pass | flip readiness, evict | store | live workers keep containers, dead ones let go, after a grace period |
| API handlers (`server/src/lib.rs`) | none between requests; the row it read within one | create, replace, status, hibernate/resume, delete, register | store, auth | a request changes what it names and nothing else |
| Worker daemon (`veloslet/src/{lib,reconcile,client}.rs`) | runtime instances; nothing on disk | heartbeat, `run_once`, report | API, runtime | desired state is reached; a failing container costs nobody else |
| Services (`server/src/lib.rs:275-485`, `controllers.rs:680-827`) | `port_alloc` mutex; rows of kind Service | allocate node ports, publish endpoints | store | a port has one owner; endpoints are current |
| Node proxy (`veloslet/src/proxy.rs`) | listeners per port | `sync` | API, runtime | listeners follow the bindings |
| Admission and parsing (`server/src/lib.rs:141-258`, `controllers.rs:40-278`) | none | validate, normalise, parse | called by the handlers, by `plan_bindings` | what is admitted and read is what the document says |
| Auth (`auth/src/lib.rs`) | hashed tokens, credentials, one admin row, in the store | set-up, login, mint, verify, register, revoke | store | one admin; a deleted and revoked worker gets no credential |
| Worker commands (`veloslet/src/{main,config,daemon,status}.rs`) | `veloslet.json`; a LaunchAgent; the process | setup, config set, run, run -d, stop, uninstall, status | auth, launchd | a machine speaks as itself; what `status` calls healthy works |
| Container runtime (`runtime/src/lib.rs`) | an external program's instances | run, stop, start, remove, list | the `container` command | (adapter) |
| velosctl, dashboard, host probing, signing | files, terminal, browser | requests and reports | API | (clients and single-machine I/O) |

What is hard to get right here:

- **No transactions across store calls.** Handlers and controllers read a row in
  one call and write it back whole in another; only a client that sends a
  `resourceVersion` to `replace` gets a version test. Between the two anybody may
  write. This decides most of what `ControlPlane` is about.
- **No transactions inside a store call.** Statements commit one by one under a
  mutex, so a failure or crash in between leaves a row without an event.
- **Versions are taken before they are used**, so they reach the log out of order.
- **Passes decide from lists taken one after the other**, while workers
  register, renew, die and return.
- **Time**: lease expiry, grace period, a heartbeat that races both.
- **Two namings of one thing**: status reports go by name, instances by uid,
  listeners by port, credentials by worker name; the thing behind a name changes
  while something is under way.
- **Calls that fail in silence**: `stop` and `remove` of the runtime return Ok
  whatever the command says; a revocation is best effort; a write may leave half a
  file.
- **Duties spread over several actors**: deletion takes two handlers, a worker
  and a finalizer; rescheduling takes the lifecycle pass, a scheduler pass and
  another worker.

The full list, with lines, is under "hazards" in `PROJECT.json`.

## 2. Plan

1. `Store`, `AtomicStore` — the foundation, with its proofs. *Done.*
2. `Placement`, `Scheduler` — the decision, with its proofs. *Done.* `Admission`
   — where its requests come from. *Done.*
3. `ControlPlane` — the two controllers, the handlers and the workers as the
   server sees them, with its proofs. *Done; edits of a container's spec by
   clients are left.*
4. `Veloslet` — the daemon's pass between rows and runtime, call by call, with its
   proofs. *Done.*
5. `Services` — node ports under `port_alloc`, the endpoints controller, the
   proxy's listeners, with its proofs. *Done.*
6. `Auth` — set-up, tokens, registration, credentials, the machines' commands,
   with its proofs. *Done.*
7. Proofs that need a count or a replay: the store implements `AtomicStore`,
   `LogIsHistory`, `OnlyLateEventsAreSkipped`; the sums of `Placement` and
   `ControlPlane`, where `PlacementsFit` holds with any clients and workers;
   `Admission` against `Placement`. *Done.* To come: invariants behind the
   liveness properties (what a pass cannot undo), and a proof of `NothingPutBack`.

`Placement` is used by `Scheduler` (which walks its loop step by step) and by
`ControlPlane` (which calls it); `Admission` extends `Scheduler` with the
documents its requests are read from. `Store` stays apart: `ControlPlane`,
`Services` and `Auth` take each store call as one step, which is what
`ImplementsAtomicStore` says of a store whose statements do not fail.
`ControlPlane` and `Veloslet` are two views of the same conversation: the first
has every interleaving of handlers, passes and reports, and any report that an
instance could justify; the second has one daemon with its instances, and a
server whose requests are single steps.

## 3. Modules

### Store, AtomicStore

A caller is an API handler or a controller. It may `Get` a row, takes a version
(`NextResourceVersion`), and then `Put`s, `PutCas`es or deletes. `Put`/`PutCas`
are two steps — the row, then `RecordEvent` — and delete three
(`DeleteRow`, `DeleteBump`, `RecordEvent`), one per committed statement, with
`lock` held in between. With `"sqlite"` in `Faults` a statement after the first
may fail (`StatementFails`); with `"crash"` the process may die anywhere
(`Crash`); the tables keep what was committed. `Poll` is one round of the watch
loop: everything above the cursor is sent and the cursor becomes the greatest
version sent. A document is named after the caller that wrote it. Not modelled:
kinds, labels and selectors of `list`, uids, the JSON.

`AtomicStore` is the promise of the `Store` trait: one step changes the table
and appends the event. `Store` implements it (`Atomic`) with the refinement
mapping that counts a call as done as soon as its first statement is.

### Placement, Scheduler

`Placement` translates filter and score: `checks` is the ordered list of filters
whose first failure is the rejection's reason, `score` the sum of preferences
less `PREFER_NO_SCHEDULE_PENALTY` per soft taint. Label values are numbers or
`NotANumber`, for `Gt` and `Lt`. `Scheduler` is `schedule`'s loop over workers
inside `plan_bindings`' loop over containers, one step per worker considered
(`Consider`) and one per container decided (`Bind`, `GiveUp`).

### Admission

A JSON object is a function on the fields that are present, `NotAString` a value
of another type. `validate_placement`, `validate_taints` and
`normalize_desired_state` decide what of `Specs` and `WorkerSpecs` is stored
(`AdmittedSpecs`); `container_placement_request` and the `parse_*` operators are
what the controller reads in it. Two assumptions tie `Scheduler`'s constants to
the result: `Requests` are the requests of admitted documents, the taints of
`Views` are parsed from admitted workers. `HardConstraintsHold` reads the
document a third time, on its own (`Allows`), and compares: what was placed is
where its document allows it. The cpu ask wraps at `U32` as in the code.

### ControlPlane

| Variable | Code |
|---|---|
| `restored` | history: rows that a writer put back on a worker from an out-of-date copy; a pass that places the container again takes it out |
| `container`, `worker`, `leaseAge` | rows of the three kinds; a container row holds phase, `status.workerName`, the index column, desired state, reason, deletion mark, finalizer; a lease is its age in ticks |
| `up` | the veloslet processes that run |
| `report` | the status (or finalizer removal) a worker is about to send |
| `handler` | per request in the server: the put it has prepared from the row it read |
| `sched` | the scheduler pass: lists taken, containers left, usage so far, put prepared |
| `lc` | the lifecycle pass: fresh leases, workers to flip, evictable workers, clones to put |

Every action is one store call, or the local work up to the next one:

- `SchedListContainers`, `SchedListWorkers`, then per pending container
  `SchedGet` (the fresh read, the placement's outcome, the prepared row) and
  `SchedPut`. The plan is a function of the two lists; the model works it out as
  it is carried out.
- `LcLeases`, `LcWorkers`, `LcFlip` per worker, `LcContainers`, `LcEvict` per
  container. Clones from the lists are put, as the code does.
- `set_desired_state`, `delete`, `replace_status`, `replace` read and prepare;
  `Finish` is their put or delete. `create` reads nothing. `NotFound` is the 404
  a worker ignores. `delete_worker` also revokes the credential, so nothing is
  heard of that worker again.
- `register` writes a fresh row without conditions; `heartbeat` renews; `Die`;
  `run_once` picks one listed container and the report that acting on it leads to.
- `Tick` ages leases and conditions. `Restart` is a crash of the server.

`Restored` decides what a put does to `restored`. A user's put is up to date
(`UpToDate`) if it changes what was asked for and nothing else of the row as it
is by then; a worker's, if the container is still the worker's. A put that is
not, and that holds a worker's resources, marks the row.

Abstractions: one resource (cpu) and no affinity or taint; time in ticks, ages
saturating one past the limit that is compared with; a pass and a request take
no time compared with a tick (milliseconds against seconds), so that `Tick`
needs `Quiet`; `Prompt` says that a live worker renews before its lease is out
(the default heartbeat is a fraction of the lease). Workers act on one container
per pass, which loses no interleaving since the containers are independent. The
worker's own state is left out (it is in `Veloslet`): a report may be any phase
that an instance could justify.

### Veloslet

| Variable | Code |
|---|---|
| `row`, `uids` | the containers bound to this worker, in the server, and the uids given out |
| `inst`, `service` | the runtime's instance of each uid (none, Running, exited with zero or not); whether its service is up, down (it can be started) or broken |
| `pass` | `run_once` as far as it got: the rows listed, the action planned for each, the orphans to reap, the action being carried out and the call it makes next |
| `lease` | whether the worker's lease is fresh |
| `faults`, `ended`, `leaked` | how often something went wrong; workloads that ended by themselves; stops and removals that failed unheard |

`reconcile` is the decision table (`reconcile.rs`), split by what is asked of
the container: `ForDeleted`, `ForAsleep`, `ForAwake`, `ForExited`. `NextCall` is
the order in which `apply_action` makes its calls; each call (`CallRun`,
`CallStart`, `CallStop`, `CallRemove`, `PutStatus`, `GetContainer`,
`ReplaceContainer`) is a step, and `Fail`/`PutFailure` is `report_failure`.
`stop` and `remove` are `output_best_effort`: they return Ok though nothing
happened (`leaked`). `Users` change the rows between any two calls, instances
exit or are pruned, the service goes down, the daemon dies and starts over from
nothing (`Crash`). A status goes to whatever row has the name by then.
`clear_finalizer` reads and replaces, with `replace`'s version test.
`ensure_ready` and `renew_lease` are the heartbeat.

### Services

Requests hold `port_alloc` from `create`/`replace` through `Allocate` (which
lists the rows and chooses) to `Put`, which removes a marked row whose last
finalizer the body leaves out. Three writers do not take it, and put back the
whole row they read: `replace_status`, `delete` of a row with a finalizer (both
by `PutCopy`), and the endpoints controller, which is `ListServices`,
`ListContainers`, then `PutEndpoints` per Service. Each may undo an edit or bring
a deleted Service back; `restored` marks the rows this happened to. `delete` of a
row without finalizers is `Remove`, of whatever row there is by then. `SyncServices` and `Sync` are
the proxy's pass on `Node`: `Owners` and `backends_of` are `plan_bindings`,
`Converged` is what `NodeProxy::sync` makes of one port: stale listeners go
first, the first binding of a port binds it (unless another process `held` it),
every later one sends its backends to the listener there is.

### Auth

| Variable | Code |
|---|---|
| `admin`, `adminTokens`, `tokens`, `cred`, `worker` | rows of kinds AdminAccount, AdminToken, BootstrapToken, WorkerCredential, Worker |
| `known` | the names that had a row of kind Worker since the server started: what a handler or a pass may still hold a copy of |
| `settingUp`, `deleting` | handlers between the two store calls of a set-up, and of a worker's deletion |
| `reg` | per machine the registration of `setup`, and that of `run`, with the handler's position (`verify`, `put`, `issue`) |
| `config`, `edit`, `daemon`, `agent` | `veloslet.json` (absent, half written, or name and credential); what a `config set` is about to write to it; the worker process; its LaunchAgent |
| `answered`, `overlapped`, `evicted`, `revived` | history: set-ups that were told they succeeded; whether two were under way at once; workers deleted and revoked; workers whose row was put back by a writer that had read it earlier |

A secret is the identity of what was minted, a credential its serial: issuing a
new one makes the old one useless. `Restart` of the server drops every handler
between two store calls; `LoseAnswer` loses what was done, and the client sees an
error or, since `ApiClient` sets no timeout (`client.rs:36`), waits (`hung`).
`delete_worker` removes the row and `revoke_credential` the credential; `replace`
of a marked row removes it and revokes nothing. `PutBack` is every upsert of a
Worker row read before it was deleted: the lifecycle controller's clone
(`controllers.rs:586-604`), and the puts of `replace`, `replace_status` and a
`delete` that marks. `config_set` loads and changes, `EditWrites` writes, and a
`setup` may come in between. `save` may leave the file `Broken`; `Dies` is the process, `KeepAlive` launchd's. `diagnose` is
`veloslet status` with every check and the order in which they are skipped.

## 4. Runs

| Run | Instance | Shows |
|---|---|---|
| `store_concurrent` | 2 callers, 2 names, 1 stream, 4 versions, no faults | `ImplementsAtomicStore`; `LogIsHistory`; `CasReplacesWhatWasRead`, `CasMovesForward`; `NeverTwice` |
| `store_faults` | 2 callers, 2 names, 1 stream, 4 versions, both faults | `UniqueVersions`; a stream skips only events that reached the log after one with a greater version (`OnlyLateEventsAreSkipped`) |
| `store_skip` (violation) | 2 callers, 3 versions | `NothingSkipped` fails: see findings |
| `scheduler` | 1-2 containers out of 11 documents (of which 7 are admitted), 0-3 workers out of 7 | `NoOvercommit`, `PickIsBest`, `HardConstraintsHold`, `EveryWorkerAccountedFor` |
| `cp_safety` | 2 containers (1 reschedulable), 2 one-slot workers, deletion of workers, restarts of the server | `PlacementsFit`, `PendingIsUnbound`, `LiveWorkersKeepContainers`, and that here nothing is put back on a worker out of date (`NothingPutBack`), so that no worker is overcommitted at all |
| `cp_returning` | 2 containers, 1 one-slot worker that crashes and returns | `PlacementsFit`, while reports revive what was given up for lost; `DeadWorkersLetGo`, `RoomIsUsed`, with a row that loses its condition and two containers for one slot |
| `cp_requests` | 1 container with a finalizer, 1 worker, overwrite, hibernate/resume, delete | `IndexInSync`, `NoStaleReason`, `DeletionCompletes`, `HibernationConverges`, with rows that users and reports put back out of date |
| `cp_grace` (violation) | 1 container, 1 worker | `EvictedAfterGrace` fails: see findings |
| `cp_binding` (violation) | 1 container, 1 worker, hibernate | `HibernateKeepsBinding` fails: see findings |
| `worker` | 2 containers: one with the finalizer, never restarted; one always restarted, overwritten, hibernated, evicted; 2 objects, the second with a bad image; 1 fault of any of 6 kinds | `KeepsTheDisk`, `RemovedMeansCleaned`, `TerminalMeansEnded`, `Converges`, `OrphansAreReaped`, `HonestLease` |
| `services` | 2 Services over 1 container, 2 workers, 2 node ports (1 held at first), 2 handlers, 6 bodies (of which 2 are refused as malformed, 1 as out of range), 3 requests, 2 changes | `OneOwner`, `NeverRepointed`, `Converges` |
| `auth` | 2 people, 1 join token, 1 name, 1 machine, 2 credentials, 1 fault of any of 7 kinds | `OneAdmin`, `DeletedStaysOut`, `GetsToItsLoop` |

Bounds. `MaxVersion` 4 lets two callers write twice each, or one create, change
and delete, and recreate; three are enough for two writes to cross. Two names
suffice as names do not interact; the second shows that they do not. Two
workers and two containers give every contention for a slot and a move from one
to the other. `LeaseDuration` 1 and `EvictionTimeout` 1 (0 in `cp_requests`)
distinguish before, at and after each limit, since ages go one past it. One
`Handler` is one request read-then-put under way beside both passes; each
request is its own race with the passes and with reports. `Ops` names the
requests a run lets clients make and the outcomes it lets workers report; a run
has those its question needs. Model values are not declared symmetric: workers
and containers are ordered by name in the code.

In `worker`, `MaxUid` 2 is an object and its successor under the same name, or
two objects side by side; `MaxFaults` 1 puts one fault, of any kind, at every
place of every pass, and what the code does about it runs to its end. Longer
chains of faults add nothing that the daemon remembers: it keeps nothing
between passes. In `services`, `MaxRequests` 3 is a port taken, given up and
taken by another Service, or two requests at once after one before them;
`MaxChanges` 2 is a container that comes and goes. Within three requests a port gets
two owners through a copy of the endpoints controller; through one of `replace_status`
or of a `delete` that marks it takes four, which the theorem covers. Likewise
users' stale puts beside a competitor for the slot: `cp_requests` has the puts,
`cp_returning` the competitor, `NothingIsOvercommitted` both. In `auth`, `MaxSerial` 2
is a credential and the one that supersedes it; `MaxFaults` 1 as above, two set-ups at
once and a stale row put back being faults too. One name is enough for its properties,
as nothing that the server does for a worker depends on another; `SpeaksAsItself` takes
two to violate, and is proved. `U32` 8 in
`scheduler` stands for 2^32: the largest ask of the instance is one above it.

Deadlock is checked everywhere except in `scheduler`, whose pass ends.

Fairness. `LoopSpec`: the controller loops run for ever
(`controllers.rs:834-870`), every handler returns, live workers heartbeat;
`Tick` is strongly fair and there are, again and again, moments with no pass
under way and no live worker late (`[]<>(Quiet /\ NobodyLate)`): the loops sleep
for seconds between passes and a starting worker heartbeats at once. `FairSpec`
adds that a live worker comes round to every container it lists and that its
requests are taken (they wait for a handler only because `Handlers` is bounded).
`Veloslet!FairSpec`: `run_loop` (`veloslet/src/lib.rs:478-520`) finishes what it
has begun and then takes both of its ticks, neither of them starving the other
(strong fairness, since the one is disabled while the other is carried out); an
unrenewed lease runs out. `Services!FairSpec`: both loops run for ever and a
request under way is carried out. `Auth!FairSpec`: a request is served, who waits
for its answer takes it, and launchd keeps its agent alive. Nobody is fair about
users, deaths, faults, registrations, an operator's repair, or a port that
another process holds.

What the properties leave out on purpose: the code does not do it. In two places the
documentation says more than the code does, and is quoted:

- in `PlacementsFit` and `NoStaleReason`, the rows that are `restored`: put back
  on a worker by a request, a report or a scheduler's note that had read them earlier, as
  when a worker returns and revives a container that was declared Unknown and whose
  room was given away. The worker then does hold more than it offers; later passes
  count it, and place nothing beside it. `NothingPutBack` says when there are none;
- in `LiveWorkersKeepContainers`, late heartbeats (`Prompt` FALSE), and workers that
  die and return between two lists of one pass (`Returning`);
- in `TerminalMeansEnded`, containers that the worker may have stopped itself (a
  hibernated container whose report was lost and that was resumed meanwhile reads
  as exited), or whose name was reused (a status goes by name);
- in `RemovedMeansCleaned`, instances whose stop or removal failed in silence:
  `Cleanup` then clears the finalizer all the same. A later pass reaps the
  instance as an orphan (`OrphansAreReaped`);
- in `OneOwner`, Services that any writer without the lock put back from an
  out-of-date copy, and in `NeverRepointed` passes that listed two owners;
- in `OneAdmin`, set-ups that overlap: both find no account (`auth/src/lib.rs:377`),
  hash their passwords and write; both are told that they succeeded, and the second
  write is the account. `docs/getting-started.md:584` calls `setup` single-shot;
- in `DeletedStaysOut`, a registration that the server was serving at the time; a
  worker that was not revoked, because the revocation failed, the server stopped
  before it, or `replace` removed the row; and the row itself, which a writer that had
  read it before brings back without a credential (`PutBack`), although
  `docs/getting-started.md:213-214` calls deletion the way to evict a worker for good;
- in `GetsToItsLoop`, a process that goes on with a credential that a later `setup`
  superseded (`status` reads the file and finds nothing wrong), and one that waits
  for an answer that was dropped without an error.

They are listed as hazards, or in their notes. What else the reading of the code
brought up, and no sentence of the repository contradicts: a worker's name with
a dot can never authenticate (`auth/src/lib.rs:249` splits at the first);
registration overwrites spec, labels, taints and a cordon
(`server/src/lib.rs:1062-1083`); a slow `container run` holds up the heartbeat of
its worker (`veloslet/src/lib.rs:498`); the failure report repeats the listed,
perhaps outdated, phase; the adapter reports no exit code, so `OnFailure` never
restarts with it.

## 5. Findings

- `store_skip`: writers A and B take versions 1 and 2; B commits first; a stream
  sends B's event and moves its cursor to 2; A commits 1; the stream never sends
  it, although `server/src/lib.rs:606-607` says it replays the log from
  `resourceVersion` and then polls for live events.
- `cp_grace`: a worker that has been Ready for longer than the grace period dies;
  the pass that first finds its lease expired flips it to NotReady and, measuring
  the grace period from the transition of the row it listed before the flip
  (`controllers.rs:614`), evicts its containers at once, although lines 568-569
  and 608 speak of workers NotReady for longer than the eviction timeout.
- `cp_binding`: hibernate reads a Pending container, the scheduler binds it,
  hibernate puts its copy back: the binding is gone, although
  `server/src/lib.rs:777-778` says that hibernate keeps it.

## 6. Proofs

All theorems are for every value of the constants that satisfies the modules'
named assumptions. `tlapm` checks them to the last leaf.

| Theorem | Says | Rests on |
|---|---|---|
| `StoreProofs!TypeCorrect` | `[]TypeOK` | itself |
| `StoreProofs!VersionsAreUnique` | `[]UniqueVersions`, faults included | an invariant that tells whose each version up to `rvSeq` is: at most one caller or log entry holds it |
| `StoreProofs!CasIsExact`, `CasIsForward` | the two action properties | a version held by a row is never handed out again; what a caller has read is older than what it was stamped with |
| `StoreProofs!StreamsSendOnce` | `NeverTwice` | what was delivered is at or below the cursor |
| `StoreProofs!StoreIsAtomic` | `ImplementsAtomicStore`, if `Faults = {}` | `CallInv` and the mapping of the log and the sequence |
| `StoreProofs!LogTellsTheTable` | `[]LogIsHistory`, if `Faults = {}` | `HistoryInv`, on the abstract log |
| `StoreProofs!OnlyTheLateAreSkipped` | `[]OnlyLateEventsAreSkipped`, any number of callers, faults included | `SentInv` |
| `SchedulerProofs!TypeCorrect`, `PassNeverOvercommits` | types; a pass commits no more than is free | the filter's cpu and memory checks still hold of the best worker when it is bound |
| `SchedulerProofs!ScheduleIsFilterScorePick` | `[]PickIsBest` | the best so far is the first best of the workers considered so far |
| `SchedulerProofs!DefaultIsFirstFit` | `[]FirstFitByDefault` | `PickIsBest`; all scores are 0 |
| `SchedulerProofs!ExplanationsAddUp` | `[]EveryWorkerAccountedFor` | `OneReasonEach`: while nobody is admitted, one reason per worker looked at |
| `AdmissionProofs!DocumentsAreObeyed` | `[]HardConstraintsHold` | `PlacedWhereAdmitted`, and what validation and parsing preserve |
| `ControlPlaneProofs!TypeCorrect` | `[]TypeOK` | `Shape`; a sum of demands is a number |
| `ControlPlaneProofs!IndexStaysInSync`, `PendingStaysUnbound` | `[]IndexInSync`, `[]PendingIsUnbound` | `Shape` |
| `ControlPlaneProofs!LiveWorkersAreSpared` | `LiveWorkersKeepContainers`, if `Prompt` and `Returning = {}` | `Shape` and `Verdict` |
| `ControlPlaneProofs!NothingIsOvercommitted`, `ReasonsAreFresh` | `[]PlacementsFit`, `[]NoStaleReason`, whatever clients, workers and restarts do | `Fresh`, and `Counted` for the first |
| `VelosletProofs!TypeCorrect` | `[]TypeOK` | `Targets` |
| `VelosletProofs!TerminalReportsAreTrue` | `[]TerminalMeansEnded` | `Ended`, `Planned`, `Listing` |
| `VelosletProofs!FinalizerOutlivesInstance` | `RemovedMeansCleaned` | `Cleaned`, `Rows` |
| `VelosletProofs!SleepersKeepTheirDisks` | `KeepsTheDisk` | `Planned`, `Orphaned`, `Rows`, `OneName` |
| `ServicesProofs!TypeCorrect` | `[]TypeOK` | `WorldOK`, `ProxyOK` |
| `ServicesProofs!NodePortsHaveOneOwner` | `[]OneOwner` | `RowsOK`, `Locked`, `Validated`, `Reserved` |
| `ServicesProofs!ListenersAreNotRepointed` | `NeverRepointed` | the definition of one pass alone: no invariant is needed |
| `AuthProofs!TypeCorrect` | `[]TypeOK` | itself |
| `AuthProofs!MachinesSpeakAsThemselves` | `[]SpeaksAsItself` | `Issued`, `Edited` |
| `AuthProofs!OneAccount` | `[]OneAdmin` | `Account` |
| `AuthProofs!DeletedWorkersStayOut` | `[]DeletedStaysOut` | `Out` |

Neither `IndexInSync` nor `PendingIsUnbound` is inductive: a row gets where it is
from a put prepared earlier. `Shape` says that every row, and every row some
handler, pass or clone is about to put, is `Agreeing` (both names equal, and
Pending exactly when unbound), that reports never say Pending, and that the
clones of an eviction are of containers that hold resources, so that leaving one
bound as Unknown is right. One lemma per kind of edit (`MarkAgrees`,
`MoveAgrees`, ...) carries it through every action.

`LiveWorkersKeepContainers` needs to know what the pass's lists say about the
present. `Verdict` says: a live worker's lease is in time; a worker the store
has pronounced on has a lease; while the pass is between its first two lists, a
worker that the first misses and that was pronounced on is gone (down, and with
a lease, so that it cannot come back); so are the workers it holds evictable and
those its clones are bound to. The assumptions are those under which the code
makes sense of "dead": without `Prompt` a slow worker is evicted while it runs,
and with returning workers one may be back between the list and the put.

The three properties of `Veloslet` are about what a call does, and the call was
decided from two lists that are out of date by then. `IInv` says what of them
still holds. `Targets`: what is planned was listed, and the target of the action
under way is still the one planned for. `Fresh`: no uid beyond `uids` is
anywhere. `OneName`: a uid has one name, in the rows and in the list together.
`Rows`: a listed deletion is a deletion still; the row of a listed container with
the finalizer is the listed one. `Listing` and `Planned`: between the two lists
nothing falls asleep, so no row is Hibernated while a `Restart` of it is planned;
an exit that is planned to be reported was one. `Orphaned`: what is to be reaped is
nobody's, or of a reschedulable container that came back after the list and does
not sleep. `Cleaned`: when it is the finalizer's turn, the instance is gone or
leaked. `Ended`: of a watched container (one that the worker never stops while it is
wanted) an instance that has stopped has ended by itself. Each of them needs others
of them at some call, which is why the invariant is one.

`OneOwner` is about rows, and a put comes later than the choice of its ports.
`Locked` says that every handler that serves a request holds the lock, so there
is one; `Validated` that its body was; `Reserved` that the ports it is about to put
are owned by no other Service, unless by one that was restored. `Reserved`
survives a removal (fewer owners), the put of a copy by any of the writers without
the lock (`PutBackKeeps`: it marks the row if it changes its ports) and, through
`Locked`, other requests. What the theorem says of the code is therefore that the
lock does its work among the handlers that take it, and that two owners need one of
the three writers and a copy that was out of date.

`SpeaksAsItself` needs `Issued`: a token that a registration carries is in the name
that was registered; and `Edited`: what an edit is about to write was a machine's own. `Account` says that while no two set-ups overlap one is under
way before there is an account and none after. `Out` adds to `DeletedStaysOut` that
no registration of the worker is beyond its check; that a `Refresh` cannot get
there follows from the credential: none has serial 0. A row that was put back is no
way around this, since a row does not authenticate.

`StoreIsAtomic` takes the refinement mapping apart. While the mutex is free the
tables are the abstract store's (`FreeMeans`); while a call holds it the log is one
event behind and the sequence at most one version (`HeldMeans`). The first statement
of a call is the abstract step, the others stutter. Every step is mapped, `Poll`
and reads included; `Faults = {}` is needed because a row whose event was lost is no
step of `AtomicStore`. `LogIsHistory` is then shown of the abstract log, where row
and event come together: the newest entry of a name is its row, and the types of
its entries alternate as they should. `SentInv` says that
a cursor is 0 or the version of some event of the log, and that whatever is at or below
it was sent or is late. An event that is appended below a cursor is late, since the
event the cursor stands at precedes it; `store_skip` shows that there are such.

`HardConstraintsHold` compares what three pieces of code make of one document.
`PlacedWhereAdmitted` says that a placement passed all eight checks against what was
committed then; the lemmas of `AdmissionProofs` say that parsing an admitted document
loses no demand (`ParsedDemandsTheSame`), forgives no taint (`ToleratedIsCovered`)
and reads the keys that were written (`TaintsHaveKeys`). `Keep`, the `filter_map` of
the parsers, is a recursive function for this proof's sake.

`PlacementsFit` is about passes that decide from lists, beside writers that put back
whole rows. `restored` keeps the two apart: of the containers outside it, `Kept` by a
worker, none comes to hold the worker's resources but by a put of the scheduler
(`WhatIsKept`; for a report, because its worker held the container already). This rests
on `Fresh`, which says what the puts under way carry: a worker's request is about that
worker, and neither a report nor a pass that places calls what it puts unschedulable or
lost (`PassIsFresh`). `ReasonsAreFresh` follows at once. For the sum, `Coming` is what a
worker keeps together with the put that the pass is about to make, and `Counted` says
that it fits, and that while a pass is under way its count covers it: the list counts
all that is kept (`ListCounts`), the filter leaves room for the one that is placed
(`GetCounts`), and everything else only takes away (`CountedStep`). Nothing is assumed
of the clients or the workers. That nobody is `restored` under the constants of
`cp_safety` (`NothingPutBack`) is model-checked; with late heartbeats, a worker that
returns, overwriting, hibernation or the deletion of a finalized container allowed
alone, TLC finds a row put back within 2 containers and 2 workers.

`SumTheorems` holds what these proofs need of `MapThenSumSet`. The library's
induction theorems take the property as an operator and cannot be cited; stated of a
set of numbers (`NumberInduction`) or of subsets (`SubsetInduction`) and proved from
well-foundedness, they can. With them the recursive function behind the sum is shown
to exist, and the order in which it takes the elements not to matter (`SumTakes`,
`SumGrows`).

Assumptions on constants are those the code gives: names are finite and positive
numbers (objects are listed in their order), amounts are natural numbers (`u32`,
`u64`), requests and labels are what `Admission` lets through and `extract_labels`
keeps.

Only model-checked: liveness, since fairness and `ENABLED` are out of the prover's
reach: `DeadWorkersLetGo`, `RoomIsUsed`, `DeletionCompletes`, `HibernationConverges`,
`OrphansAreReaped`, `HonestLease`, `GetsToItsLoop` and both `Converges`; and
`NothingPutBack`. Every other invariant, action property and refinement that a passing
run checks is stated by a theorem. Only proved: `SpeaksAsItself`, and
`FirstFitByDefault`, which follows from `PickIsBest`.

## 7. Not modelled, and why

- `replace` of a Container by clients other than a worker: the same read, test and
  put as a worker's, on fields no property reads. Of `replace` of a Worker, what it
  does to the row's being there is in `Auth`; labels, taints and a cordon are not.
- velosctl, the dashboard: clients; what they send is what the handlers' models
  take as input. Manifest parsing and `doctor` have no state.
- The data model: generated records. Modules take from them the fields that the
  control flow reads; selectors and labels of `list` are not among them.
- Bytes: `serve` and `forward` of the proxy, the command lines of the runtime
  adapter and the parsing of its output, hashing, token formats, plists, code
  signing, reading the host's capacity (`status` takes the verdict as given).
- `Veloslet` has one worker; that a container moves away and back is `Evict` and
  `Bind`. Requests to the server are single steps there.
- `Services`: `sync_services`' list of containers and of instances are one step
  (`Sync`); a container's address is that it is `alive`.
- `Auth`: one worker process per machine and one agent per user; `login` is one
  step; the tokens of one person are not told apart; time is that a token may
  cease to be good at any moment; that a worker deletes itself through the API is
  left out, since no veloslet does.
