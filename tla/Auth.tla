--------------------------------- MODULE Auth ---------------------------------
(***************************************************************************)
(* Who may speak to the server, and how a machine comes to be a worker:    *)
(* the rows of crates/auth (admin account, admin tokens, join tokens,      *)
(* worker credentials), the handlers under /auth/v1 and the deletion of a  *)
(* worker (crates/server/src/lib.rs), and on the machines (crates/veloslet)*)
(* `veloslet setup`, `config set`, `run`, the launchd agent of `run -d`,   *)
(* `stop` and `uninstall`, and what `status` finds.                        *)
(*                                                                         *)
(* The server's handlers are several store calls: each test, put and       *)
(* delete is one step, and the server may stop between two.  A secret is   *)
(* the identity of what was minted: its hash matches in one row at most.   *)
(***************************************************************************)
EXTENDS Integers, FiniteSets, TLC

CONSTANTS Users,     \* people who set up the server's admin account
          Tokens,    \* join tokens
          Names,     \* worker names
          Machines,  \* machines to join
          None,      \* no row, no file, no process, no secret
          Broken,    \* a file that was not written to its end
          MaxSerial, \* bound: worker credentials ever issued
          Faults,    \* what may go wrong, two set-ups at once among it
          MaxFaults  \* bound: how often something goes wrong

FaultKind == {"restart", "lost", "revoke", "disk", "crash", "race", "stale"}

ASSUME BoundsAssumption == MaxSerial \in Nat /\ MaxFaults \in Nat
ASSUME FaultsAssumption == Faults \subseteq FaultKind

VARIABLES admin,     \* the row AdminAccount: whose password it holds
          settingUp, \* set-ups between is_initialized and the write
          adminTokens, \* whose rows of kind AdminToken there are, not expired
          tokens,    \* rows of kind BootstrapToken
          worker,    \* names with a row of kind Worker
          known,      \* names that had one since the server started: what a handler may hold
          cred,      \* rows of kind WorkerCredential: the serial of the secret
          serial,    \* credentials issued so far
          deleting,  \* workers whose row is gone, and their credential not yet
          config,    \* per machine: ~/.velos/veloslet.json
          edit,      \* per machine: the config that `config set` is about to write
          daemon,    \* per machine: the worker process
          agent,     \* per machine: the LaunchAgent of the background worker
          reg,       \* per client: the registration under way
          faults,    \* faults so far
          answered,  \* users whose set-up was answered with success
          overlapped,\* two set-ups were under way at once
          evicted,   \* workers deleted for good while no registration was under way
          revived    \* workers whose row was put back by a writer that had read it earlier

accounts == <<admin, settingUp, adminTokens, answered, overlapped>>
identities == <<tokens, cred, serial>>
workers == <<worker, known, deleting, revived>>
vars == <<accounts, identities, workers, config, edit, daemon, agent, reg, faults, evicted>>

------------------------------------------------------------------------------
(* Secrets, files, processes, requests.                                      *)

Credential == [name : Names, serial : 1..MaxSerial]

\* Bearer.
Bearer == Tokens \cup Credential

\* WorkerConfig: the node's name and the credential, if the machine has joined.
WorkerConfig == [node : Names, credential : Credential \cup {None}]

is_connected(cfg) == cfg.credential # None

\* A worker process: the name and credential it loaded, and whether `run_loop`
\* has been reached.
Process == [node : Names, credential : Credential, joined : BOOLEAN]

Client == Machines \X {"setup", "run"}
Registration ==
  [name : Names, bearer : Bearer, how : {"Unknown", "Join", "Refresh"},
   pc : {"verify", "put", "issue", "answered", "refused", "hung"}, token : Credential \cup {None}]

ASSUME NoneAssumption ==
  /\ None \notin Users \cup Names \cup Bearer \cup WorkerConfig \cup Process \cup Registration
  /\ Broken \notin WorkerConfig \cup {None}

ASSUME BearerAssumption == Tokens \cap Credential = {}

TypeOK ==
  /\ admin \in Users \cup {None}
  /\ settingUp \subseteq Users /\ answered \subseteq Users
  /\ adminTokens \subseteq Users
  /\ tokens \in [Tokens -> {"none", "live", "dead"}]
  /\ worker \subseteq Names /\ known \subseteq Names /\ deleting \subseteq Names
  /\ evicted \subseteq Names /\ revived \subseteq Names
  /\ cred \in [Names -> 0..MaxSerial]
  /\ serial \in 0..MaxSerial
  /\ config \in [Machines -> WorkerConfig \cup {None, Broken}]
  /\ edit \in [Machines -> WorkerConfig \cup {None}]
  /\ daemon \in [Machines -> Process \cup {None}]
  /\ agent \in [Machines -> {"none", "loading", "loaded"}]
  /\ reg \in [Client -> Registration \cup {None}]
  /\ faults \in 0..MaxFaults
  /\ overlapped \in BOOLEAN

\* A new server; a machine has no config, or one that was written by hand.
Init ==
  /\ admin = None
  /\ settingUp = {} /\ adminTokens = {} /\ answered = {}
  /\ tokens = [t \in Tokens |-> "none"]
  /\ worker = {} /\ known = {} /\ deleting = {} /\ evicted = {} /\ revived = {}
  /\ cred = [n \in Names |-> 0]
  /\ serial = 0
  /\ config \in [Machines -> {None} \cup [node : Names, credential : {None}]]
  /\ edit = [m \in Machines |-> None]
  /\ daemon = [m \in Machines |-> None]
  /\ agent = [m \in Machines |-> "none"]
  /\ reg = [k \in Client |-> None]
  /\ faults = 0
  /\ overlapped = FALSE

Fault(kind) == kind \in Faults /\ faults < MaxFaults /\ faults' = faults + 1

------------------------------------------------------------------------------
(* The admin account and its tokens.                                         *)

is_initialized == admin # None

Begins(u) ==
  /\ settingUp' = settingUp \cup {u}
  /\ overlapped' = (overlapped \/ settingUp # {})
  /\ IF settingUp = {} THEN UNCHANGED faults ELSE Fault("race")

\* Mutant: the account is made anew for whoever asks.
setup_admin_Always(u) ==
  /\ u \notin settingUp \cup answered
  /\ Begins(u)
  /\ UNCHANGED <<admin, adminTokens, answered, identities, workers, config,
                 edit, daemon, agent, reg, evicted>>

\* Test, and hash the password; the write is a call of its own.
setup_admin(u) ==
  /\ ~is_initialized
  /\ u \notin settingUp
  /\ Begins(u)
  /\ UNCHANGED <<admin, adminTokens, answered, identities, workers, config,
                 edit, daemon, agent, reg, evicted>>

SetupWrites(u) ==
  /\ u \in settingUp
  /\ admin' = u
  /\ settingUp' = settingUp \ {u}
  /\ answered' = answered \cup {u}
  /\ UNCHANGED <<adminTokens, overlapped, identities, workers, config,
                 edit, daemon, agent, reg, faults, evicted>>

\* The name and the password are the account's.
verify_password(u) == admin # None /\ admin = u

mint_admin_token(u) == adminTokens' = adminTokens \cup {u}

login(u) ==
  /\ verify_password(u)
  /\ mint_admin_token(u)
  /\ UNCHANGED <<admin, settingUp, answered, overlapped, identities, workers, config,
                 edit, daemon, agent, reg, faults, evicted>>

\* A request with a token of u's passes.  (What create_token does for u then is a
\* second token of u's; the tokens of a person are not told apart.)
require_admin(u) == is_initialized /\ u \in adminTokens

\* Of /api/v1, an admin may address everything.  (A worker may address its own
\* Worker and Lease: no veloslet deletes them.)
require_auth(u) == is_initialized /\ u \in adminTokens

\* The last of u's tokens is revoked or expires.
revoke_admin_token(u) ==
  /\ u \in adminTokens
  /\ adminTokens' = adminTokens \ {u}
  /\ UNCHANGED <<admin, settingUp, answered, overlapped, identities, workers, config,
                 edit, daemon, agent, reg, faults, evicted>>

------------------------------------------------------------------------------
(* Join tokens; deletion of a worker.                                        *)

mint_bootstrap_token(t) ==
  /\ tokens[t] = "none"
  /\ tokens' = [tokens EXCEPT ![t] = "live"]

mint_token(t) ==
  /\ \E u \in Users : require_admin(u)
  /\ mint_bootstrap_token(t)
  /\ UNCHANGED <<accounts, cred, serial, workers, config, edit, daemon, agent, reg, faults, evicted>>

\* revoke_bootstrap_token, or the end of its time.
revoke_bootstrap_token(t) ==
  /\ tokens[t] = "live"
  /\ tokens' = [tokens EXCEPT ![t] = "dead"]
  /\ UNCHANGED <<accounts, cred, serial, workers, config, edit, daemon, agent, reg, faults, evicted>>

\* The row goes; the credential is next.
Drop(n) ==
  /\ \E u \in Users : require_auth(u)
  /\ n \in worker
  /\ worker' = worker \ {n}
  /\ revived' = revived \ {n}

delete_worker(n) ==
  /\ Drop(n)
  /\ deleting' = deleting \cup {n}
  /\ UNCHANGED <<accounts, identities, known, config, edit, daemon, agent, reg, faults, evicted>>

\* A row that is marked for deletion is replaced by one without finalizers: it goes as
\* well, and nobody revokes the credential.
replace(n) ==
  /\ Drop(n)
  /\ UNCHANGED <<accounts, identities, known, deleting, config, edit, daemon, agent, reg, faults, evicted>>

\* Whoever read the row before it was deleted puts it back, changed or not, by an upsert:
\* reconcile_node_lifecycle a clone with another condition, and of the requests replace,
\* replace_status, and delete of a row with finalizers.
PutBack(n) ==
  /\ Fault("stale")
  /\ n \in known \ worker
  /\ worker' = worker \cup {n}
  /\ revived' = revived \cup {n}
  /\ UNCHANGED <<accounts, identities, known, deleting, config, edit, daemon, agent, reg, evicted>>

\* Registrations that the server has admitted, and not finished with.
UnderWay(n) == \E k \in Client : reg[k] # None /\ reg[k].name = n /\ reg[k].pc \in {"put", "issue"}

\* Deleted, and no registration has put the row or is about to.
Evicts(n) ==
  evicted' = IF UnderWay(n) \/ n \in worker \ revived THEN evicted ELSE evicted \cup {n}

\* Mutant: the credential outlives its worker.
revoke_credential_Not(n) ==
  /\ n \in deleting
  /\ deleting' = deleting \ {n}
  /\ Evicts(n)
  /\ UNCHANGED <<accounts, identities, worker, known, revived, config, edit, daemon, agent, reg, faults>>

\* Best effort: a failure is logged.
revoke_credential(n) ==
  /\ n \in deleting
  /\ deleting' = deleting \ {n}
  /\ \/ /\ cred' = [cred EXCEPT ![n] = 0]
        /\ Evicts(n)
        /\ UNCHANGED faults
     \/ Fault("revoke") /\ UNCHANGED <<cred, evicted>>
  /\ UNCHANGED <<accounts, tokens, serial, worker, known, revived, config, edit, daemon, agent, reg>>

------------------------------------------------------------------------------
(* POST /auth/v1/register.                                                   *)

Sent(name, bearer) ==
  [name |-> name, bearer |-> bearer, how |-> "Unknown", pc |-> "verify", token |-> None]

At(k, pc) == reg[k] # None /\ reg[k].pc = pc
Becomes(k, r) == reg' = [reg EXCEPT ![k] = r]

verify_bootstrap(t) == t \in Tokens /\ tokens[t] = "live"

\* The worker that a credential is of.
authenticate(c) == IF c \in Credential /\ cred[c.name] = c.serial THEN c.name ELSE None

\* A join token under any name, or the worker's own credential; nothing else.
Verify(k) ==
  /\ At(k, "verify")
  /\ LET r == reg[k]
         how == IF verify_bootstrap(r.bearer) THEN "Join"
                ELSE IF authenticate(r.bearer) = r.name THEN "Refresh" ELSE "Unknown"
     IN /\ Becomes(k, IF how = "Unknown" THEN [r EXCEPT !.pc = "refused"]
                      ELSE [r EXCEPT !.how = how, !.pc = "put"])
        /\ evicted' = IF how = "Join" THEN evicted \ {r.name} ELSE evicted
  /\ UNCHANGED <<accounts, identities, workers, config, edit, daemon, agent, faults>>

\* The row, with what the machine advertises; whatever there was is overwritten.
PutWorker(k) ==
  /\ At(k, "put")
  /\ worker' = worker \cup {reg[k].name}
  /\ known' = known \cup {reg[k].name}
  /\ revived' = revived \ {reg[k].name}
  /\ Becomes(k, [reg[k] EXCEPT !.pc = IF reg[k].how = "Join" THEN "issue" ELSE "answered"])
  /\ UNCHANGED <<accounts, identities, deleting, config, edit, daemon, agent, faults, evicted>>

\* A credential that was there is no longer good.
issue_credential(k) ==
  /\ At(k, "issue")
  /\ serial < MaxSerial
  /\ serial' = serial + 1
  /\ cred' = [cred EXCEPT ![reg[k].name] = serial + 1]
  /\ Becomes(k, [reg[k] EXCEPT !.pc = "answered",
                               !.token = [name |-> reg[k].name, serial |-> serial + 1]])
  /\ UNCHANGED <<accounts, tokens, workers, config, edit, daemon, agent, faults, evicted>>

\* The server stops and comes back: its clients see an error.
Restart ==
  /\ Fault("restart")
  /\ settingUp' = {} /\ deleting' = {} /\ known' = worker
  /\ reg' = [k \in Client |-> IF reg[k] = None \/ reg[k].pc \in {"answered", "hung"} THEN reg[k]
                              ELSE [reg[k] EXCEPT !.pc = "refused"]]
  /\ UNCHANGED <<admin, adminTokens, answered, overlapped, identities, worker, revived, config,
                 edit, daemon, agent, evicted>>

\* The request or its answer does not arrive.  The client has no timeout: it sees an
\* error if the connection fails, and waits for ever if nothing tells it.
LoseAnswer(k) ==
  /\ Fault("lost")
  /\ At(k, "verify") \/ At(k, "answered")
  /\ \E pc \in {"refused", "hung"} : Becomes(k, [reg[k] EXCEPT !.pc = pc])
  /\ UNCHANGED <<accounts, identities, workers, config, edit, daemon, agent, evicted>>

------------------------------------------------------------------------------
(* On a machine: setup, config set, run.                                     *)

\* A file that does not parse is an error to all, no file is one to all but setup.
load(m) == config[m] \notin {None, Broken}
load_if_present(m) == config[m] # Broken

\* The name given, or the one in the config there is; None is an error.
resolve_setup(given, existing) ==
  IF given # None \/ existing = None THEN given ELSE existing.node

setup(m, given, t) ==
  LET k == <<m, "setup">>
      n == resolve_setup(given, config[m])
  IN /\ load_if_present(m)
     /\ n # None
     /\ reg[k] = None
     /\ serial < MaxSerial
     /\ tokens[t] # "none"
     /\ Becomes(k, Sent(n, t))
     /\ UNCHANGED <<accounts, identities, workers, config, edit, daemon, agent, faults, evicted>>

\* with_credential(credential_from_response): an answer without one is an error.
Joined(r) == [node |-> r.name, credential |-> r.token]

\* A write that fails has emptied the file, unless it failed before.
save(m, cfg) ==
  \/ config' = [config EXCEPT ![m] = cfg] /\ UNCHANGED faults
  \/ Fault("disk") /\ config' \in {config, [config EXCEPT ![m] = Broken]}

\* Nothing is written unless the answer holds a credential.  Who waits in vain gives up.
SetupEnds(m) ==
  LET k == <<m, "setup">>
      r == reg[k]
  IN /\ \/ At(k, "answered") /\ save(m, Joined(r))
        \/ (At(k, "refused") \/ At(k, "hung")) /\ UNCHANGED <<config, faults>>
     /\ Becomes(k, None)
     /\ UNCHANGED <<accounts, identities, workers, edit, daemon, agent, evicted>>

\* Edits::apply, for an edit of the name; of another field when the name is its own.
apply(m, n) ==
  /\ is_connected(config[m]) => n = config[m].node
  /\ edit' = [edit EXCEPT ![m] = [config[m] EXCEPT !.node = n]]

\* The file is read and changed ...
config_set(m, n) ==
  /\ load(m)
  /\ edit[m] = None
  /\ apply(m, n)
  /\ UNCHANGED <<accounts, identities, workers, config, daemon, agent, reg, faults, evicted>>

\* ... and written, whatever it holds by then, or the capacity is not the machine's.
EditWrites(m) ==
  /\ edit[m] # None
  /\ edit' = [edit EXCEPT ![m] = None]
  /\ save(m, edit[m]) \/ UNCHANGED <<config, faults>>
  /\ UNCHANGED <<accounts, identities, workers, daemon, agent, reg, evicted>>

\* A process reads the config once, and starts to register.
Start(m, cfg) ==
  /\ daemon[m] = None
  /\ daemon' = [daemon EXCEPT ![m] =
                  [node |-> cfg.node, credential |-> cfg.credential, joined |-> FALSE]]
  /\ Becomes(<<m, "run">>, Sent(cfg.node, cfg.credential))
  /\ UNCHANGED <<accounts, identities, workers, config, edit, agent, faults, evicted>>

\* What the server still does for a process that has ended comes to its end first.
Quiet(m) == reg[<<m, "run">>] # None => reg[<<m, "run">>].pc \in {"answered", "refused", "hung"}

\* Mutant: a machine that has not joined is let through.
run_Unjoined(m) == load(m) /\ Quiet(m) /\ agent[m] = "none" /\ Start(m, config[m])

\* In a terminal; with a background worker it would be the second one.
run(m) ==
  load(m) /\ is_connected(config[m]) /\ Quiet(m) /\ agent[m] = "none" /\ Start(m, config[m])

Registered(m) ==
  LET k == <<m, "run">>
  IN /\ daemon[m] # None
     /\ At(k, "answered")
     /\ daemon' = [daemon EXCEPT ![m].joined = TRUE]
     /\ Becomes(k, None)
     /\ UNCHANGED <<accounts, identities, workers, config, edit, agent, faults, evicted>>

\* Mutant: one attempt, and no other.
Again_Never(m) == Becomes(<<m, "run">>, None)

\* The same request, ten seconds later, for ever.
Again(m) == Becomes(<<m, "run">>, Sent(daemon[m].node, daemon[m].credential))

RegisterFailed(m) ==
  /\ daemon[m] # None
  /\ At(<<m, "run">>, "refused")
  /\ Again(m)
  /\ UNCHANGED <<accounts, identities, workers, config, edit, daemon, agent, faults, evicted>>

\* The process alone: in a terminal at any time, the agent's when it crashes.
Dies(m) ==
  /\ daemon[m] # None
  /\ IF agent[m] = "none" THEN UNCHANGED faults ELSE Fault("crash")
  /\ daemon' = [daemon EXCEPT ![m] = None]
  /\ UNCHANGED <<accounts, identities, workers, config, edit, agent, reg, evicted>>

\* launchctl unload: the agent's process goes with it.
Unload(m, state) ==
  /\ agent' = [agent EXCEPT ![m] = state]
  /\ daemon' = [daemon EXCEPT ![m] = IF agent[m] = "none" THEN @ ELSE None]

\* veloslet run -d, up to its launchctl load.
run_daemon(m) ==
  /\ load(m) /\ is_connected(config[m])
  /\ agent[m] = "none" => daemon[m] = None
  /\ Unload(m, "loading")
  /\ UNCHANGED <<accounts, identities, workers, config, edit, reg, faults, evicted>>

LoadAgent(m) ==
  /\ agent[m] = "loading"
  /\ \E state \in {"none", "loaded"} : agent' = [agent EXCEPT ![m] = state]
  /\ UNCHANGED <<accounts, identities, workers, config, edit, daemon, reg, faults, evicted>>

\* RunAtLoad and KeepAlive: `run` again whenever it has ended.
KeepAlive(m) ==
  agent[m] = "loaded" /\ load(m) /\ is_connected(config[m]) /\ Quiet(m) /\ Start(m, config[m])

stop(m) ==
  /\ agent[m] = "loaded"
  /\ Unload(m, "none")
  /\ UNCHANGED <<accounts, identities, workers, config, edit, reg, faults, evicted>>

\* The same, and the config is removed; the worker's row stays.
uninstall(m) ==
  /\ agent[m] # "loading"
  /\ Unload(m, "none")
  /\ \/ config' = [config EXCEPT ![m] = None] /\ UNCHANGED faults
     \/ Fault("disk") /\ UNCHANGED config
  /\ UNCHANGED <<accounts, identities, workers, edit, reg, evicted>>

------------------------------------------------------------------------------
(* veloslet status: what was seen, the verdict on it, and the report.        *)

\* Who GET /auth/v1/me says that a credential is of.
whoami(c) == authenticate(c)

observe_config(m) ==
  CASE config[m] = None -> "Missing" [] config[m] = Broken -> "Unusable" [] OTHER -> "Present"
check_config(state) == IF state = "Present" THEN "Pass" ELSE "Fail"

check_joined(cfg) == IF is_connected(cfg) THEN "Pass" ELSE "Fail"

check_reachable(reach) == IF reach = "Reachable" THEN "Pass" ELSE "Fail"

observe_identity(c) == IF whoami(c) = None THEN "Rejected" ELSE whoami(c)
check_identity(node, who) == IF who = node THEN "Pass" ELSE "Fail"

\* Not asked of a server that does not answer, nor without a credential.
Identity(cfg, reach) ==
  IF reach = "Reachable" /\ is_connected(cfg)
  THEN check_identity(cfg.node, observe_identity(cfg.credential)) ELSE "Skip"

check_capacity(state) == CASE state = "Fits" -> "Pass" [] state = "Unknown" -> "Warn" [] OTHER -> "Fail"

check_runtime(state) == IF state = "Available" THEN "Pass" ELSE "Fail"

observe_agent(m) == IF agent[m] = "loaded" THEN "Loaded" ELSE "NotLoaded"
check_agent(state) == IF state = "Loaded" THEN "Pass" ELSE "Warn"

\* seen: what the server, the machine and its runtime answer to the probes.
diagnose(m, seen) ==
  [config  |-> check_config(observe_config(m)),
   runtime |-> check_runtime(seen.runtime),
   agent   |-> check_agent(observe_agent(m))]
  @@ IF load(m)
     THEN [joined    |-> check_joined(config[m]),
           reachable |-> check_reachable(seen.reach),
           identity  |-> Identity(config[m], seen.reach),
           capacity  |-> check_capacity(seen.capacity)]
     ELSE [c \in {"joined", "reachable", "identity", "capacity"} |-> "Skip"]

has_failures(report) == \E c \in DOMAIN report : report[c] = "Fail"

------------------------------------------------------------------------------

Admins ==
  \/ \E u \in Users : setup_admin(u) \/ SetupWrites(u) \/ login(u) \/ revoke_admin_token(u)
  \/ \E t \in Tokens : mint_token(t) \/ revoke_bootstrap_token(t)
  \/ \E n \in Names : delete_worker(n) \/ revoke_credential(n) \/ replace(n) \/ PutBack(n)

Serve(k) == Verify(k) \/ PutWorker(k) \/ issue_credential(k)

OnMachine(m) ==
  \/ \E n \in Names : config_set(m, n)
  \/ \E given \in Names \cup {None}, t \in Tokens : setup(m, given, t)
  \/ EditWrites(m) \/ SetupEnds(m) \/ run(m) \/ Registered(m) \/ RegisterFailed(m) \/ Dies(m)
  \/ run_daemon(m) \/ LoadAgent(m) \/ KeepAlive(m) \/ stop(m) \/ uninstall(m)

Next ==
  \/ Admins \/ Restart
  \/ \E k \in Client : Serve(k) \/ LoseAnswer(k)
  \/ \E m \in Machines : OnMachine(m)

Spec == Init /\ [][Next]_vars

\* A request is served, and a process that waits for an answer takes it; launchd keeps
\* its agent running.
FairSpec ==
  /\ Spec
  /\ \A k \in Client : WF_vars(Serve(k))
  /\ \A m \in Machines :
       /\ WF_vars(SetupEnds(m))
       /\ WF_vars(Registered(m) \/ RegisterFailed(m))
       /\ WF_vars(KeepAlive(m))

------------------------------------------------------------------------------
(* Properties.                                                               *)

\* setup_admin's comment, auth/src/lib.rs:132: one account is created, and whoever
\* was told so has it: it is not overwritten, and every admin token is its
\* owner's.  Not so two set-ups at once: the test and the write are two store calls, and
\* if both pass the test both are answered with success (docs/getting-started.md:584
\* calls set-up single-shot).
OneAdmin ==
  \/ overlapped
  \/ \A u \in answered : admin = u /\ adminTokens \subseteq {u}

\* delete's comment, server lib.rs:899-902: a deleted worker cannot silently register
\* again, whatever its machines hold and however often they try: not before one
\* presents a join token is there a credential of its name, or a registration that
\* puts its row.  Unless its registration was in the server at the time, or it was not
\* revoked: the revocation failed, the server stopped before it, or `replace` removed
\* the row.  Its row may come back, and nothing else, if a writer had read it before
\* (docs/getting-started.md:213-214 calls deletion the way to evict for good).
DeletedStaysOut == \A n \in evicted : cred[n] = 0 /\ (n \in worker => n \in revived)

\* Edits::apply's comment, config.rs:254-261: what a machine presents is the
\* credential of the name it goes by, in the file as in the process, whatever falls
\* between the load and the write of an edit, or between the request and the write of
\* a set-up: the server never hears a worker speak as another.
SpeaksAsItself ==
  \A m \in Machines :
    /\ load(m) /\ is_connected(config[m]) => config[m].credential.name = config[m].node
    /\ daemon[m] # None => daemon[m].credential.name = daemon[m].node

\* run's comment, main.rs:319-324, and what `status` is there to tell (status.rs:1-2):
\* a worker that runs in a terminal, or has its agent loaded, and in which `status`
\* finds nothing broken gets to its loop, through restarts of the server, lost
\* answers, crashes and re-joins.  Unless the process goes on with a credential
\* that a later `setup` superseded: status looks at the file; or it waits for an
\* answer that was dropped without an error: ApiClient sets no timeout.
Healthy == [reach |-> "Reachable", capacity |-> "Fits", runtime |-> "Available"]
StuckBeforeItsLoop(m) ==
  /\ IF daemon[m] = None THEN agent[m] = "loaded"
     ELSE ~daemon[m].joined /\ load(m) /\ daemon[m].credential = config[m].credential
                          /\ ~At(<<m, "run">>, "hung")
  /\ ~has_failures(diagnose(m, Healthy))
GetsToItsLoop == \A m \in Machines : ~<>[]StuckBeforeItsLoop(m)
==============================================================================
