------------------------------ MODULE AuthProofs ------------------------------
(***************************************************************************)
(* Theorems about Auth, for any users, tokens, names and machines: its     *)
(* state is well typed, a machine speaks as itself, one admin is set up,   *)
(* and a deleted worker stays out.                                         *)
(***************************************************************************)
EXTENDS Auth, TLAPS

------------------------------------------------------------------------------
(* Helpers.                                                                  *)

LEMMA FaultType == ASSUME TypeOK, NEW kind, Fault(kind) PROVE faults' \in 0..MaxFaults
BY BoundsAssumption DEF TypeOK, Fault

LEMMA SentType ==
  ASSUME NEW n \in Names, NEW b \in Bearer PROVE Sent(n, b) \in Registration
BY DEF Sent, Registration

\* A file that loads holds a config.
LEMMA LoadedType ==
  ASSUME TypeOK, NEW m \in Machines, load(m) PROVE config[m] \in WorkerConfig
BY DEF TypeOK, load

LEMMA BecomesType ==
  ASSUME TypeOK, NEW k \in Client, NEW r \in Registration \cup {None}, Becomes(k, r)
  PROVE  reg' \in [Client -> Registration \cup {None}]
BY DEF TypeOK, Becomes

LEMMA SaveType ==
  ASSUME TypeOK, NEW m \in Machines, NEW cfg \in WorkerConfig, save(m, cfg)
  PROVE  /\ config' \in [Machines -> WorkerConfig \cup {None, Broken}]
         /\ faults' \in 0..MaxFaults
<1>1. CASE config' = [config EXCEPT ![m] = cfg] /\ UNCHANGED faults
  BY <1>1 DEF TypeOK
<1>2. CASE Fault("disk") /\ config' \in {config, [config EXCEPT ![m] = Broken]}
  BY <1>2, FaultType DEF TypeOK
<1> QED
  BY <1>1, <1>2 DEF save

LEMMA StartType ==
  ASSUME TypeOK, NEW m \in Machines, load(m), is_connected(config[m]), Start(m, config[m])
  PROVE  TypeOK'
<1>1. config[m] \in WorkerConfig /\ config[m].credential \in Credential
  BY LoadedType DEF is_connected, WorkerConfig
<1>2. config[m].node \in Names /\ config[m].credential \in Bearer /\ <<m, "run">> \in Client
  BY <1>1 DEF WorkerConfig, Bearer, Client
<1>3. reg' \in [Client -> Registration \cup {None}]
  BY <1>2, SentType, BecomesType DEF Start
<1>4. [node |-> config[m].node, credential |-> config[m].credential, joined |-> FALSE] \in Process
  BY <1>1, <1>2 DEF Process
<1>5. daemon' \in [Machines -> Process \cup {None}]
  BY <1>4 DEF Start, TypeOK
<1> QED
  BY <1>3, <1>5 DEF Start, TypeOK, accounts, identities, workers

LEMMA UnloadType ==
  ASSUME TypeOK, NEW m \in Machines, NEW state \in {"none", "loading", "loaded"}, Unload(m, state)
  PROVE  /\ agent' \in [Machines -> {"none", "loading", "loaded"}]
         /\ daemon' \in [Machines -> Process \cup {None}]
BY DEF TypeOK, Unload

------------------------------------------------------------------------------
(* Type correctness, handler by handler.                                     *)

LEMMA InitType == Init => TypeOK
<1> SUFFICES ASSUME Init PROVE TypeOK
  OBVIOUS
<1>1. config \in [Machines -> WorkerConfig \cup {None, Broken}]
  BY DEF Init, WorkerConfig
<1>2. 0 \in 0..MaxFaults /\ 0 \in 0..MaxSerial
  BY BoundsAssumption
<1>3. /\ tokens \in [Tokens -> {"none", "live", "dead"}]
      /\ cred \in [Names -> 0..MaxSerial]
      /\ edit \in [Machines -> WorkerConfig \cup {None}]
      /\ daemon \in [Machines -> Process \cup {None}]
      /\ agent \in [Machines -> {"none", "loading", "loaded"}]
      /\ reg \in [Client -> Registration \cup {None}]
  BY <1>2 DEF Init
<1> QED
  BY <1>1, <1>2, <1>3, Zenon DEF Init, TypeOK

LEMMA AdminsType == ASSUME TypeOK, Admins PROVE TypeOK'
<1>1. ASSUME NEW u \in Users, setup_admin(u) PROVE TypeOK'
  <2>1. faults' \in 0..MaxFaults
    BY <1>1, FaultType DEF setup_admin, Begins, TypeOK
  <2>2. settingUp' \subseteq Users /\ overlapped' \in BOOLEAN
    BY <1>1 DEF setup_admin, Begins, TypeOK
  <2> QED
    BY <1>1, <2>1, <2>2 DEF setup_admin, TypeOK, identities, workers
<1>2. ASSUME NEW u \in Users, SetupWrites(u) PROVE TypeOK'
  BY <1>2 DEF SetupWrites, TypeOK, identities, workers
<1>3. ASSUME NEW u \in Users, login(u) \/ revoke_admin_token(u) PROVE TypeOK'
  BY <1>3 DEF login, mint_admin_token, revoke_admin_token, TypeOK, identities, workers
<1>4. ASSUME NEW t \in Tokens, mint_token(t) \/ revoke_bootstrap_token(t) PROVE TypeOK'
  BY <1>4 DEF mint_token, mint_bootstrap_token, revoke_bootstrap_token, TypeOK, accounts, workers
<1>5. ASSUME NEW n \in Names, delete_worker(n) \/ replace(n) PROVE TypeOK'
  BY <1>5 DEF delete_worker, replace, Drop, TypeOK, accounts, identities
<1>7. ASSUME NEW n \in Names, PutBack(n) PROVE TypeOK'
  BY <1>7, FaultType DEF PutBack, TypeOK, accounts, identities
<1>6. ASSUME NEW n \in Names, revoke_credential(n) PROVE TypeOK'
  <2>1. faults' \in 0..MaxFaults
    BY <1>6, FaultType DEF revoke_credential, TypeOK
  <2>2. cred' \in [Names -> 0..MaxSerial] /\ evicted' \subseteq Names
    BY <1>6, BoundsAssumption DEF revoke_credential, Evicts, TypeOK
  <2> QED
    BY <1>6, <2>1, <2>2 DEF revoke_credential, TypeOK, accounts
<1> QED
  BY <1>1, <1>2, <1>3, <1>4, <1>5, <1>6, <1>7 DEF Admins

LEMMA ServeType == ASSUME TypeOK, NEW k \in Client, Serve(k) PROVE TypeOK'
<1> DEFINE r == reg[k]
<1>1. CASE Verify(k)
  <2> DEFINE how == IF verify_bootstrap(r.bearer) THEN "Join"
                    ELSE IF authenticate(r.bearer) = r.name THEN "Refresh" ELSE "Unknown"
             q == IF how = "Unknown" THEN [r EXCEPT !.pc = "refused"]
                  ELSE [r EXCEPT !.how = how, !.pc = "put"]
  <2>1. r \in Registration
    BY <1>1 DEF Verify, At, TypeOK
  <2>2. q \in Registration
    BY <2>1 DEF Registration
  <2>3. Becomes(k, q)
    BY <1>1 DEF Verify
  <2> HIDE DEF q
  <2>4. reg' \in [Client -> Registration \cup {None}]
    BY <2>2, <2>3, BecomesType
  <2> QED
    BY <1>1, <2>4 DEF Verify, TypeOK, accounts, identities, workers
<1>2. CASE PutWorker(k)
  <2> DEFINE q == [r EXCEPT !.pc = IF r.how = "Join" THEN "issue" ELSE "answered"]
  <2>1. r \in Registration
    BY <1>2 DEF PutWorker, At, TypeOK
  <2>2. q \in Registration /\ r.name \in Names
    BY <2>1 DEF Registration
  <2>3. Becomes(k, q)
    BY <1>2 DEF PutWorker
  <2> HIDE DEF q
  <2>4. reg' \in [Client -> Registration \cup {None}]
    BY <2>2, <2>3, BecomesType
  <2> QED
    BY <1>2, <2>2, <2>4 DEF PutWorker, TypeOK, accounts, identities
<1>3. CASE issue_credential(k)
  <2> DEFINE q == [r EXCEPT !.pc = "answered", !.token = [name |-> r.name, serial |-> serial + 1]]
  <2>1. r \in Registration /\ serial + 1 \in 1..MaxSerial
    BY <1>3, BoundsAssumption DEF issue_credential, At, TypeOK
  <2>2. q \in Registration /\ r.name \in Names
    BY <2>1 DEF Registration, Credential
  <2>3. Becomes(k, q)
    BY <1>3 DEF issue_credential
  <2> HIDE DEF q
  <2>4. reg' \in [Client -> Registration \cup {None}]
    BY <2>2, <2>3, BecomesType
  <2> QED
    BY <1>3, <2>1, <2>2, <2>4, BoundsAssumption DEF issue_credential, TypeOK, accounts, workers
<1> QED
  BY <1>1, <1>2, <1>3 DEF Serve

LEMMA FaultsType ==
  ASSUME TypeOK, Restart \/ (\E k \in Client : LoseAnswer(k)) PROVE TypeOK'
<1>1. CASE Restart
  <2>1. ASSUME NEW k \in Client, reg[k] # None
        PROVE  [reg[k] EXCEPT !.pc = "refused"] \in Registration
    BY <2>1 DEF TypeOK, Registration
  <2>2. reg' \in [Client -> Registration \cup {None}]
    BY <1>1, <2>1 DEF Restart, TypeOK
  <2> QED
    BY <1>1, <2>2, FaultType DEF Restart, TypeOK, identities
<1>2. ASSUME NEW k \in Client, LoseAnswer(k) PROVE TypeOK'
  <2>1. \A pc \in {"refused", "hung"} : [reg[k] EXCEPT !.pc = pc] \in Registration
    BY <1>2 DEF LoseAnswer, At, TypeOK, Registration
  <2>2. reg' \in [Client -> Registration \cup {None}]
    BY <1>2, <2>1, BecomesType DEF LoseAnswer
  <2> QED
    BY <1>2, <2>2, FaultType DEF LoseAnswer, TypeOK, accounts, identities, workers
<1> QED
  BY <1>1, <1>2

LEMMA MachineType == ASSUME TypeOK, NEW m \in Machines, OnMachine(m) PROVE TypeOK'
<1> DEFINE s == <<m, "setup">>
           d == <<m, "run">>
<1>0. s \in Client /\ d \in Client
  BY DEF Client
<1>1. ASSUME NEW n \in Names, config_set(m, n) PROVE TypeOK'
  <2>1. [config[m] EXCEPT !.node = n] \in WorkerConfig
    BY <1>1, LoadedType DEF config_set, WorkerConfig
  <2> QED
    BY <1>1, <2>1 DEF config_set, apply, TypeOK, accounts, identities, workers
<1>12. CASE EditWrites(m)
  <2>1. edit[m] \in WorkerConfig
    BY <1>12 DEF EditWrites, TypeOK
  <2>2. config' \in [Machines -> WorkerConfig \cup {None, Broken}] /\ faults' \in 0..MaxFaults
    BY <1>12, <2>1, SaveType DEF EditWrites, TypeOK
  <2> QED
    BY <1>12, <2>2 DEF EditWrites, TypeOK, accounts, identities, workers
<1>2. ASSUME NEW given \in Names \cup {None}, NEW t \in Tokens, setup(m, given, t) PROVE TypeOK'
  <2> DEFINE n == resolve_setup(given, config[m])
  <2>1. n \in Names
    BY <1>2 DEF setup, resolve_setup, load_if_present, TypeOK, WorkerConfig
  <2>2. Sent(n, t) \in Registration /\ Becomes(s, Sent(n, t))
    BY <1>2, <2>1, SentType DEF setup, Bearer
  <2>3. reg' \in [Client -> Registration \cup {None}]
    BY <1>0, <2>2, BecomesType
  <2> QED
    BY <1>2, <2>3 DEF setup, TypeOK, accounts, identities, workers
<1>3. CASE SetupEnds(m)
  <2>1. reg' \in [Client -> Registration \cup {None}]
    BY <1>0, <1>3, BecomesType DEF SetupEnds
  <2>2. At(s, "answered") => Joined(reg[s]) \in WorkerConfig
    BY <1>0 DEF At, Joined, TypeOK, Registration, WorkerConfig
  <2>3. config' \in [Machines -> WorkerConfig \cup {None, Broken}] /\ faults' \in 0..MaxFaults
    BY <1>3, <2>2, SaveType DEF SetupEnds, TypeOK
  <2> QED
    BY <1>3, <2>1, <2>3 DEF SetupEnds, TypeOK, accounts, identities, workers
<1>4. CASE run(m) \/ KeepAlive(m)
  BY <1>4, StartType DEF run, KeepAlive
<1>5. CASE Registered(m)
  <2>1. reg' \in [Client -> Registration \cup {None}]
    BY <1>0, <1>5, BecomesType DEF Registered
  <2>2. [daemon[m] EXCEPT !.joined = TRUE] \in Process
    BY <1>5 DEF Registered, TypeOK, Process
  <2> QED
    BY <1>5, <2>1, <2>2 DEF Registered, TypeOK, accounts, identities, workers
<1>6. CASE RegisterFailed(m)
  <2>1. daemon[m].node \in Names /\ daemon[m].credential \in Bearer
    BY <1>6 DEF RegisterFailed, TypeOK, Process, Bearer
  <2>2. reg' \in [Client -> Registration \cup {None}]
    BY <1>0, <1>6, <2>1, SentType, BecomesType DEF RegisterFailed, Again
  <2> QED
    BY <1>6, <2>2 DEF RegisterFailed, TypeOK, accounts, identities, workers
<1>7. CASE Dies(m)
  BY <1>7, FaultType DEF Dies, TypeOK, accounts, identities, workers
<1>8. CASE run_daemon(m)
  BY <1>8, UnloadType DEF run_daemon, TypeOK, accounts, identities, workers
<1>9. CASE LoadAgent(m)
  BY <1>9 DEF LoadAgent, TypeOK, accounts, identities, workers
<1>10. CASE stop(m)
  BY <1>10, UnloadType DEF stop, TypeOK, accounts, identities, workers
<1>11. CASE uninstall(m)
  <2>1. config' \in [Machines -> WorkerConfig \cup {None, Broken}] /\ faults' \in 0..MaxFaults
    BY <1>11, FaultType DEF uninstall, TypeOK
  <2>2. /\ agent' \in [Machines -> {"none", "loading", "loaded"}]
        /\ daemon' \in [Machines -> Process \cup {None}]
    BY <1>11, UnloadType DEF uninstall
  <2> QED
    BY <1>11, <2>1, <2>2 DEF uninstall, TypeOK, accounts, identities, workers
<1> QED
  BY <1>1, <1>2, <1>3, <1>4, <1>5, <1>6, <1>7, <1>8, <1>9, <1>10, <1>11, <1>12 DEF OnMachine

LEMMA NextType == TypeOK /\ [Next]_vars => TypeOK'
<1> SUFFICES ASSUME TypeOK, [Next]_vars PROVE TypeOK'
  OBVIOUS
<1>1. CASE Next
  BY <1>1, AdminsType, ServeType, FaultsType, MachineType DEF Next
<1>2. CASE UNCHANGED vars
  BY <1>2 DEF vars, accounts, identities, workers, TypeOK
<1> QED
  BY <1>1, <1>2

\* The rows of crates/auth, the requests under way and the machines' files and
\* processes are well formed after any sequence of handlers, commands and faults.
THEOREM TypeCorrect == Spec => []TypeOK
BY InitType, NextType, PTL DEF Spec

------------------------------------------------------------------------------
(* A machine speaks as itself.                                               *)

\* What the server hands out is in the name that was registered.
Issued ==
  \A k \in Client : reg[k] # None /\ reg[k].token # None => reg[k].token.name = reg[k].name

\* What an edit is about to write was a machine's own when it was read.
Edited ==
  \A m \in Machines : edit[m] # None /\ is_connected(edit[m]) => edit[m].credential.name = edit[m].node

Speaks == SpeaksAsItself /\ Issued

\* A request's name and token change together, or it is a new one without a token.
LEMMA IssuedBecomes ==
  ASSUME TypeOK, Issued, NEW k \in Client, NEW r \in Registration \cup {None}, Becomes(k, r),
         r # None => r.token = None \/ r.token.name = r.name
  PROVE  Issued'
BY DEF TypeOK, Issued, Becomes

LEMMA StartSpeaks ==
  ASSUME TypeOK, Speaks, NEW m \in Machines, load(m), is_connected(config[m]), Start(m, config[m])
  PROVE  Speaks'
<1>1. config[m] \in WorkerConfig /\ config[m].credential \in Credential
  BY LoadedType DEF is_connected, WorkerConfig
<1>2. Sent(config[m].node, config[m].credential) \in Registration /\ <<m, "run">> \in Client
  BY <1>1, SentType DEF WorkerConfig, Bearer, Client
<1>3. Issued'
  BY <1>2, IssuedBecomes DEF Start, Speaks, Sent
<1>4. config[m].credential.name = config[m].node
  BY DEF Speaks, SpeaksAsItself
<1>5. SpeaksAsItself'
  BY <1>4 DEF Start, Speaks, SpeaksAsItself, load, is_connected, TypeOK
<1> QED
  BY <1>3, <1>5 DEF Speaks

\* A config that is saved is the machine's own, and the others are left alone.
LEMMA SaveSpeaks ==
  ASSUME TypeOK, SpeaksAsItself, NEW m \in Machines, NEW cfg \in WorkerConfig, save(m, cfg),
         UNCHANGED daemon, is_connected(cfg) => cfg.credential.name = cfg.node
  PROVE  SpeaksAsItself'
<1>1. config' \in {config, [config EXCEPT ![m] = cfg], [config EXCEPT ![m] = Broken]}
  BY DEF save
<1> QED
  BY <1>1 DEF SpeaksAsItself, load, is_connected, TypeOK

\* An agent that is unloaded ends a process, and starts none.
LEMMA UnloadSpeaks ==
  ASSUME TypeOK, SpeaksAsItself, NEW m \in Machines, NEW state, Unload(m, state),
         config' = config \/ config' = [config EXCEPT ![m] = None]
  PROVE  SpeaksAsItself'
BY DEF SpeaksAsItself, Unload, load, is_connected, TypeOK

LEMMA ServeSpeaks ==
  ASSUME TypeOK, Speaks, NEW k \in Client, Serve(k) \/ LoseAnswer(k)
  PROVE  Speaks'
<1>1. UNCHANGED <<config, daemon>>
  BY DEF Serve, Verify, PutWorker, issue_credential, LoseAnswer
<1>2. SpeaksAsItself'
  BY <1>1 DEF Speaks, SpeaksAsItself, load, is_connected
<1>3. reg[k] \in Registration /\ reg[k] # None
  BY DEF Serve, Verify, PutWorker, issue_credential, LoseAnswer, At, TypeOK
<1>4. ASSUME NEW l \in Client PROVE
        \/ reg'[l] = reg[l]
        \/ /\ l = k /\ reg'[k].name = reg[k].name
           /\ reg'[k].token = reg[k].token \/ reg'[k].token.name = reg[k].name
  <2>1. reg \in [Client -> Registration \cup {None}]
    BY DEF TypeOK
  <2>3. CASE Verify(k)
    BY <1>3, <2>1, <2>3 DEF Verify, Becomes, Registration
  <2>4. CASE PutWorker(k)
    BY <1>3, <2>1, <2>4 DEF PutWorker, Becomes, Registration
  <2>5. CASE issue_credential(k)
    <3> DEFINE q == [reg[k] EXCEPT !.pc = "answered",
                                   !.token = [name |-> reg[k].name, serial |-> serial + 1]]
    <3>1. q.name = reg[k].name /\ q.token.name = reg[k].name
      BY <1>3 DEF Registration
    <3>2. reg' = [reg EXCEPT ![k] = q]
      BY <2>5 DEF issue_credential, Becomes
    <3> HIDE DEF q
    <3> QED
      BY <2>1, <3>1, <3>2
  <2>6. CASE LoseAnswer(k)
    BY <1>3, <2>1, <2>6 DEF LoseAnswer, Becomes, Registration
  <2> QED
    BY <2>3, <2>4, <2>5, <2>6 DEF Serve
<1>5. Issued'
  BY <1>3, <1>4 DEF Speaks, Issued
<1> QED
  BY <1>2, <1>5 DEF Speaks

LEMMA MachineSpeaks ==
  ASSUME TypeOK, Speaks, Edited, NEW m \in Machines, OnMachine(m) PROVE Speaks'
<1> DEFINE s == <<m, "setup">>
           d == <<m, "run">>
<1>0. s \in Client /\ d \in Client
  BY DEF Client
<1>1. ASSUME NEW n \in Names, config_set(m, n) PROVE Speaks'
  BY <1>1 DEF config_set, Speaks, SpeaksAsItself, Issued, load, is_connected
<1>10. CASE EditWrites(m)
  <2>1. /\ edit[m] \in WorkerConfig
        /\ is_connected(edit[m]) => edit[m].credential.name = edit[m].node
    BY <1>10 DEF EditWrites, Edited, TypeOK
  <2>2. UNCHANGED <<daemon, reg>>
    BY <1>10 DEF EditWrites
  <2>3. CASE save(m, edit[m])
    BY <2>1, <2>2, <2>3, SaveSpeaks DEF Speaks, Issued
  <2>4. CASE UNCHANGED config
    BY <2>2, <2>4 DEF Speaks, SpeaksAsItself, Issued, load, is_connected
  <2> QED
    BY <1>10, <2>3, <2>4 DEF EditWrites
<1>2. ASSUME NEW given \in Names \cup {None}, NEW t \in Tokens, setup(m, given, t) PROVE Speaks'
  <2> DEFINE n == resolve_setup(given, config[m])
  <2>1. n \in Names
    BY <1>2 DEF setup, resolve_setup, load_if_present, TypeOK, WorkerConfig
  <2>2. Sent(n, t) \in Registration /\ Becomes(s, Sent(n, t)) /\ UNCHANGED <<config, daemon>>
    BY <1>2, <2>1, SentType DEF setup, Bearer
  <2>3. Issued'
    BY <1>0, <2>2, IssuedBecomes DEF Speaks, Sent
  <2> QED
    BY <2>2, <2>3 DEF Speaks, SpeaksAsItself, load, is_connected
<1>3. CASE SetupEnds(m)
  <2>1. Issued'
    BY <1>0, <1>3, IssuedBecomes DEF SetupEnds, Speaks
  <2>2. CASE At(s, "answered") /\ save(m, Joined(reg[s]))
    <3>1. /\ Joined(reg[s]) \in WorkerConfig
          /\ is_connected(Joined(reg[s])) => Joined(reg[s]).credential.name = Joined(reg[s]).node
      BY <1>0, <2>2 DEF At, Joined, TypeOK, Registration, WorkerConfig, is_connected, Speaks, Issued
    <3>2. UNCHANGED daemon
      BY <1>3 DEF SetupEnds
    <3>3. SpeaksAsItself'
      BY <2>2, <3>1, <3>2, SaveSpeaks DEF Speaks
    <3> QED
      BY <2>1, <3>3 DEF Speaks
  <2>3. CASE UNCHANGED config
    BY <1>3, <2>1, <2>3 DEF SetupEnds, Speaks, SpeaksAsItself, load, is_connected
  <2> QED
    BY <1>3, <2>2, <2>3 DEF SetupEnds
<1>4. CASE run(m) \/ KeepAlive(m)
  BY <1>4, StartSpeaks DEF run, KeepAlive
<1>5. CASE Registered(m)
  <2>1. Issued'
    BY <1>0, <1>5, IssuedBecomes DEF Registered, Speaks
  <2>2. SpeaksAsItself'
    BY <1>5 DEF Registered, Speaks, SpeaksAsItself, load, is_connected, TypeOK, Process
  <2> QED
    BY <2>1, <2>2 DEF Speaks
<1>6. CASE RegisterFailed(m)
  <2>1. daemon[m].node \in Names /\ daemon[m].credential \in Bearer
    BY <1>6 DEF RegisterFailed, TypeOK, Process, Bearer
  <2>2. Issued'
    BY <1>0, <1>6, <2>1, SentType, IssuedBecomes DEF RegisterFailed, Again, Sent, Speaks
  <2> QED
    BY <1>6, <2>2 DEF RegisterFailed, Speaks, SpeaksAsItself, load, is_connected
<1>7. CASE Dies(m)
  BY <1>7 DEF Dies, Speaks, SpeaksAsItself, Issued, load, is_connected, TypeOK
<1>8. CASE run_daemon(m) \/ stop(m) \/ uninstall(m)
  <2>1. UNCHANGED reg
    BY <1>8 DEF run_daemon, stop, uninstall
  <2>2. SpeaksAsItself'
    BY <1>8, UnloadSpeaks DEF run_daemon, stop, uninstall, Speaks
  <2> QED
    BY <2>1, <2>2 DEF Speaks, Issued
<1>9. CASE LoadAgent(m)
  BY <1>9 DEF LoadAgent, Speaks, SpeaksAsItself, Issued, load, is_connected
<1> QED
  BY <1>1, <1>2, <1>3, <1>4, <1>5, <1>6, <1>7, <1>8, <1>9, <1>10 DEF OnMachine

LEMMA NextSpeaks == TypeOK /\ Speaks /\ Edited /\ [Next]_vars => Speaks'
<1> SUFFICES ASSUME TypeOK, Speaks, Edited, [Next]_vars PROVE Speaks'
  OBVIOUS
<1>1. CASE Admins
  <2>1. UNCHANGED <<config, daemon, reg>>
    BY <1>1 DEF Admins, setup_admin, SetupWrites, login, revoke_admin_token, mint_token,
                revoke_bootstrap_token, delete_worker, revoke_credential, replace, PutBack
  <2> QED
    BY <2>1 DEF Speaks, SpeaksAsItself, Issued, load, is_connected
<1>2. CASE Restart
  <2>1. \A k \in Client : reg[k] # None => reg'[k] = reg[k] \/ reg'[k] = [reg[k] EXCEPT !.pc = "refused"]
    BY <1>2 DEF Restart
  <2>2. \A k \in Client : reg[k] = None => reg'[k] = None
    BY <1>2 DEF Restart
  <2>3. Issued'
    BY <2>1, <2>2 DEF Speaks, Issued, TypeOK, Registration
  <2> QED
    BY <1>2, <2>3 DEF Restart, Speaks, SpeaksAsItself, load, is_connected
<1>3. CASE \E k \in Client : Serve(k) \/ LoseAnswer(k)
  BY <1>3, ServeSpeaks
<1>4. CASE \E m \in Machines : OnMachine(m)
  BY <1>4, MachineSpeaks
<1>5. CASE UNCHANGED vars
  BY <1>5 DEF vars, Speaks, SpeaksAsItself, Issued, load, is_connected
<1> QED
  BY <1>1, <1>2, <1>3, <1>4, <1>5 DEF Next

\* An edit is of a file that was the machine's own, and leaves a joined one its name.
LEMMA NextEdited == TypeOK /\ Speaks /\ Edited /\ [Next]_vars => Edited'
<1> SUFFICES ASSUME TypeOK, Speaks, Edited, [Next]_vars PROVE Edited'
  OBVIOUS
<1>1. ASSUME NEW m \in Machines, NEW n \in Names, config_set(m, n) PROVE Edited'
  <2> DEFINE e == [config[m] EXCEPT !.node = n]
  <2>1. config[m] \in WorkerConfig /\ edit' = [edit EXCEPT ![m] = e]
    BY <1>1, LoadedType DEF config_set, apply
  <2>2. e.credential = config[m].credential /\ e.node = n
    BY <2>1 DEF WorkerConfig
  <2>3. is_connected(e) => e.credential.name = e.node
    BY <1>1, <2>2 DEF config_set, apply, is_connected, Speaks, SpeaksAsItself
  <2> HIDE DEF e
  <2> QED
    BY <2>1, <2>3 DEF Edited, TypeOK
<1>2. ASSUME NEW m \in Machines, EditWrites(m) PROVE Edited'
  BY <1>2 DEF EditWrites, Edited, TypeOK
<1>3. ASSUME UNCHANGED edit PROVE Edited'
  BY <1>3 DEF Edited
<1>4. CASE Admins \/ Restart
  BY <1>3, <1>4 DEF Admins, Restart, setup_admin, SetupWrites, login, revoke_admin_token, mint_token,
     revoke_bootstrap_token, delete_worker, revoke_credential, replace, PutBack
<1>5. CASE \E k \in Client : Serve(k) \/ LoseAnswer(k)
  BY <1>3, <1>5 DEF Serve, Verify, PutWorker, issue_credential, LoseAnswer
<1>6. CASE \E m \in Machines : OnMachine(m)
  BY <1>1, <1>2, <1>3, <1>6 DEF OnMachine, setup, SetupEnds, run, Registered, RegisterFailed, Dies,
     run_daemon, LoadAgent, KeepAlive, stop, uninstall, Start
<1>7. CASE UNCHANGED vars
  BY <1>3, <1>7 DEF vars
<1> QED
  BY <1>4, <1>5, <1>6, <1>7 DEF Next

\* Whatever set-ups, edits of the config and starts are interleaved, on any number of
\* machines, no machine presents a credential that is another worker's.
THEOREM MachinesSpeakAsThemselves == Spec => []SpeaksAsItself
<1>1. Init => Speaks /\ Edited
  BY DEF Init, Speaks, SpeaksAsItself, Issued, Edited, load, is_connected
<1>2. Speaks => SpeaksAsItself
  BY DEF Speaks
<1> QED
  BY <1>1, <1>2, NextSpeaks, NextEdited, TypeCorrect, PTL DEF Spec

------------------------------------------------------------------------------
(* One admin.                                                                *)

\* While no two set-ups overlap: one is under way before the account is there, and
\* none after; tokens and answers are the account's.
Account ==
  \/ overlapped
  \/ /\ \A u, v \in settingUp : u = v
     /\ admin = None => answered = {} /\ adminTokens = {}
     /\ admin # None => settingUp = {} /\ answered \subseteq {admin} /\ adminTokens \subseteq {admin}

LEMMA AccountKept == Account /\ UNCHANGED accounts => Account'
BY DEF Account, accounts

LEMMA NextAccount == Account /\ [Next]_vars => Account'
<1> SUFFICES ASSUME Account, [Next]_vars PROVE Account'
  OBVIOUS
<1>1. ASSUME NEW u \in Users, setup_admin(u) PROVE Account'
  BY <1>1 DEF setup_admin, is_initialized, Begins, Account
<1>2. ASSUME NEW u \in Users, SetupWrites(u) PROVE Account'
  <2>1. overlapped \/ (admin = None /\ settingUp = {u})
    BY <1>2 DEF SetupWrites, Account
  <2>2. CASE overlapped
    BY <1>2, <2>2 DEF SetupWrites, Account
  <2>3. CASE ~overlapped /\ admin = None /\ settingUp = {u}
    <3>1. answered = {} /\ adminTokens = {}
      BY <2>3 DEF Account
    <3>2. admin' = u /\ settingUp' = {} /\ answered' = {u} /\ adminTokens' = {}
      BY <1>2, <2>3, <3>1 DEF SetupWrites
    <3>3. u # None
      BY NoneAssumption
    <3> QED
      BY <3>2, <3>3 DEF Account
  <2> QED
    BY <2>1, <2>2, <2>3
<1>3. ASSUME NEW u \in Users, login(u) PROVE Account'
  BY <1>3 DEF login, verify_password, mint_admin_token, Account
<1>4. ASSUME NEW u \in Users, revoke_admin_token(u) PROVE Account'
  BY <1>4 DEF revoke_admin_token, Account
<1>5. ASSUME NEW t \in Tokens, mint_token(t) \/ revoke_bootstrap_token(t) PROVE Account'
  BY <1>5, AccountKept DEF mint_token, revoke_bootstrap_token
<1>6. ASSUME NEW n \in Names, delete_worker(n) \/ revoke_credential(n) \/ replace(n) \/ PutBack(n)
      PROVE  Account'
  BY <1>6, AccountKept DEF delete_worker, revoke_credential, replace, PutBack
<1>7. CASE Restart
  BY <1>7 DEF Restart, Account
<1>8. ASSUME NEW k \in Client, Serve(k) \/ LoseAnswer(k) PROVE Account'
  BY <1>8, AccountKept DEF Serve, Verify, PutWorker, issue_credential, LoseAnswer
<1>9. ASSUME NEW m \in Machines, OnMachine(m) PROVE Account'
  BY <1>9, AccountKept DEF OnMachine, config_set, EditWrites, setup, SetupEnds, run, Registered,
     RegisterFailed, Dies, run_daemon, LoadAgent, KeepAlive, stop, uninstall, Start
<1>10. CASE UNCHANGED vars
  BY <1>10, AccountKept DEF vars
<1> QED
  BY <1>1, <1>2, <1>3, <1>4, <1>5, <1>6, <1>7, <1>8, <1>9, <1>10 DEF Next, Admins

\* However set-ups, log-ins, revocations and restarts of the server are interleaved,
\* and however many try: unless two set-ups overlap, the account is one person's.
THEOREM OneAccount == Spec => []OneAdmin
<1>1. Init => Account
  BY DEF Init, Account
<1>2. Account => OneAdmin
  BY DEF Account, OneAdmin
<1> QED
  BY <1>1, <1>2, NextAccount, PTL DEF Spec

------------------------------------------------------------------------------
(* A deleted worker stays out.                                               *)

\* Nothing that the server does, or is about to do, brings it back.
Out == \A n \in evicted : cred[n] = 0 /\ (n \in worker => n \in revived) /\ ~UnderWay(n)

\* A request that changes is under way afterwards only if it says so.
LEMMA UnderWayBecomes ==
  ASSUME TypeOK, NEW k \in Client, NEW r, Becomes(k, r), NEW n, UnderWay(n)'
  PROVE  UnderWay(n) \/ (r # None /\ r.name = n /\ r.pc \in {"put", "issue"})
BY DEF TypeOK, Becomes, UnderWay

LEMMA OutKept ==
  ASSUME Out, evicted' \subseteq evicted, UNCHANGED <<worker, revived, cred>>, \A n \in evicted' : UnderWay(n)' => UnderWay(n)
  PROVE  Out'
BY DEF Out

\* The registration of a worker that is deleted for good is not under way.
LEMMA NotEvicted ==
  ASSUME TypeOK, Out, NEW k \in Client, At(k, "put") \/ At(k, "issue")
  PROVE  reg[k].name \notin evicted
BY DEF Out, At, UnderWay

LEMMA ServeOut == ASSUME TypeOK, Out, NEW k \in Client, Serve(k) PROVE Out'
<1> DEFINE r == reg[k]
<1>0. r \in Registration /\ r # None
  BY DEF Serve, Verify, PutWorker, issue_credential, At, TypeOK
<1>1. CASE Verify(k)
  <2>1. CASE verify_bootstrap(r.bearer)
    <3> DEFINE q == [r EXCEPT !.how = "Join", !.pc = "put"]
    <3>1. Becomes(k, q) /\ evicted' = evicted \ {r.name} /\ UNCHANGED <<worker, revived, cred>>
      BY <1>1, <2>1 DEF Verify, identities, workers
    <3>2. q.name = r.name
      BY <1>0 DEF Registration
    <3> HIDE DEF q
    <3>3. \A n \in evicted' : UnderWay(n)' => UnderWay(n)
      BY <3>1, <3>2, UnderWayBecomes
    <3> QED
      BY <3>1, <3>3, OutKept
  <2>2. CASE ~verify_bootstrap(r.bearer) /\ authenticate(r.bearer) = r.name
    <3> DEFINE q == [r EXCEPT !.how = "Refresh", !.pc = "put"]
    <3>1. Becomes(k, q) /\ UNCHANGED <<worker, revived, cred, evicted>>
      BY <1>1, <2>2 DEF Verify, identities, workers
    <3>2. q.name = r.name /\ r.name \in Names
      BY <1>0 DEF Registration
    <3> HIDE DEF q
    <3>3. r.bearer \in Credential /\ cred[r.name] = r.bearer.serial
      BY <2>2, <3>2, NoneAssumption DEF authenticate
    <3>4. cred[r.name] # 0
      BY <3>3, BoundsAssumption DEF Credential
    <3>5. r.name \notin evicted
      BY <3>4 DEF Out
    <3>6. \A n \in evicted' : UnderWay(n)' => UnderWay(n)
      BY <3>1, <3>2, <3>5, UnderWayBecomes
    <3> QED
      BY <3>1, <3>6, OutKept
  <2>3. CASE ~verify_bootstrap(r.bearer) /\ authenticate(r.bearer) # r.name
    <3> DEFINE q == [r EXCEPT !.pc = "refused"]
    <3>1. Becomes(k, q) /\ UNCHANGED <<worker, revived, cred, evicted>>
      BY <1>1, <2>3 DEF Verify, identities, workers
    <3>2. q.pc = "refused"
      BY <1>0 DEF Registration
    <3> HIDE DEF q
    <3>3. \A n \in evicted' : UnderWay(n)' => UnderWay(n)
      BY <3>1, <3>2, UnderWayBecomes
    <3> QED
      BY <3>1, <3>3, OutKept
  <2> QED
    BY <2>1, <2>2, <2>3
<1>2. CASE PutWorker(k)
  <2> DEFINE q == [r EXCEPT !.pc = IF r.how = "Join" THEN "issue" ELSE "answered"]
  <2>1. r.name \notin evicted
    BY <1>2, NotEvicted DEF PutWorker
  <2>2. q.name = r.name
    BY <1>0 DEF Registration
  <2>3. /\ Becomes(k, q) /\ worker' = worker \cup {r.name} /\ revived' = revived \ {r.name}
        /\ UNCHANGED <<cred, evicted>>
    BY <1>2 DEF PutWorker, identities
  <2> HIDE DEF q
  <2>4. \A n \in evicted' : UnderWay(n)' => UnderWay(n)
    BY <2>1, <2>2, <2>3, UnderWayBecomes
  <2> QED
    BY <2>1, <2>3, <2>4 DEF Out
<1>3. CASE issue_credential(k)
  <2> DEFINE q == [r EXCEPT !.pc = "answered", !.token = [name |-> r.name, serial |-> serial + 1]]
  <2>1. r.name \notin evicted
    BY <1>3, NotEvicted DEF issue_credential
  <2>2. q.pc = "answered"
    BY <1>0 DEF Registration
  <2>3. Becomes(k, q) /\ cred' = [cred EXCEPT ![r.name] = serial + 1] /\ UNCHANGED <<worker, revived, evicted>>
    BY <1>3 DEF issue_credential, workers
  <2> HIDE DEF q
  <2>4. \A n \in evicted' : UnderWay(n)' => UnderWay(n)
    BY <2>2, <2>3, UnderWayBecomes
  <2>5. \A n \in evicted' : cred'[n] = cred[n]
    BY <2>1, <2>3 DEF TypeOK
  <2> QED
    BY <2>3, <2>4, <2>5 DEF Out
<1> QED
  BY <1>1, <1>2, <1>3 DEF Serve

LEMMA MachineOut == ASSUME TypeOK, Out, NEW m \in Machines, OnMachine(m) PROVE Out'
<1>0. \A f \in {"setup", "run"} : <<m, f>> \in Client
  BY DEF Client
<1>1. evicted' = evicted /\ UNCHANGED <<worker, revived, cred>>
  BY DEF OnMachine, config_set, EditWrites, setup, SetupEnds, run, Registered, RegisterFailed, Dies,
     run_daemon, LoadAgent, KeepAlive, stop, uninstall, Start, identities, workers
<1>2. \/ UNCHANGED reg
      \/ \E f \in {"setup", "run"} : \E n, b : Becomes(<<m, f>>, Sent(n, b))
      \/ \E f \in {"setup", "run"} : Becomes(<<m, f>>, None)
  BY DEF OnMachine, config_set, EditWrites, setup, SetupEnds, run, Registered, RegisterFailed, Again, Dies,
     run_daemon, LoadAgent, KeepAlive, stop, uninstall, Start
<1>3. \A n : UnderWay(n)' => UnderWay(n)
  <2>1. CASE UNCHANGED reg
    BY <2>1 DEF UnderWay
  <2>2. ASSUME NEW k \in Client, NEW r, Becomes(k, r), r # None => r.pc = "verify"
        PROVE  \A n : UnderWay(n)' => UnderWay(n)
    BY <2>2, UnderWayBecomes
  <2>3. \A n, b : Sent(n, b).pc = "verify"
    BY DEF Sent
  <2> QED
    BY <1>0, <1>2, <2>1, <2>2, <2>3
<1> QED
  BY <1>1, <1>3, OutKept

LEMMA NextOut == TypeOK /\ Out /\ [Next]_vars => Out'
<1> SUFFICES ASSUME TypeOK, Out, [Next]_vars PROVE Out'
  OBVIOUS
<1>1. ASSUME NEW u \in Users, setup_admin(u) \/ SetupWrites(u) \/ login(u) \/ revoke_admin_token(u)
      PROVE  Out'
  <2>1. UNCHANGED <<worker, revived, cred, reg, evicted>>
    BY <1>1 DEF setup_admin, SetupWrites, login, revoke_admin_token, identities, workers
  <2> QED
    BY <2>1, OutKept DEF UnderWay
<1>2. ASSUME NEW t \in Tokens, mint_token(t) \/ revoke_bootstrap_token(t) PROVE Out'
  <2>1. UNCHANGED <<worker, revived, cred, reg, evicted>>
    BY <1>2 DEF mint_token, revoke_bootstrap_token, workers
  <2> QED
    BY <2>1, OutKept DEF UnderWay
<1>3. ASSUME NEW n \in Names, delete_worker(n) \/ replace(n) PROVE Out'
  BY <1>3 DEF delete_worker, replace, Drop, Out, UnderWay, identities
<1>10. ASSUME NEW n \in Names, PutBack(n) PROVE Out'
  BY <1>10 DEF PutBack, Out, UnderWay, identities
<1>4. ASSUME NEW n \in Names, revoke_credential(n) PROVE Out'
  <2>1. UNCHANGED <<worker, revived, reg>>
    BY <1>4 DEF revoke_credential
  <2>2. \A l : UnderWay(l)' <=> UnderWay(l)
    BY <2>1 DEF UnderWay
  <2>3. CASE UNCHANGED <<cred, evicted>>
    BY <2>1, <2>2, <2>3, OutKept
  <2>4. CASE /\ cred' = [cred EXCEPT ![n] = 0]
             /\ Evicts(n)
    <3>1. \A l \in evicted' : l \in evicted \/ (l = n /\ ~UnderWay(n) /\ n \notin worker \ revived)
      BY <2>4 DEF Evicts
    <3>2. \A l \in Names : cred'[l] = IF l = n THEN 0 ELSE cred[l]
      BY <2>4 DEF TypeOK
    <3>3. evicted \subseteq Names
      BY DEF TypeOK
    <3> QED
      BY <2>1, <2>2, <3>1, <3>2, <3>3 DEF Out
  <2> QED
    BY <1>4, <2>3, <2>4 DEF revoke_credential
<1>5. CASE Restart
  <2>1. UNCHANGED <<worker, revived, cred, evicted>>
    BY <1>5 DEF Restart, identities
  <2>2. \A k \in Client : \/ reg'[k] = reg[k]
                          \/ reg[k] # None /\ reg'[k] = [reg[k] EXCEPT !.pc = "refused"]
    BY <1>5 DEF Restart
  <2>3. \A k \in Client : reg[k] # None => [reg[k] EXCEPT !.pc = "refused"].pc = "refused"
    BY DEF TypeOK, Registration
  <2>4. \A n : UnderWay(n)' => UnderWay(n)
    BY <2>2, <2>3 DEF UnderWay
  <2> QED
    BY <2>1, <2>4, OutKept
<1>6. ASSUME NEW k \in Client, Serve(k) PROVE Out'
  BY <1>6, ServeOut
<1>7. ASSUME NEW k \in Client, LoseAnswer(k) PROVE Out'
  <2>1. \A pc \in {"refused", "hung"} : [reg[k] EXCEPT !.pc = pc].pc = pc
    BY <1>7 DEF LoseAnswer, At, TypeOK, Registration
  <2>2. PICK q : Becomes(k, q) /\ q.pc \in {"refused", "hung"}
    BY <1>7, <2>1 DEF LoseAnswer
  <2>4. UNCHANGED <<worker, revived, cred, evicted>>
    BY <1>7 DEF LoseAnswer, identities, workers
  <2>3. \A n : UnderWay(n)' => UnderWay(n)
    BY <2>2, UnderWayBecomes
  <2> QED
    BY <2>3, <2>4, OutKept
<1>8. ASSUME NEW m \in Machines, OnMachine(m) PROVE Out'
  BY <1>8, MachineOut
<1>9. CASE UNCHANGED vars
  BY <1>9 DEF vars, identities, workers, Out, UnderWay
<1> QED
  BY <1>1, <1>2, <1>3, <1>4, <1>5, <1>6, <1>7, <1>8, <1>9, <1>10 DEF Next, Admins

\* Whatever a deleted worker's machines still hold and send, however the server's
\* handlers and stops fall between, and whoever puts its row back from an earlier
\* read: without a join token it has no credential again, and registers no row.
THEOREM DeletedWorkersStayOut == Spec => []DeletedStaysOut
<1>1. Init => Out
  BY DEF Init, Out
<1>2. Out => DeletedStaysOut
  BY DEF Out, DeletedStaysOut
<1> QED
  BY <1>1, <1>2, NextOut, TypeCorrect, PTL DEF Spec
==============================================================================
