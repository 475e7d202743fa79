-------------------------------- MODULE Store --------------------------------
(***************************************************************************)
(* The API server's object store (crates/store/src/lib.rs) and the watch   *)
(* stream that reads its event log (crates/server/src/lib.rs:610-651).     *)
(*                                                                         *)
(* One mutex guards one SQLite connection.  Every statement commits on its *)
(* own (there is no BEGIN), so a call that issues several statements is    *)
(* several steps here, with the mutex held in between: other calls cannot  *)
(* come in, but a failed statement or a dead process leaves what was       *)
(* already committed.                                                      *)
(*                                                                         *)
(* The callers are the API handlers and the controllers.  Each one takes   *)
(* its resource version with a call of its own, BEFORE and apart from the  *)
(* put that uses it: next_resource_version and put are two lock            *)
(* acquisitions.                                                           *)
(***************************************************************************)
EXTENDS Naturals, Sequences, FiniteSets

CONSTANTS Callers,     \* threads of the server that write objects
          Watchers,    \* open watch streams
          Names,       \* object names, of one kind
          NoObject,    \* an absent row
          NoCaller,    \* the mutex is free
          Faults,      \* subset of {"crash", "sqlite"}
          MaxVersion   \* bound: resource versions allocated in a behaviour

ASSUME NamesAssumption == Names # {}
ASSUME NoObjectAssumption == NoObject \notin [version : Nat, doc : Callers]
ASSUME NoCallerAssumption == NoCaller \notin Callers
ASSUME MaxVersionAssumption == MaxVersion \in Nat

VARIABLES objects,     \* table objects: name -> row, or NoObject
          rvSeq,       \* table rv_seq
          events,      \* table events, in seq order
          lock,        \* the mutex on the connection: its holder, or NoCaller
          caller,      \* per caller: where it is, and what it holds
          last,        \* per watch stream: the cursor `last`
          delivered    \* per watch stream: positions of the log it has sent

vars == <<objects, rvSeq, events, lock, caller, last, delivered>>
storeVars == <<objects, rvSeq, events>>
watchVars == <<last, delivered>>

\* A document is named by the caller that composed it.
Object == [version : Nat, doc : Callers]
EventType == {"Added", "Modified", "Deleted"}
Event == [version : Nat, name : Names, doc : Callers, type : EventType]

(***************************************************************************)
(* Where a caller is:                                                      *)
(*   idle     no write under way                                           *)
(*   read     has fetched `seen`, will build its write from it             *)
(*   stamped  holds a fresh resource version                               *)
(*   row      inside put/put_cas: row written, event still to be appended  *)
(*   gone     inside delete: row removed, no version yet                   *)
(*   bumped   inside delete: version taken, event still to be appended     *)
(***************************************************************************)
Place == {"idle", "read", "stamped", "row", "gone", "bumped"}
InCall == {"row", "gone", "bumped"}

CallerState == [pc : Place, name : Names, seen : Object \cup {NoObject},
                version : Nat, type : EventType]

At(p, n, obj, v, t) == [pc |-> p, name |-> n, seen |-> obj, version |-> v, type |-> t]

Idle == At("idle", CHOOSE n \in Names : TRUE, NoObject, 0, "Added")

TypeOK ==
  /\ objects \in [Names -> Object \cup {NoObject}]
  /\ rvSeq \in Nat
  /\ events \in Seq(Event)
  /\ lock \in Callers \cup {NoCaller}
  /\ caller \in [Callers -> CallerState]
  /\ \A c \in Callers : caller[c].pc \in {"gone", "bumped"} => caller[c].seen # NoObject
  /\ last \in [Watchers -> Nat]
  /\ delivered \in [Watchers -> SUBSET Nat]

Init ==
  /\ objects = [n \in Names |-> NoObject]
  /\ rvSeq = 0
  /\ events = << >>
  /\ lock = NoCaller
  /\ caller = [c \in Callers |-> Idle]
  /\ last = [w \in Watchers |-> 0]
  /\ delivered = [w \in Watchers |-> {}]

------------------------------------------------------------------------------
(* Calls that read, or that take a version.  They hold the mutex for one    *)
(* statement, or for two that nothing can separate: a single step.          *)

\* get, by a caller that will write back what it derives from the answer.
Get(c, n) ==
  /\ lock = NoCaller
  /\ caller[c].pc \in {"idle", "read"}
  /\ caller' = [caller EXCEPT ![c] = At("read", n, objects[n], 0, "Added")]
  /\ UNCHANGED <<storeVars, lock, watchVars>>

\* Mutant: the sequence is read, never advanced.
bump_rv_latest == rvSeq

\* bump_rv: the value after the increment.
bump_rv == rvSeq + 1

\* next_resource_version: a creator calls it without reading first.
NextResourceVersion(c, n) ==
  /\ lock = NoCaller
  /\ rvSeq < MaxVersion
  /\ \/ caller[c].pc = "idle"
     \/ caller[c].pc = "read" /\ caller[c].name = n
  /\ rvSeq' = bump_rv
  /\ caller' = [caller EXCEPT ![c] = At("stamped", n, @.seen, bump_rv, @.type)]
  /\ UNCHANGED <<objects, events, lock, watchVars>>

------------------------------------------------------------------------------
(* put, put_cas and delete, one committed statement per step.               *)

\* write_row, for the object a caller holds.
write_row(c) ==
  objects' = [objects EXCEPT ![caller[c].name] =
                [version |-> caller[c].version, doc |-> c]]

\* Mutants: put always says Modified; put lets go of the mutex after the row.
TypeOfPut_Modified(c) == "Modified"
HeldAfterRow_Early(c) == NoCaller

\* The event type of a put, and the mutex's holder while its event is pending.
TypeOfPut(c) == IF objects[caller[c].name] = NoObject THEN "Added" ELSE "Modified"
HeldAfterRow(c) == c

\* put: the event type is chosen by prior existence, under the same lock.
Put(c) ==
  /\ lock = NoCaller
  /\ caller[c].pc = "stamped"
  /\ write_row(c)
  /\ lock' = HeldAfterRow(c)
  /\ caller' = [caller EXCEPT ![c] = At("row", @.name, @.seen, @.version, TypeOfPut(c))]
  /\ UNCHANGED <<rvSeq, events, watchVars>>

\* Mutants: any stored version will do; the stored version may be older.
Expected_Exists(c) == objects[caller[c].name] # NoObject
Expected_Newer(c) == /\ objects[caller[c].name] # NoObject
                     /\ objects[caller[c].name].version >= caller[c].seen.version

\* put_cas's test: the stored version is the one the caller read.
Expected(c) ==
  /\ objects[caller[c].name] # NoObject
  /\ objects[caller[c].name].version = caller[c].seen.version

PutCas(c) ==
  /\ lock = NoCaller
  /\ caller[c].pc = "stamped"
  /\ caller[c].seen # NoObject
  /\ Expected(c)
  /\ write_row(c)
  /\ lock' = HeldAfterRow(c)
  /\ caller' = [caller EXCEPT ![c] = At("row", @.name, @.seen, @.version, "Modified")]
  /\ UNCHANGED <<rvSeq, events, watchVars>>

PutCasConflict(c) ==
  /\ lock = NoCaller
  /\ caller[c].pc = "stamped"
  /\ caller[c].seen # NoObject
  /\ ~Expected(c)
  /\ caller' = [caller EXCEPT ![c] = Idle]
  /\ UNCHANGED <<storeVars, lock, watchVars>>

\* delete, first statement.  Of a missing row it is a no-op.
DeleteRow(c, n) ==
  /\ lock = NoCaller
  /\ rvSeq < MaxVersion
  /\ caller[c].pc \in {"idle", "read", "stamped"}
  /\ objects[n] # NoObject
  /\ objects' = [objects EXCEPT ![n] = NoObject]
  /\ lock' = c
  /\ caller' = [caller EXCEPT ![c] = At("gone", n, objects[n], 0, "Deleted")]
  /\ UNCHANGED <<rvSeq, events, watchVars>>

DeleteBump(c) ==
  /\ caller[c].pc = "gone"
  /\ rvSeq' = bump_rv
  /\ caller' = [caller EXCEPT ![c] = At("bumped", @.name, @.seen, bump_rv, "Deleted")]
  /\ UNCHANGED <<objects, events, lock, watchVars>>

\* Mutant: a type name EventType::parse does not know.
NewEvent_Upserted(c) ==
  [version |-> caller[c].version, name |-> caller[c].name, type |-> "Upserted",
   doc |-> IF caller[c].pc = "row" THEN c ELSE caller[c].seen.doc]

\* The event a call inside put, put_cas or delete is about to append.
NewEvent(c) ==
  [version |-> caller[c].version, name |-> caller[c].name, type |-> caller[c].type,
   doc |-> IF caller[c].pc = "row" THEN c ELSE caller[c].seen.doc]

\* record_event, and the end of the call: the mutex guard is dropped.
RecordEvent(c) ==
  /\ caller[c].pc \in {"row", "bumped"}
  /\ events' = Append(events, NewEvent(c))
  /\ lock' = NoCaller
  /\ caller' = [caller EXCEPT ![c] = Idle]
  /\ UNCHANGED <<objects, rvSeq, watchVars>>

------------------------------------------------------------------------------
(* Faults.  A statement after the first fails (`?` returns the error and    *)
(* drops the guard), or the process dies; the tables keep what was          *)
(* committed.  Watch cursors live with the clients that reconnect.          *)

StatementFails(c) ==
  /\ "sqlite" \in Faults
  /\ caller[c].pc \in InCall
  /\ lock' = NoCaller
  /\ caller' = [caller EXCEPT ![c] = Idle]
  /\ UNCHANGED <<storeVars, watchVars>>

Crash ==
  /\ "crash" \in Faults
  /\ lock' = NoCaller
  /\ caller' = [c \in Callers |-> Idle]
  /\ UNCHANGED <<storeVars, watchVars>>

------------------------------------------------------------------------------
(* The watch stream: list_since(kind, last), then one frame per event, with *)
(* the cursor at the greatest version seen.                                 *)

\* Mutants: `>=` for `>`; only what still has a document.
ListSince_Inclusive(since) == {i \in DOMAIN events : events[i].version >= since}
ListSince_Live(since) ==
  {i \in DOMAIN events : events[i].version > since /\ events[i].type # "Deleted"}

ListSince(since) == {i \in DOMAIN events : events[i].version > since}

IsGreatest(v, batch) == \A i \in batch : events[i].version <= v

Poll(w) ==
  /\ lock = NoCaller
  /\ LET batch == ListSince(last[w]) IN
     /\ batch # {}
     /\ \E v \in {events[i].version : i \in batch} :
          /\ IsGreatest(v, batch)
          /\ last' = [last EXCEPT ![w] = v]
     /\ delivered' = [delivered EXCEPT ![w] = @ \cup batch]
  /\ UNCHANGED <<storeVars, lock, caller>>

------------------------------------------------------------------------------
Step(c) == \/ \E n \in Names : Get(c, n)
           \/ \E n \in Names : NextResourceVersion(c, n)
           \/ Put(c)
           \/ PutCas(c)
           \/ PutCasConflict(c)
           \/ \E n \in Names : DeleteRow(c, n)
           \/ DeleteBump(c)
           \/ RecordEvent(c)
           \/ StatementFails(c)

Next == \/ \E c \in Callers : Step(c)
        \/ \E w \in Watchers : Poll(w)
        \/ Crash

Spec == Init /\ [][Next]_vars

------------------------------------------------------------------------------
(* Safety.                                                                   *)

\* No two entries of the log carry the same resource version, however calls,
\* failed statements and restarts interleave (bump_rv under the mutex; the
\* version is taken in one call and used in another).
UniqueVersions ==
  \A i, j \in DOMAIN events : i # j => events[i].version # events[j].version

Entries(n) == {i \in DOMAIN events : events[i].name = n}
Latest(n) == CHOOSE i \in Entries(n) : \A j \in Entries(n) : j <= i
Earlier(i) == {j \in Entries(events[i].name) : j < i}

\* Between calls the table is what a replay of the log would build: every row
\* is the document of its name's latest event, and Added, Modified and Deleted
\* alternate as the life of an object does.  This is what lets a watcher keep
\* a copy of the table.  It needs every call to run to its end (no faults).
LogIsHistory ==
  /\ lock = NoCaller =>
       \A n \in Names :
         IF Entries(n) = {} \/ events[Latest(n)].type = "Deleted"
         THEN objects[n] = NoObject
         ELSE objects[n] = [version |-> events[Latest(n)].version,
                            doc |-> events[Latest(n)].doc]
  /\ \A i \in DOMAIN events :
       LET before == Earlier(i)
           fresh == before = {} \/ \E j \in before : /\ events[j].type = "Deleted"
                                                     /\ \A k \in before : k <= j
       IN fresh <=> events[i].type = "Added"

\* A stream sends every event (server/src/lib.rs:606-607): one at or below its
\* cursor has been sent.  The code does not keep this.
NothingSkipped ==
  \A w \in Watchers : \A i \in DOMAIN events :
    events[i].version <= last[w] => i \in delivered[w]

\* An event is late when one of a later version reached the log before it.
Late(i) == \E j \in DOMAIN events : j < i /\ events[j].version > events[i].version

\* What a stream skips it skips for one reason only: the event was late.  Every
\* other event at or below the cursor has been sent, whatever callers are at
\* work, whichever of them fail between two statements, and however often the
\* process dies and the client reconnects with the cursor it kept.
OnlyLateEventsAreSkipped ==
  \A w \in Watchers : \A i \in DOMAIN events :
    events[i].version <= last[w] /\ ~Late(i) => i \in delivered[w]

------------------------------------------------------------------------------
(* What a step may never do.                                                 *)

\* A put_cas that succeeds replaces exactly the object its caller had read:
\* equal versions mean nothing was written, deleted or recreated in between.
CasReplacesWhatWasRead ==
  [][\A c \in Callers : PutCas(c) => objects[caller[c].name] = caller[c].seen]_vars

\* A put_cas never moves a row's version backwards (an unconditional put may).
CasMovesForward ==
  [][\A c \in Callers :
       PutCas(c) => objects[caller[c].name].version < caller[c].version]_vars

\* A stream sends no event twice.
NeverTwice ==
  [][\A w \in Watchers : Poll(w) => ListSince(last[w]) \cap delivered[w] = {}]_vars

------------------------------------------------------------------------------
(* The store implements AtomicStore: while a call holds the mutex between    *)
(* two statements, the abstract store has already taken the whole step.      *)

Holder == {c \in Callers : caller[c].pc \in InCall}

PendingEvent(c) == [NewEvent(c) EXCEPT !.version =
                      IF caller[c].pc = "gone" THEN rvSeq + 1 ELSE @]

Atomic == INSTANCE AtomicStore WITH
  Docs  <- Callers,
  table <- objects,
  log   <- IF Holder = {} THEN events
           ELSE Append(events, PendingEvent(CHOOSE c \in Holder : TRUE)),
  seq   <- IF \E c \in Callers : caller[c].pc = "gone" THEN rvSeq + 1 ELSE rvSeq

\* Without faults, the two or three committed statements of put, put_cas and
\* delete are one step of the promised store.
ImplementsAtomicStore == Atomic!ASpec
==============================================================================
