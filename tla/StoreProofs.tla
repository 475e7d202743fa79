----------------------------- MODULE StoreProofs -----------------------------
(***************************************************************************)
(* Proofs about Store, for any callers, streams, names, faults and bound.  *)
(***************************************************************************)
EXTENDS Store, TLAPS

LEMMA IdleType ==
  /\ Idle \in CallerState
  /\ Idle.pc = "idle"
  /\ Idle.seen = NoObject
  BY NamesAssumption DEF Idle, At, CallerState, Place, EventType

\* Type correctness, and with it that the mutex always has a legal holder.
THEOREM TypeCorrect == Spec => []TypeOK
<1>1. Init => TypeOK
  BY IdleType DEF Init, TypeOK
<1>2. TypeOK /\ [Next]_vars => TypeOK'
  <2> SUFFICES ASSUME TypeOK, [Next]_vars PROVE TypeOK'
    OBVIOUS
  <2> USE DEF TypeOK, storeVars, watchVars
  <2>1. ASSUME NEW c \in Callers, NEW n \in Names, Get(c, n) PROVE TypeOK'
    BY <2>1 DEF Get, At, CallerState, Place, EventType
  <2>2. ASSUME NEW c \in Callers, NEW n \in Names, NextResourceVersion(c, n)
        PROVE TypeOK'
    BY <2>2 DEF NextResourceVersion, bump_rv, At, CallerState, Place
  <2>3. ASSUME NEW c \in Callers, Put(c) PROVE TypeOK'
    BY <2>3 DEF Put, write_row, TypeOfPut, HeldAfterRow, At, CallerState, Place,
                     EventType, Object
  <2>4. ASSUME NEW c \in Callers, PutCas(c) PROVE TypeOK'
    BY <2>4 DEF PutCas, write_row, HeldAfterRow, At, CallerState, Place,
                     EventType, Object
  <2>5. ASSUME NEW c \in Callers, PutCasConflict(c) PROVE TypeOK'
    BY <2>5, IdleType DEF PutCasConflict
  <2>6. ASSUME NEW c \in Callers, NEW n \in Names, DeleteRow(c, n) PROVE TypeOK'
    BY <2>6 DEF DeleteRow, At, CallerState, Place, EventType
  <2>7. ASSUME NEW c \in Callers, DeleteBump(c) PROVE TypeOK'
    BY <2>7 DEF DeleteBump, bump_rv, At, CallerState, Place, EventType
  <2>8. ASSUME NEW c \in Callers, RecordEvent(c) PROVE TypeOK'
    BY <2>8, IdleType DEF RecordEvent, NewEvent, CallerState, Event, Object
  <2>9. ASSUME NEW c \in Callers, StatementFails(c) PROVE TypeOK'
    BY <2>9, IdleType DEF StatementFails
  <2>10. ASSUME NEW w \in Watchers, Poll(w) PROVE TypeOK'
    <3>1. \A i \in DOMAIN events : i \in Nat /\ events[i] \in Event
      OBVIOUS
    <3>2. \A i \in DOMAIN events : events[i].version \in Nat
      BY <3>1 DEF Event
    <3>3. last' \in [Watchers -> Nat]
      BY <2>10, <3>2 DEF Poll, ListSince
    <3>4. delivered' \in [Watchers -> SUBSET Nat]
      BY <2>10, <3>1 DEF Poll, ListSince
    <3> QED
      BY <2>10, <3>3, <3>4 DEF Poll
  <2>11. CASE Crash
    BY <2>11, IdleType DEF Crash
  <2>12. CASE UNCHANGED vars
    BY <2>12 DEF vars
  <2> QED
    BY <2>1, <2>2, <2>3, <2>4, <2>5, <2>6, <2>7, <2>8, <2>9, <2>10, <2>11, <2>12
       DEF Next, Step
<1> QED
  BY <1>1, <1>2, PTL DEF Spec

------------------------------------------------------------------------------
(* Unique versions.  The invariant adds the versions callers hold and have   *)
(* not written yet: a version is handed out once, and leaves its holder for  *)
(* at most one entry of the log.                                             *)

Holds(c) == caller[c].pc \in {"stamped", "row", "bumped"}

VersionInv ==
  /\ \A i \in DOMAIN events : events[i].version <= rvSeq
  /\ \A c \in Callers : Holds(c) => caller[c].version <= rvSeq
  /\ \A c \in Callers : Holds(c) =>
       \A i \in DOMAIN events : events[i].version # caller[c].version
  /\ \A c, d \in Callers :
       c # d /\ Holds(c) /\ Holds(d) => caller[c].version # caller[d].version
  /\ UniqueVersions

\* A step that hands the next version to one caller and leaves the log alone.
LEMMA AllocationKeepsVersionInv ==
  ASSUME TypeOK, VersionInv, NEW c \in Callers, NEW r \in CallerState,
         rvSeq' = rvSeq + 1, r.version = rvSeq + 1,
         caller' = [caller EXCEPT ![c] = r], UNCHANGED events
  PROVE  VersionInv'
<1>1. \A d \in Callers : d # c => caller'[d] = caller[d]
  BY DEF TypeOK
<1>2. caller'[c].version = rvSeq + 1
  BY DEF TypeOK
<1>3. \A d \in Callers : d # c /\ Holds(d)' =>
        /\ Holds(d)
        /\ caller'[d].version \in Nat /\ caller'[d].version < rvSeq + 1
  BY <1>1 DEF Holds, VersionInv, TypeOK, CallerState
<1>4. \A i \in DOMAIN events : events[i].version \in Nat /\ events[i].version <= rvSeq
  <2>1. \A i \in DOMAIN events : events[i] \in Event
    BY DEF TypeOK
  <2> QED
    BY <2>1 DEF VersionInv, Event
<1>5. (\A i \in DOMAIN events : events[i].version <= rvSeq)'
  BY <1>4 DEF TypeOK
<1>6. (\A d \in Callers : Holds(d) => caller[d].version <= rvSeq)'
  BY <1>2, <1>3 DEF TypeOK, VersionInv
<1>7. (\A d \in Callers : Holds(d) =>
         \A i \in DOMAIN events : events[i].version # caller[d].version)'
  BY <1>1, <1>2, <1>3, <1>4 DEF VersionInv, TypeOK
<1>8. (\A d, e \in Callers :
         d # e /\ Holds(d) /\ Holds(e) => caller[d].version # caller[e].version)'
  BY <1>1, <1>2, <1>3 DEF VersionInv
<1>9. UniqueVersions'
  BY DEF VersionInv, UniqueVersions
<1> QED
  BY <1>5, <1>6, <1>7, <1>8, <1>9 DEF VersionInv

\* A step after which the callers hold no more versions than before, each the
\* one it held, and that neither allocates nor appends.
LEMMA QuietStepKeepsVersionInv ==
  ASSUME VersionInv, UNCHANGED <<rvSeq, events>>,
         \A c \in Callers : Holds(c)' => Holds(c) /\ caller'[c].version = caller[c].version
  PROVE  VersionInv'
  BY DEF VersionInv, UniqueVersions

\* RecordEvent moves a version from its holder to the log.
LEMMA RecordEventKeepsVersionInv ==
  ASSUME TypeOK, VersionInv, NEW c \in Callers, RecordEvent(c)
  PROVE  VersionInv'
<1> DEFINE e == NewEvent(c)
<1>1. events \in Seq(Event) /\ events' = Append(events, e)
  BY DEF RecordEvent, TypeOK
<1>2. /\ DOMAIN events' = 1..(Len(events) + 1)
      /\ DOMAIN events = 1..Len(events)
      /\ Len(events) \in Nat
      /\ \A i \in DOMAIN events : events'[i] = events[i]
      /\ events'[Len(events) + 1] = e
  BY <1>1
<1>3. Holds(c) /\ e.version = caller[c].version
  BY DEF RecordEvent, Holds, NewEvent
<1>4. ~Holds(c)'
  BY IdleType DEF RecordEvent, Holds, TypeOK
<1>5. \A d \in Callers : Holds(d)' => d # c /\ Holds(d) /\ caller'[d] = caller[d]
  BY <1>4 DEF RecordEvent, Holds, TypeOK
<1>6. UNCHANGED rvSeq
  BY DEF RecordEvent
<1>7. (\A i \in DOMAIN events : events[i].version <= rvSeq)'
  BY <1>2, <1>3, <1>6 DEF VersionInv
<1>8. (\A d \in Callers : Holds(d) => caller[d].version <= rvSeq)'
  BY <1>5, <1>6 DEF VersionInv
<1>9. (\A d \in Callers : Holds(d) =>
         \A i \in DOMAIN events : events[i].version # caller[d].version)'
  BY <1>2, <1>3, <1>5 DEF VersionInv
<1>10. (\A d, f \in Callers :
          d # f /\ Holds(d) /\ Holds(f) => caller[d].version # caller[f].version)'
  BY <1>5 DEF VersionInv
<1>11. UniqueVersions'
  BY <1>2, <1>3 DEF VersionInv, UniqueVersions
<1> QED
  BY <1>7, <1>8, <1>9, <1>10, <1>11 DEF VersionInv

LEMMA VersionInvStep == TypeOK /\ VersionInv /\ [Next]_vars => VersionInv'
<1> SUFFICES ASSUME TypeOK, VersionInv, [Next]_vars PROVE VersionInv'
  OBVIOUS
<1> USE DEF storeVars
<1>1. ASSUME NEW c \in Callers, NEW n \in Names, Get(c, n) PROVE VersionInv'
  BY <1>1, QuietStepKeepsVersionInv DEF Get, Holds, At, TypeOK
<1>2. ASSUME NEW c \in Callers, NEW n \in Names, NextResourceVersion(c, n)
      PROVE VersionInv'
  <2> DEFINE r == At("stamped", n, caller[c].seen, rvSeq + 1, caller[c].type)
  <2>1. r \in CallerState /\ r.version = rvSeq + 1
    BY DEF TypeOK, At, CallerState, Place
  <2>2. caller' = [caller EXCEPT ![c] = r] /\ rvSeq' = rvSeq + 1 /\ UNCHANGED events
    BY <1>2 DEF NextResourceVersion, bump_rv, TypeOK
  <2> QED
    BY <2>1, <2>2, AllocationKeepsVersionInv
<1>3. ASSUME NEW c \in Callers, Put(c) PROVE VersionInv'
  BY <1>3, QuietStepKeepsVersionInv DEF Put, Holds, At, TypeOK
<1>4. ASSUME NEW c \in Callers, PutCas(c) PROVE VersionInv'
  BY <1>4, QuietStepKeepsVersionInv DEF PutCas, Holds, At, TypeOK
<1>5. ASSUME NEW c \in Callers, PutCasConflict(c) PROVE VersionInv'
  BY <1>5, IdleType, QuietStepKeepsVersionInv DEF PutCasConflict, Holds, TypeOK
<1>6. ASSUME NEW c \in Callers, NEW n \in Names, DeleteRow(c, n) PROVE VersionInv'
  BY <1>6, QuietStepKeepsVersionInv DEF DeleteRow, Holds, At, TypeOK
<1>7. ASSUME NEW c \in Callers, DeleteBump(c) PROVE VersionInv'
  <2> DEFINE r == At("bumped", caller[c].name, caller[c].seen, rvSeq + 1, "Deleted")
  <2>1. r \in CallerState /\ r.version = rvSeq + 1
    BY DEF TypeOK, At, CallerState, Place, EventType
  <2>2. caller' = [caller EXCEPT ![c] = r] /\ rvSeq' = rvSeq + 1 /\ UNCHANGED events
    BY <1>7 DEF DeleteBump, bump_rv, TypeOK
  <2> QED
    BY <2>1, <2>2, AllocationKeepsVersionInv
<1>8. ASSUME NEW c \in Callers, RecordEvent(c) PROVE VersionInv'
  BY <1>8, RecordEventKeepsVersionInv
<1>9. ASSUME NEW c \in Callers, StatementFails(c) PROVE VersionInv'
  BY <1>9, IdleType, QuietStepKeepsVersionInv DEF StatementFails, Holds, TypeOK
<1>10. ASSUME NEW w \in Watchers, Poll(w) PROVE VersionInv'
  BY <1>10, QuietStepKeepsVersionInv DEF Poll, Holds
<1>11. CASE Crash
  BY <1>11, IdleType, QuietStepKeepsVersionInv DEF Crash, Holds
<1>12. CASE UNCHANGED vars
  BY <1>12, QuietStepKeepsVersionInv DEF vars, Holds
<1> QED
  BY <1>1, <1>2, <1>3, <1>4, <1>5, <1>6, <1>7, <1>8, <1>9, <1>10, <1>11, <1>12
     DEF Next, Step

\* Whatever the interleaving and the faults, no two events share a version.
THEOREM VersionsAreUnique == Spec => []UniqueVersions
<1>1. Init => VersionInv
  BY IdleType DEF Init, VersionInv, UniqueVersions, Holds
<1>2. VersionInv => UniqueVersions
  BY DEF VersionInv
<1> QED
  BY <1>1, <1>2, TypeCorrect, VersionInvStep, PTL DEF Spec

------------------------------------------------------------------------------
(* Optimistic concurrency.  What a caller read is older than the version it  *)
(* stamps; a version held and unwritten is in no row and in nobody's read;   *)
(* so a row with the version that was read IS the row that was read.         *)

HasRead(c) == caller[c].pc \in {"read", "stamped"} /\ caller[c].seen # NoObject

ReadInv ==
  /\ \A c \in Callers : caller[c].pc = "idle" => caller[c].seen = NoObject
  /\ \A n \in Names : objects[n] # NoObject => objects[n].version <= rvSeq
  /\ \A c \in Callers : HasRead(c) => caller[c].seen.version <= rvSeq
  /\ \A c \in Callers : HasRead(c) /\ caller[c].pc = "stamped" =>
       caller[c].seen.version < caller[c].version
  /\ \A c \in Callers, n \in Names :
       caller[c].pc = "stamped" /\ objects[n] # NoObject =>
         objects[n].version # caller[c].version
  /\ \A c, d \in Callers :
       caller[c].pc = "stamped" /\ HasRead(d) => caller[d].seen.version # caller[c].version
  /\ \A c \in Callers :
       LET row == objects[caller[c].name] IN
       HasRead(c) /\ row # NoObject /\ row.version = caller[c].seen.version =>
         row = caller[c].seen

\* A caller that writes its row leaves no other caller with that version.
LEMMA RowKeepsReadInv ==
  ASSUME TypeOK, VersionInv, ReadInv, NEW c \in Callers, caller[c].pc = "stamped",
         write_row(c), UNCHANGED rvSeq,
         caller'[c].pc = "row", \A d \in Callers : d # c => caller'[d] = caller[d]
  PROVE  ReadInv'
<1> DEFINE m == caller[c].name
           o == [version |-> caller[c].version, doc |-> c]
<1>1. m \in Names /\ o # NoObject /\ o.version = caller[c].version
  BY NoObjectAssumption DEF TypeOK, CallerState, Object
<1>2. objects'[m] = o /\ \A n \in Names : n # m => objects'[n] = objects[n]
  BY <1>1 DEF write_row, TypeOK
<1>3. caller[c].version <= rvSeq
  BY DEF VersionInv, Holds
<1>4. \A d \in Callers : d # c /\ caller[d].pc = "stamped" =>
        caller[d].version # caller[c].version
  BY DEF VersionInv, Holds
<1>5. \A d \in Callers : HasRead(d)' => d # c /\ HasRead(d) /\ caller'[d] = caller[d]
  BY DEF HasRead
<1>6. \A d \in Callers : caller'[d].pc = "stamped" =>
        d # c /\ caller'[d] = caller[d] /\ caller[d].pc = "stamped"
  OBVIOUS
<1>7. (\A n \in Names : objects[n] # NoObject => objects[n].version <= rvSeq)'
  BY <1>1, <1>2, <1>3 DEF ReadInv
<1>8. (\A d \in Callers : HasRead(d) => caller[d].seen.version <= rvSeq)'
  BY <1>5 DEF ReadInv
<1>9. (\A d \in Callers : HasRead(d) /\ caller[d].pc = "stamped" =>
         caller[d].seen.version < caller[d].version)'
  BY <1>5 DEF ReadInv
<1>10. (\A d \in Callers, n \in Names :
          caller[d].pc = "stamped" /\ objects[n] # NoObject =>
            objects[n].version # caller[d].version)'
  BY <1>1, <1>2, <1>4, <1>6 DEF ReadInv
<1>11. (\A d, e \in Callers :
          caller[d].pc = "stamped" /\ HasRead(e) =>
            caller[e].seen.version # caller[d].version)'
  BY <1>5, <1>6 DEF ReadInv
<1>12. ASSUME NEW d \in Callers, HasRead(d)',
              objects'[caller'[d].name] # NoObject,
              objects'[caller'[d].name].version = caller'[d].seen.version
       PROVE  objects'[caller'[d].name] = caller'[d].seen
  <2>1. caller[d].seen.version # caller[c].version
    BY <1>5, <1>12 DEF ReadInv
  <2>2. caller[d].name # m
    BY <1>1, <1>2, <1>5, <1>12, <2>1
  <2>3. caller[d].name \in Names
    BY DEF TypeOK, CallerState
  <2> QED
    BY <1>2, <1>5, <1>12, <2>2, <2>3 DEF ReadInv
<1>13. (\A d \in Callers : caller[d].pc = "idle" => caller[d].seen = NoObject)'
  BY DEF ReadInv
<1> QED
  BY <1>7, <1>8, <1>9, <1>10, <1>11, <1>12, <1>13 DEF ReadInv

\* A step that adds no row, stamps no caller and gives no caller a new read.
LEMMA QuietStepKeepsReadInv ==
  ASSUME TypeOK, ReadInv, rvSeq' \in Nat, rvSeq <= rvSeq',
         \A n \in Names : objects'[n] \in {objects[n], NoObject},
         \A c \in Callers : \/ caller'[c] = caller[c]
                           \/ caller'[c] = Idle
                           \/ caller'[c].pc \in InCall
  PROVE  ReadInv'
<1>1. \A c \in Callers : HasRead(c)' => HasRead(c) /\ caller'[c] = caller[c]
  BY IdleType DEF HasRead, InCall
<1>2. \A c \in Callers : caller'[c].pc = "stamped" => caller'[c] = caller[c]
  BY IdleType DEF InCall
<1>0. (\A c \in Callers : caller[c].pc = "idle" => caller[c].seen = NoObject)'
  BY IdleType DEF ReadInv, InCall
<1>3. \A n \in Names : objects'[n] # NoObject => objects'[n] = objects[n]
  OBVIOUS
<1>4. \A c \in Callers : caller[c].name \in Names
  BY DEF TypeOK, CallerState
<1>5. \A n \in Names : objects[n] # NoObject => objects[n].version \in Nat
  BY DEF TypeOK, Object
<1>6. \A c \in Callers : HasRead(c) => caller[c].seen.version \in Nat
  BY DEF TypeOK, CallerState, Object, HasRead
<1>7. (\A n \in Names : objects[n] # NoObject => objects[n].version <= rvSeq)'
  BY <1>3, <1>5 DEF ReadInv, TypeOK
<1>8. (\A c \in Callers : HasRead(c) => caller[c].seen.version <= rvSeq)'
  BY <1>1, <1>6 DEF ReadInv, TypeOK
<1> QED
  BY <1>0, <1>1, <1>2, <1>3, <1>4, <1>7, <1>8 DEF ReadInv

LEMMA GetKeepsReadInv ==
  ASSUME TypeOK, ReadInv, NEW c \in Callers, NEW n \in Names, Get(c, n)
  PROVE  ReadInv'
<1>1. caller'[c] = At("read", n, objects[n], 0, "Added")
  BY DEF Get, TypeOK
<1>2. \A d \in Callers : d # c => caller'[d] = caller[d]
  BY DEF Get, TypeOK
<1>3. UNCHANGED <<objects, rvSeq>>
  BY DEF Get, storeVars
<1>4. caller'[c].pc = "read" /\ caller'[c].seen = objects[n] /\ caller'[c].name = n
  BY <1>1 DEF At
<1>5. \A d \in Callers : HasRead(d)' => d = c \/ HasRead(d)
  BY <1>2 DEF HasRead
<1>6. (\A d \in Callers : HasRead(d) => caller[d].seen.version <= rvSeq)'
  BY <1>2, <1>3, <1>4, <1>5 DEF ReadInv, HasRead
<1>7. (\A d \in Callers : HasRead(d) /\ caller[d].pc = "stamped" =>
         caller[d].seen.version < caller[d].version)'
  BY <1>2, <1>4, <1>5 DEF ReadInv
<1>8. (\A d \in Callers, k \in Names :
         caller[d].pc = "stamped" /\ objects[k] # NoObject =>
           objects[k].version # caller[d].version)'
  BY <1>2, <1>3, <1>4 DEF ReadInv
<1>9. (\A d, e \in Callers :
         caller[d].pc = "stamped" /\ HasRead(e) =>
           caller[e].seen.version # caller[d].version)'
  BY <1>2, <1>3, <1>4, <1>5 DEF ReadInv, HasRead
<1>10. (\A d \in Callers :
          LET row == objects[caller[d].name] IN
          HasRead(d) /\ row # NoObject /\ row.version = caller[d].seen.version =>
            row = caller[d].seen)'
  BY <1>2, <1>3, <1>4, <1>5 DEF ReadInv
<1>11. (\A d \in Callers : caller[d].pc = "idle" => caller[d].seen = NoObject)'
  BY <1>2, <1>4 DEF ReadInv
<1> QED
  BY <1>3, <1>6, <1>7, <1>8, <1>9, <1>10, <1>11 DEF ReadInv

LEMMA StampKeepsReadInv ==
  ASSUME TypeOK, ReadInv, NEW c \in Callers, NEW n \in Names, NextResourceVersion(c, n)
  PROVE  ReadInv'
<1>1. caller'[c] = At("stamped", n, caller[c].seen, rvSeq + 1, caller[c].type)
  BY DEF NextResourceVersion, bump_rv, TypeOK
<1>2. \A d \in Callers : d # c => caller'[d] = caller[d]
  BY DEF NextResourceVersion, TypeOK
<1>3. UNCHANGED objects /\ rvSeq' = rvSeq + 1 /\ rvSeq \in Nat
  BY DEF NextResourceVersion, bump_rv, TypeOK
<1>4. /\ caller'[c].pc = "stamped" /\ caller'[c].seen = caller[c].seen
      /\ caller'[c].name = n /\ caller'[c].version = rvSeq + 1
  BY <1>1 DEF At
<1>5. caller[c].pc = "read" => caller[c].name = n
  BY DEF NextResourceVersion
<1>6. \A d \in Callers : HasRead(d)' => HasRead(d)
  BY <1>2, <1>4 DEF HasRead, NextResourceVersion, ReadInv
<1>7. \A d \in Callers : HasRead(d) =>
        caller[d].seen.version \in Nat /\ caller[d].seen.version <= rvSeq
  BY DEF ReadInv, HasRead, TypeOK, CallerState, Object
<1>8. \A k \in Names : objects[k] # NoObject =>
        objects[k].version \in Nat /\ objects[k].version <= rvSeq
  BY DEF ReadInv, TypeOK, Object
<1>9. (\A k \in Names : objects[k] # NoObject => objects[k].version <= rvSeq)'
  BY <1>3, <1>8
<1>10. (\A d \in Callers : HasRead(d) => caller[d].seen.version <= rvSeq)'
  BY <1>2, <1>3, <1>4, <1>6, <1>7
<1>11. (\A d \in Callers : HasRead(d) /\ caller[d].pc = "stamped" =>
          caller[d].seen.version < caller[d].version)'
  BY <1>2, <1>3, <1>4, <1>6, <1>7 DEF ReadInv
<1>12. (\A d \in Callers, k \in Names :
          caller[d].pc = "stamped" /\ objects[k] # NoObject =>
            objects[k].version # caller[d].version)'
  BY <1>2, <1>3, <1>4, <1>8 DEF ReadInv
<1>13. (\A d, e \in Callers :
          caller[d].pc = "stamped" /\ HasRead(e) =>
            caller[e].seen.version # caller[d].version)'
  BY <1>2, <1>3, <1>4, <1>6, <1>7 DEF ReadInv
<1>14. (\A d \in Callers :
          LET row == objects[caller[d].name] IN
          HasRead(d) /\ row # NoObject /\ row.version = caller[d].seen.version =>
            row = caller[d].seen)'
  <2>1. HasRead(c)' => caller'[c].name = caller[c].name /\ caller'[c].seen = caller[c].seen
    BY <1>4, <1>5, <1>6 DEF HasRead, NextResourceVersion
  <2> QED
    BY <1>2, <1>3, <1>6, <2>1 DEF ReadInv
<1>15. (\A d \in Callers : caller[d].pc = "idle" => caller[d].seen = NoObject)'
  BY <1>2, <1>4 DEF ReadInv
<1> QED
  BY <1>9, <1>10, <1>11, <1>12, <1>13, <1>14, <1>15 DEF ReadInv

LEMMA ReadInvStep == TypeOK /\ VersionInv /\ ReadInv /\ [Next]_vars => ReadInv'
<1> SUFFICES ASSUME TypeOK, VersionInv, ReadInv, [Next]_vars PROVE ReadInv'
  OBVIOUS
<1> USE DEF storeVars, InCall
<1>0. rvSeq \in Nat /\ rvSeq + 1 \in Nat /\ rvSeq <= rvSeq /\ rvSeq <= rvSeq + 1
  BY DEF TypeOK
<1>1. ASSUME NEW c \in Callers, NEW n \in Names, Get(c, n) PROVE ReadInv'
  BY <1>1, GetKeepsReadInv
<1>2. ASSUME NEW c \in Callers, NEW n \in Names, NextResourceVersion(c, n)
      PROVE ReadInv'
  BY <1>2, StampKeepsReadInv
<1>3. ASSUME NEW c \in Callers, Put(c) PROVE ReadInv'
  BY <1>3, RowKeepsReadInv DEF Put, At, TypeOK
<1>4. ASSUME NEW c \in Callers, PutCas(c) PROVE ReadInv'
  BY <1>4, RowKeepsReadInv DEF PutCas, At, TypeOK
<1>5. ASSUME NEW c \in Callers, PutCasConflict(c) PROVE ReadInv'
  BY <1>0, <1>5, QuietStepKeepsReadInv DEF PutCasConflict, TypeOK
<1>6. ASSUME NEW c \in Callers, NEW n \in Names, DeleteRow(c, n) PROVE ReadInv'
  BY <1>0, <1>6, QuietStepKeepsReadInv DEF DeleteRow, At, TypeOK
<1>7. ASSUME NEW c \in Callers, DeleteBump(c) PROVE ReadInv'
  BY <1>0, <1>7, QuietStepKeepsReadInv DEF DeleteBump, bump_rv, At, TypeOK
<1>8. ASSUME NEW c \in Callers, RecordEvent(c) PROVE ReadInv'
  BY <1>0, <1>8, QuietStepKeepsReadInv DEF RecordEvent, TypeOK
<1>9. ASSUME NEW c \in Callers, StatementFails(c) PROVE ReadInv'
  BY <1>0, <1>9, QuietStepKeepsReadInv DEF StatementFails, TypeOK
<1>10. ASSUME NEW w \in Watchers, Poll(w) PROVE ReadInv'
  BY <1>0, <1>10, QuietStepKeepsReadInv DEF Poll
<1>11. CASE Crash
  BY <1>0, <1>11, QuietStepKeepsReadInv DEF Crash
<1>12. CASE UNCHANGED vars
  BY <1>0, <1>12, QuietStepKeepsReadInv DEF vars
<1> QED
  BY <1>1, <1>2, <1>3, <1>4, <1>5, <1>6, <1>7, <1>8, <1>9, <1>10, <1>11, <1>12
     DEF Next, Step

LEMMA ReadInvariant == Spec => [](TypeOK /\ VersionInv /\ ReadInv)
<1>1. Init => VersionInv /\ ReadInv
  BY IdleType DEF Init, VersionInv, UniqueVersions, Holds, ReadInv, HasRead
<1> QED
  BY <1>1, TypeCorrect, VersionInvStep, ReadInvStep, PTL DEF Spec

\* A put_cas that succeeds replaces exactly what its caller read (no ABA).
THEOREM CasIsExact == Spec => CasReplacesWhatWasRead
<1>1. TypeOK /\ ReadInv /\ [Next]_vars =>
        [\A c \in Callers : PutCas(c) => objects[caller[c].name] = caller[c].seen]_vars
  BY DEF ReadInv, PutCas, Expected, HasRead
<1> QED
  BY <1>1, ReadInvariant, PTL DEF Spec, CasReplacesWhatWasRead

\* A put_cas that succeeds moves its row to a greater version.
THEOREM CasIsForward == Spec => CasMovesForward
<1>1. TypeOK /\ ReadInv /\ [Next]_vars =>
        [\A c \in Callers :
           PutCas(c) => objects[caller[c].name].version < caller[c].version]_vars
  BY DEF ReadInv, PutCas, Expected, HasRead
<1> QED
  BY <1>1, ReadInvariant, PTL DEF Spec, CasMovesForward

------------------------------------------------------------------------------
(* The watch stream sends nothing twice: what it has sent lies at or below   *)
(* its cursor, and it asks for what lies above.                              *)

SentBelowCursor ==
  \A w \in Watchers : \A i \in delivered[w] :
    i \in DOMAIN events /\ events[i].version <= last[w]

LEMMA SentBelowCursorStep ==
  TypeOK /\ SentBelowCursor /\ [Next]_vars => SentBelowCursor'
<1> SUFFICES ASSUME TypeOK, SentBelowCursor, [Next]_vars PROVE SentBelowCursor'
  OBVIOUS
<1>1. ASSUME NEW w \in Watchers, Poll(w) PROVE SentBelowCursor'
  <2> DEFINE batch == ListSince(last[w])
  <2>1. UNCHANGED events /\ batch \subseteq DOMAIN events
    BY <1>1 DEF Poll, storeVars, ListSince
  <2>2. \A i \in DOMAIN events : events[i].version \in Nat
    <3>1. \A i \in DOMAIN events : events[i] \in Event
      BY DEF TypeOK
    <3> QED
      BY <3>1 DEF Event
  <2>3. PICK v \in {events[i].version : i \in batch} :
          IsGreatest(v, batch) /\ last' = [last EXCEPT ![w] = v]
    BY <1>1 DEF Poll
  <2>4. last'[w] = v /\ v \in Nat /\ last[w] \in Nat /\ last[w] < v
    BY <2>1, <2>2, <2>3 DEF ListSince, TypeOK
  <2>5. delivered'[w] = delivered[w] \cup batch
    BY <1>1 DEF Poll, TypeOK
  <2>6. \A i \in delivered'[w] : i \in DOMAIN events' /\ events'[i].version <= last'[w]
    BY <2>1, <2>2, <2>3, <2>4, <2>5 DEF SentBelowCursor, IsGreatest
  <2>7. \A u \in Watchers : u # w => last'[u] = last[u] /\ delivered'[u] = delivered[u]
    BY <1>1 DEF Poll, TypeOK
  <2> QED
    BY <2>1, <2>6, <2>7 DEF SentBelowCursor
<1>2. ASSUME NEW c \in Callers, RecordEvent(c) PROVE SentBelowCursor'
  <2>1. events \in Seq(Event) /\ events' = Append(events, NewEvent(c))
    BY <1>2 DEF RecordEvent, TypeOK
  <2>2. \A i \in DOMAIN events : i \in DOMAIN events' /\ events'[i] = events[i]
    BY <2>1
  <2> QED
    BY <1>2, <2>2 DEF RecordEvent, watchVars, SentBelowCursor
<1>3. ASSUME UNCHANGED <<events, last, delivered>> PROVE SentBelowCursor'
  BY <1>3 DEF SentBelowCursor
<1> QED
  BY <1>1, <1>2, <1>3
     DEF Next, Step, Get, NextResourceVersion, Put, PutCas, PutCasConflict, DeleteRow,
         DeleteBump, StatementFails, Crash, vars, storeVars, watchVars

\* No stream sends an event twice, in whatever order versions reach the log.
THEOREM StreamsSendOnce == Spec => NeverTwice
<1>1. Init => SentBelowCursor
  BY DEF Init, SentBelowCursor
<1>2. TypeOK /\ SentBelowCursor /\ [Next]_vars =>
        [\A w \in Watchers : Poll(w) => ListSince(last[w]) \cap delivered[w] = {}]_vars
  <2> SUFFICES ASSUME TypeOK, SentBelowCursor, NEW w \in Watchers
               PROVE  ListSince(last[w]) \cap delivered[w] = {}
    OBVIOUS
  <2>1. \A i \in DOMAIN events : events[i] \in Event
    BY DEF TypeOK
  <2> QED
    BY <2>1 DEF SentBelowCursor, ListSince, TypeOK, Event
<1> QED
  BY <1>1, <1>2, TypeCorrect, SentBelowCursorStep, PTL DEF Spec, NeverTwice

------------------------------------------------------------------------------
(* What the mutex buys: a call's statements are one step of AtomicStore,     *)
(* the log is the history of the table, and a single writer's events are     *)
(* never skipped.  Faults and the number of callers are what each theorem    *)
(* says; streams, names and the bound are arbitrary.                         *)
(*                                                                           *)
(* The mutex, with or without faults: whoever is between two statements of   *)
(* put, put_cas or delete holds it, and nobody else does.                    *)

MutexInv == \A c \in Callers : caller[c].pc \in InCall <=> lock = c

\* A version in hand has been handed out; a delete announces a deletion.
HandInv ==
  \A c \in Callers :
    /\ Holds(c) => caller[c].version # 0
    /\ caller[c].pc \in {"gone", "bumped"} => caller[c].type = "Deleted"

CallInv == MutexInv /\ HandInv

\* A call changes its own caller alone, and takes or frees the mutex with it.
LEMMA CallKeepsCallInv ==
  ASSUME TypeOK, CallInv, NEW c \in Callers,
         lock \in {NoCaller, c}, lock' \in {NoCaller, c},
         caller'[c].pc \in InCall <=> lock' = c,
         \A d \in Callers : d # c => caller'[d] = caller[d],
         Holds(c)' => caller'[c].version # 0,
         caller'[c].pc \in {"gone", "bumped"} => caller'[c].type = "Deleted"
  PROVE  CallInv'
<1>1. \A d \in Callers : d # c => caller[d].pc \notin InCall
  BY NoCallerAssumption DEF CallInv, MutexInv
<1>2. MutexInv'
  BY <1>1, NoCallerAssumption DEF MutexInv
<1>3. HandInv'
  BY DEF CallInv, HandInv, Holds
<1> QED
  BY <1>2, <1>3 DEF CallInv

LEMMA CallInvStep == TypeOK /\ CallInv /\ [Next]_vars => CallInv'
<1> SUFFICES ASSUME TypeOK, CallInv, [Next]_vars PROVE CallInv'
  OBVIOUS
<1>1. ASSUME NEW c \in Callers, NEW n \in Names, Get(c, n) PROVE CallInv'
  BY <1>1, CallKeepsCallInv, NoCallerAssumption DEF Get, At, TypeOK, Holds, InCall
<1>2. ASSUME NEW c \in Callers, NEW n \in Names, NextResourceVersion(c, n)
      PROVE CallInv'
  BY <1>2, CallKeepsCallInv, NoCallerAssumption
     DEF NextResourceVersion, bump_rv, At, TypeOK, Holds, InCall
<1>3. ASSUME NEW c \in Callers, Put(c) PROVE CallInv'
  BY <1>3, CallKeepsCallInv DEF Put, HeldAfterRow, At, TypeOK, Holds, InCall,
                                CallInv, HandInv
<1>4. ASSUME NEW c \in Callers, PutCas(c) PROVE CallInv'
  BY <1>4, CallKeepsCallInv DEF PutCas, HeldAfterRow, At, TypeOK, Holds, InCall,
                                CallInv, HandInv
<1>5. ASSUME NEW c \in Callers, PutCasConflict(c) PROVE CallInv'
  BY <1>5, CallKeepsCallInv, IdleType, NoCallerAssumption
     DEF PutCasConflict, TypeOK, Holds, InCall
<1>6. ASSUME NEW c \in Callers, NEW n \in Names, DeleteRow(c, n) PROVE CallInv'
  BY <1>6, CallKeepsCallInv DEF DeleteRow, At, TypeOK, Holds, InCall
<1>7. ASSUME NEW c \in Callers, DeleteBump(c) PROVE CallInv'
  <2>1. lock = c
    BY <1>7 DEF DeleteBump, CallInv, MutexInv, InCall
  <2> QED
    BY <1>7, <2>1, CallKeepsCallInv
       DEF DeleteBump, bump_rv, At, TypeOK, Holds, InCall
<1>8. ASSUME NEW c \in Callers, RecordEvent(c) PROVE CallInv'
  <2>1. lock = c
    BY <1>8 DEF RecordEvent, CallInv, MutexInv, InCall
  <2> QED
    BY <1>8, <2>1, CallKeepsCallInv, IdleType, NoCallerAssumption
       DEF RecordEvent, TypeOK, Holds, InCall
<1>9. ASSUME NEW c \in Callers, StatementFails(c) PROVE CallInv'
  <2>1. lock = c
    BY <1>9 DEF StatementFails, CallInv, MutexInv
  <2> QED
    BY <1>9, <2>1, CallKeepsCallInv, IdleType, NoCallerAssumption
       DEF StatementFails, TypeOK, Holds, InCall
<1>10. ASSUME NEW w \in Watchers, Poll(w) PROVE CallInv'
  BY <1>10 DEF Poll, CallInv, MutexInv, HandInv, Holds
<1>11. CASE Crash
  BY <1>11, IdleType, NoCallerAssumption
     DEF Crash, CallInv, MutexInv, HandInv, Holds, InCall
<1>12. CASE UNCHANGED vars
  BY <1>12 DEF vars, CallInv, MutexInv, HandInv, Holds
<1> QED
  BY <1>1, <1>2, <1>3, <1>4, <1>5, <1>6, <1>7, <1>8, <1>9, <1>10, <1>11, <1>12
     DEF Next, Step

LEMMA CallInvariant == Spec => [](TypeOK /\ VersionInv /\ CallInv)
<1>1. Init => VersionInv /\ CallInv
  BY IdleType, NoCallerAssumption
     DEF Init, VersionInv, UniqueVersions, CallInv, MutexInv, HandInv, Holds, InCall
<1> QED
  BY <1>1, TypeCorrect, VersionInvStep, CallInvStep, PTL DEF Spec
------------------------------------------------------------------------------
(* The refinement, when every call runs to its end.                          *)

\* What the abstract store's variables stand for (the INSTANCE in Store).
AbstractLog == IF Holder = {} THEN events
               ELSE Append(events, PendingEvent(CHOOSE c \in Holder : TRUE))
AbstractSeq == IF \E c \in Callers : caller[c].pc = "gone" THEN rvSeq + 1 ELSE rvSeq

\* The mutex free: the tables are the abstract store's.
FreeMeans ==
  lock = NoCaller => Holder = {} /\ AbstractLog = events /\ AbstractSeq = rvSeq

\* The mutex held: the log is one event behind, the sequence at most one version.
HeldMeans ==
  \A c \in Callers : lock = c =>
    /\ AbstractLog = Append(events, PendingEvent(c))
    /\ AbstractSeq = IF caller[c].pc = "gone" THEN rvSeq + 1 ELSE rvSeq

LEMMA MappingOfLock == CallInv => FreeMeans /\ HeldMeans
<1> SUFFICES ASSUME CallInv PROVE FreeMeans /\ HeldMeans
  OBVIOUS
<1>1. FreeMeans
  BY NoCallerAssumption
     DEF FreeMeans, AbstractLog, AbstractSeq, Holder, CallInv, MutexInv, InCall
<1>2. ASSUME NEW c \in Callers, lock = c
      PROVE  /\ AbstractLog = Append(events, PendingEvent(c))
             /\ AbstractSeq = IF caller[c].pc = "gone" THEN rvSeq + 1 ELSE rvSeq
  <2>1. Holder = {c}
    BY <1>2 DEF Holder, CallInv, MutexInv
  <2>2. (CHOOSE d \in Holder : TRUE) = c
    BY <2>1
  <2>3. \A d \in Callers : caller[d].pc = "gone" => d = c
    BY <1>2 DEF CallInv, MutexInv, InCall
  <2> QED
    BY <2>1, <2>2, <2>3 DEF AbstractLog, AbstractSeq
<1> QED
  BY <1>1, <1>2 DEF HeldMeans

LEMMA MappingOfLockNext == CallInv' => (FreeMeans /\ HeldMeans)'
  BY MappingOfLock, PTL
\* A step with the mutex free before and after it, that changes no table.
LEMMA FreeStutter ==
  ASSUME CallInv, CallInv', lock = NoCaller, lock' = NoCaller, UNCHANGED storeVars
  PROVE  UNCHANGED <<objects, AbstractLog, AbstractSeq>>
  BY MappingOfLock, MappingOfLockNext DEF FreeMeans, storeVars

\* put and put_cas: the row and its event are one Upsert.
LEMMA RowIsUpsert ==
  ASSUME TypeOK, VersionInv, CallInv, CallInv', NEW c \in Callers,
         lock = NoCaller, lock' = c, caller[c].pc = "stamped", write_row(c),
         caller' = [caller EXCEPT ![c] = At("row", @.name, @.seen, @.version, TypeOfPut(c))],
         UNCHANGED <<rvSeq, events>>
  PROVE  Atomic!Upsert(caller[c].name, caller[c].version, c)
<1> DEFINE n == caller[c].name
           v == caller[c].version
<1>1. AbstractLog = events /\ AbstractSeq = rvSeq
  BY MappingOfLock DEF FreeMeans
<1>2. caller'[c] = At("row", n, caller[c].seen, v, TypeOfPut(c))
  BY DEF TypeOK
<1>3. AbstractLog' = Append(events, PendingEvent(c)') /\ AbstractSeq' = rvSeq
  BY <1>2, MappingOfLockNext DEF HeldMeans, At
<1>4. PendingEvent(c)' = [version |-> v, name |-> n, doc |-> c, type |-> TypeOfPut(c)]
  BY <1>2 DEF PendingEvent, NewEvent, At
<1>5. v \in 1..rvSeq /\ \A i \in DOMAIN events : events[i].version # v
  BY DEF VersionInv, CallInv, HandInv, Holds, TypeOK, CallerState
<1>6. Atomic!Unused(v)
  BY <1>1, <1>5 DEF Atomic!Unused, AbstractLog, AbstractSeq
<1>7. objects' = [objects EXCEPT ![n] = [version |-> v, doc |-> c]]
  BY DEF write_row
<1> QED
  BY <1>1, <1>3, <1>4, <1>6, <1>7
     DEF Atomic!Upsert, AbstractLog, AbstractSeq, TypeOfPut
LEMMA UpsertIsAbstract ==
  ASSUME NEW n \in Names, NEW v, NEW d \in Callers, Atomic!Upsert(n, v, d)
  PROVE  Atomic!ANext
  BY DEF Atomic!ANext, Atomic!Upsert, Atomic!Unused

\* Every step of the store is a step of AtomicStore, or changes nothing of it.
LEMMA EveryStepIsAtomic ==
  ASSUME Faults = {}, TypeOK, VersionInv, CallInv, CallInv', [Next]_vars
  PROVE  [Atomic!ANext]_(Atomic!avars)
<1> DEFINE Mapped == Atomic!ANext \/ UNCHANGED <<objects, AbstractLog, AbstractSeq>>
<1>0. SUFFICES Mapped
  BY DEF Atomic!avars, AbstractLog, AbstractSeq
<1>1. ASSUME NEW c \in Callers, NEW n \in Names, Get(c, n) PROVE Mapped
  BY <1>1, FreeStutter DEF Get
<1>2. ASSUME NEW c \in Callers, NEW n \in Names, NextResourceVersion(c, n)
      PROVE Mapped
  <2>1. lock = NoCaller /\ lock' = NoCaller /\ rvSeq' = rvSeq + 1
        /\ UNCHANGED <<objects, events>>
    BY <1>2 DEF NextResourceVersion, bump_rv
  <2>2. /\ AbstractLog = events /\ AbstractSeq = rvSeq
        /\ AbstractLog' = events /\ AbstractSeq' = rvSeq + 1
    BY <2>1, MappingOfLock, MappingOfLockNext DEF FreeMeans
  <2>3. Atomic!Allocate
    BY <2>1, <2>2 DEF Atomic!Allocate, AbstractLog, AbstractSeq
  <2> QED
    BY <2>3 DEF Atomic!ANext
<1>3. ASSUME NEW c \in Callers, Put(c) PROVE Mapped
  <2>1. Atomic!Upsert(caller[c].name, caller[c].version, c)
    BY <1>3, RowIsUpsert DEF Put, HeldAfterRow
  <2>2. caller[c].name \in Names
    BY DEF TypeOK, CallerState
  <2> QED
    BY <2>1, <2>2, UpsertIsAbstract
<1>4. ASSUME NEW c \in Callers, PutCas(c) PROVE Mapped
  <2>1. TypeOfPut(c) = "Modified"
    BY <1>4 DEF PutCas, Expected, TypeOfPut
  <2>2. Atomic!Upsert(caller[c].name, caller[c].version, c)
    BY <1>4, <2>1, RowIsUpsert DEF PutCas, HeldAfterRow
  <2>3. caller[c].name \in Names
    BY DEF TypeOK, CallerState
  <2> QED
    BY <2>2, <2>3, UpsertIsAbstract
<1>5. ASSUME NEW c \in Callers, PutCasConflict(c) PROVE Mapped
  BY <1>5, FreeStutter DEF PutCasConflict
<1>6. ASSUME NEW c \in Callers, NEW n \in Names, DeleteRow(c, n) PROVE Mapped
  <2>1. /\ lock = NoCaller /\ lock' = c /\ objects[n] # NoObject
        /\ caller'[c] = At("gone", n, objects[n], 0, "Deleted")
        /\ objects' = [objects EXCEPT ![n] = NoObject]
        /\ UNCHANGED <<rvSeq, events>>
    BY <1>6 DEF DeleteRow, TypeOK
  <2>2. AbstractLog = events /\ AbstractSeq = rvSeq
    BY <2>1, MappingOfLock DEF FreeMeans
  <2>3. AbstractLog' = Append(events, PendingEvent(c)') /\ AbstractSeq' = rvSeq + 1
    BY <2>1, MappingOfLockNext DEF HeldMeans, At
  <2>4. PendingEvent(c)' = [version |-> rvSeq + 1, name |-> n, doc |-> objects[n].doc,
                            type |-> "Deleted"]
    BY <2>1 DEF PendingEvent, NewEvent, At
  <2>5. Atomic!Remove(n)
    BY <2>1, <2>2, <2>3, <2>4 DEF Atomic!Remove, AbstractLog, AbstractSeq
  <2> QED
    BY <2>5 DEF Atomic!ANext
<1>7. ASSUME NEW c \in Callers, DeleteBump(c) PROVE Mapped
  <2>1. /\ caller[c].pc = "gone" /\ rvSeq' = rvSeq + 1
        /\ caller'[c] = At("bumped", caller[c].name, caller[c].seen, rvSeq + 1, "Deleted")
        /\ UNCHANGED <<objects, events, lock>>
    BY <1>7 DEF DeleteBump, bump_rv, TypeOK
  <2>2. lock = c /\ lock' = c /\ caller[c].type = "Deleted"
    BY <2>1 DEF CallInv, MutexInv, HandInv, InCall
  <2>3. PendingEvent(c)' = PendingEvent(c)
    BY <2>1, <2>2 DEF PendingEvent, NewEvent, At
  <2>4. AbstractLog' = AbstractLog /\ AbstractSeq' = AbstractSeq
    BY <2>1, <2>2, <2>3, MappingOfLock, MappingOfLockNext DEF HeldMeans, At
  <2> QED
    BY <2>1, <2>4
<1>8. ASSUME NEW c \in Callers, RecordEvent(c) PROVE Mapped
  <2>1. /\ lock = c /\ lock' = NoCaller /\ UNCHANGED <<objects, rvSeq>>
        /\ events' = Append(events, NewEvent(c)) /\ caller[c].pc # "gone"
    BY <1>8 DEF RecordEvent, CallInv, MutexInv, InCall
  <2>2. PendingEvent(c) = NewEvent(c)
    BY <2>1 DEF PendingEvent, NewEvent
  <2>3. AbstractLog' = AbstractLog /\ AbstractSeq' = AbstractSeq
    BY <2>1, <2>2, MappingOfLock, MappingOfLockNext DEF HeldMeans, FreeMeans
  <2> QED
    BY <2>1, <2>3
<1>9. ASSUME NEW w \in Watchers, Poll(w) PROVE Mapped
  BY <1>9, FreeStutter DEF Poll
<1>10. CASE UNCHANGED vars
  <2>1. UNCHANGED <<objects, events, rvSeq, caller>>
    BY <1>10 DEF vars
  <2> QED
    BY <2>1 DEF AbstractLog, AbstractSeq, Holder, PendingEvent, NewEvent
<1> QED
  BY <1>1, <1>2, <1>3, <1>4, <1>5, <1>6, <1>7, <1>8, <1>9, <1>10
     DEF Next, Step, StatementFails, Crash

\* When no statement fails and the process does not die, the two or three
\* committed statements of put, put_cas and delete are one step of the store
\* the trait promises: for any callers, names and versions.
THEOREM StoreIsAtomic ==
  ASSUME Faults = {} PROVE Spec => ImplementsAtomicStore
<1>1. Init => Atomic!AInit
  BY IdleType DEF Init, Atomic!AInit, Holder, InCall
<1>2. TypeOK /\ VersionInv /\ CallInv /\ CallInv' /\ [Next]_vars
        => [Atomic!ANext]_(Atomic!avars)
  BY EveryStepIsAtomic
<1> QED
  BY <1>1, <1>2, CallInvariant, PTL DEF Spec, ImplementsAtomicStore, Atomic!ASpec
------------------------------------------------------------------------------
(* The log is the history of the table.  Both halves are kept by every step  *)
(* of AtomicStore, so they hold of the table and the log it sees; with the   *)
(* mutex free that log is the log.                                           *)

\* The names of LogIsHistory without CHOOSE, of any log.
About(log, n) == {i \in DOMAIN log : log[i].name = n}
EndsAt(log, n, i) == i \in About(log, n) /\ \A j \in About(log, n) : j <= i

\* A row is what the last event of its name says.
Replayed(tab, log) ==
  \A n \in Names :
    \/ About(log, n) = {} /\ tab[n] = NoObject
    \/ \E i \in DOMAIN log :
         /\ EndsAt(log, n, i)
         /\ tab[n] = IF log[i].type = "Deleted" THEN NoObject
                     ELSE [version |-> log[i].version, doc |-> log[i].doc]

\* An event is an Added one exactly when its name has no row before it.
Fresh(log, i) ==
  LET before == {j \in About(log, log[i].name) : j < i} IN
  before = {} \/ \E j \in before : /\ log[j].type = "Deleted"
                                  /\ \A k \in before : k <= j

Alternates(log) == \A i \in DOMAIN log : Fresh(log, i) <=> log[i].type = "Added"

History(tab, log) == Replayed(tab, log) /\ Alternates(log)

\* What comes before an event does not change as the log grows.
LEMMA FreshIsStable ==
  ASSUME NEW log \in Seq(Event), NEW e, NEW i \in DOMAIN log
  PROVE  /\ i \in DOMAIN Append(log, e) /\ Append(log, e)[i] = log[i]
         /\ Fresh(Append(log, e), i) <=> Fresh(log, i)
<1> DEFINE new == Append(log, e)
<1>1. DOMAIN log \subseteq DOMAIN new /\ \A j \in DOMAIN log : new[j] = log[j]
  OBVIOUS
<1>2. \A j \in DOMAIN new : j < i => j \in DOMAIN log
  OBVIOUS
<1> HIDE DEF new
<1>3. {j \in About(new, new[i].name) : j < i} = {j \in About(log, log[i].name) : j < i}
  BY <1>1, <1>2 DEF About
<1>4. \A j \in About(log, log[i].name) : new[j] = log[j]
  BY <1>1 DEF About
<1>5. Fresh(new, i) <=> Fresh(log, i)
  BY <1>3, <1>4 DEF Fresh
<1> QED
  BY <1>1, <1>5 DEF new

\* One event more, of the name whose row changes with it.
LEMMA HistoryGrows ==
  ASSUME NEW tab, NEW log \in Seq(Event), History(tab, log),
         NEW e \in Event, NEW tab2,
         \A n \in Names : n # e.name => tab2[n] = tab[n],
         tab2[e.name] = IF e.type = "Deleted" THEN NoObject
                        ELSE [version |-> e.version, doc |-> e.doc],
         e.type = "Added" <=> tab[e.name] = NoObject
  PROVE  History(tab2, Append(log, e))
<1> DEFINE new == Append(log, e)
           last1 == Len(log) + 1
<1>1. /\ Len(log) \in Nat /\ DOMAIN log = 1..Len(log) /\ DOMAIN new = 1..last1
      /\ new[last1] = e /\ \A i \in DOMAIN log : new[i] = log[i]
      /\ DOMAIN log \subseteq Nat
  OBVIOUS
<1>2. e.name \in Names
  BY DEF Event
<1> HIDE DEF new, last1
<1>3. \A i \in DOMAIN log : i < last1 /\ i # last1
  BY <1>1 DEF last1
<1>4. DOMAIN new = DOMAIN log \cup {last1} /\ last1 \in Nat
  BY <1>1 DEF last1
<1>5. About(new, e.name) = About(log, e.name) \cup {last1}
  BY <1>1, <1>3, <1>4 DEF About
<1>6. \A n : n # e.name => About(new, n) = About(log, n)
  BY <1>1, <1>3, <1>4 DEF About
<1>7. Replayed(tab2, new)
  <2>1. EndsAt(new, e.name, last1)
    BY <1>3, <1>4, <1>5 DEF EndsAt, About
  <2>2. ASSUME NEW n \in Names, n # e.name
        PROVE  \/ About(new, n) = {} /\ tab2[n] = NoObject
               \/ \E i \in DOMAIN new :
                    /\ EndsAt(new, n, i)
                    /\ tab2[n] = IF new[i].type = "Deleted" THEN NoObject
                                 ELSE [version |-> new[i].version, doc |-> new[i].doc]
    <3>1. About(new, n) = About(log, n) /\ tab2[n] = tab[n]
      BY <1>6, <2>2
    <3>2. CASE About(log, n) = {} /\ tab[n] = NoObject
      BY <3>1, <3>2
    <3>3. ASSUME NEW i \in DOMAIN log, EndsAt(log, n, i),
                 tab[n] = IF log[i].type = "Deleted" THEN NoObject
                          ELSE [version |-> log[i].version, doc |-> log[i].doc]
          PROVE  /\ EndsAt(new, n, i)
                 /\ i \in DOMAIN new
                 /\ tab2[n] = IF new[i].type = "Deleted" THEN NoObject
                              ELSE [version |-> new[i].version, doc |-> new[i].doc]
      BY <1>1, <1>4, <3>1, <3>3 DEF EndsAt
    <3> QED
      BY <3>2, <3>3 DEF History, Replayed
  <2> QED
    BY <1>1, <1>4, <2>1, <2>2 DEF Replayed
<1>8. ASSUME NEW i \in DOMAIN log PROVE Fresh(new, i) <=> Fresh(log, i)
  BY FreshIsStable DEF new
<1>9. Fresh(new, last1) <=> e.type = "Added"
  <2>1. {j \in About(new, new[last1].name) : j < last1} = About(log, e.name)
    BY <1>1, <1>3, <1>5 DEF About
  <2>2. \A j \in About(log, e.name) : j \in Nat /\ new[j] = log[j]
    BY <1>1 DEF About
  <2>3. Fresh(new, last1) <=>
          \/ About(log, e.name) = {}
          \/ \E j \in About(log, e.name) : /\ log[j].type = "Deleted"
                                          /\ \A k \in About(log, e.name) : k <= j
    BY <2>1, <2>2 DEF Fresh
  <2>4. CASE About(log, e.name) = {}
    <3>1. tab[e.name] = NoObject
      BY <1>2, <2>4 DEF History, Replayed, EndsAt
    <3> QED
      BY <2>3, <2>4, <3>1
  <2>5. CASE About(log, e.name) # {}
    <3>1. PICK i \in DOMAIN log :
            /\ EndsAt(log, e.name, i)
            /\ tab[e.name] = IF log[i].type = "Deleted" THEN NoObject
                             ELSE [version |-> log[i].version, doc |-> log[i].doc]
      BY <1>2, <2>5 DEF History, Replayed
    <3>2. \A j \in About(log, e.name) :
            (\A k \in About(log, e.name) : k <= j) => j = i
      BY <2>2, <3>1 DEF EndsAt
    <3>3. [version |-> log[i].version, doc |-> log[i].doc] # NoObject
      <4>1. log[i] \in Event
        BY <3>1
      <4> QED
        BY <4>1, NoObjectAssumption DEF Event
    <3> QED
      BY <2>3, <2>5, <3>1, <3>2, <3>3 DEF EndsAt
  <2> QED
    BY <2>4, <2>5
<1>10. Alternates(new)
  BY <1>1, <1>4, <1>8, <1>9 DEF History, Alternates
<1> QED
  BY <1>7, <1>10 DEF History, new
LEMMA AbstractLogType == TypeOK /\ CallInv => AbstractLog \in Seq(Event)
<1> SUFFICES ASSUME TypeOK, CallInv PROVE AbstractLog \in Seq(Event)
  OBVIOUS
<1>1. CASE lock = NoCaller
  BY <1>1, MappingOfLock DEF FreeMeans, TypeOK
<1>2. ASSUME NEW c \in Callers, lock = c PROVE AbstractLog \in Seq(Event)
  <2>1. caller[c] \in CallerState
        /\ (caller[c].pc \in {"gone", "bumped"} => caller[c].seen \in Object)
    BY DEF TypeOK, CallerState
  <2>2. caller[c].pc \in {"row", "gone", "bumped"}
    BY <1>2 DEF CallInv, MutexInv, InCall
  <2>3. NewEvent(c) \in Event
    <3>1. (IF caller[c].pc = "row" THEN c ELSE caller[c].seen.doc) \in Callers
      BY <2>1, <2>2 DEF Object
    <3>2. /\ caller[c].version \in Nat /\ caller[c].name \in Names
          /\ caller[c].type \in EventType
      BY <2>1 DEF CallerState
    <3> QED
      BY <3>1, <3>2 DEF NewEvent, Event
  <2>4. PendingEvent(c) \in Event
    <3>1. PendingEvent(c) = [NewEvent(c) EXCEPT !.version =
                               IF caller[c].pc = "gone" THEN rvSeq + 1 ELSE NewEvent(c).version]
      BY DEF PendingEvent
    <3>2. rvSeq + 1 \in Nat
      BY DEF TypeOK
    <3> QED
      BY <2>3, <3>1, <3>2 DEF Event
  <2>5. AbstractLog = Append(events, PendingEvent(c))
    BY <1>2, MappingOfLock DEF HeldMeans
  <2> QED
    BY <2>4, <2>5 DEF TypeOK
<1> QED
  BY <1>1, <1>2 DEF TypeOK

HistoryInv == History(objects, AbstractLog)

LEMMA HistoryInvStep ==
  ASSUME TypeOK, CallInv, HistoryInv, [Atomic!ANext]_(Atomic!avars)
  PROVE  HistoryInv'
<1> USE DEF HistoryInv
<1>1. CASE UNCHANGED Atomic!avars
  <2>1. UNCHANGED <<objects, AbstractLog>>
    BY <1>1 DEF Atomic!avars, AbstractLog
  <2> QED
    BY <2>1
<1>2. CASE Atomic!Allocate
  <2>1. UNCHANGED <<objects, AbstractLog>>
    BY <1>2 DEF Atomic!Allocate, AbstractLog
  <2> QED
    BY <2>1
<1>3. AbstractLog \in Seq(Event)
  BY AbstractLogType
<1>4. AbstractSeq \in Nat
  BY DEF AbstractSeq, TypeOK
<1>5. ASSUME NEW n \in Names, NEW d \in Callers, NEW v \in Nat, Atomic!Upsert(n, v, d)
      PROVE  HistoryInv'
  <2> DEFINE e == [version |-> v, name |-> n, doc |-> d,
                   type |-> IF objects[n] = NoObject THEN "Added" ELSE "Modified"]
  <2>1. AbstractLog' = Append(AbstractLog, e)
    BY <1>5 DEF Atomic!Upsert, AbstractLog
  <2>2. objects' = [objects EXCEPT ![n] = [version |-> v, doc |-> d]]
    BY <1>5 DEF Atomic!Upsert
  <2>3. e \in Event /\ e.name = n /\ e.type # "Deleted"
        /\ e.version = v /\ e.doc = d /\ (e.type = "Added" <=> objects[n] = NoObject)
    BY DEF Event, EventType
  <2> HIDE DEF e
  <2>4. objects'[n] = [version |-> v, doc |-> d]
        /\ \A m \in Names : m # n => objects'[m] = objects[m]
    BY <2>2 DEF TypeOK
  <2>5. History(objects', Append(AbstractLog, e))
    BY <1>3, <2>3, <2>4, HistoryGrows
  <2> QED
    BY <2>1, <2>5
<1>6. ASSUME NEW n \in Names, Atomic!Remove(n) PROVE HistoryInv'
  <2> DEFINE e == [version |-> AbstractSeq + 1, name |-> n, doc |-> objects[n].doc,
                   type |-> "Deleted"]
  <2>1. AbstractLog' = Append(AbstractLog, e) /\ objects[n] # NoObject
    BY <1>6 DEF Atomic!Remove, AbstractLog, AbstractSeq
  <2>2. objects' = [objects EXCEPT ![n] = NoObject]
    BY <1>6 DEF Atomic!Remove
  <2>3. e \in Event /\ e.name = n /\ e.type = "Deleted"
    BY <1>4, <2>1 DEF Event, EventType, TypeOK, Object
  <2> HIDE DEF e
  <2>4. objects'[n] = NoObject /\ \A m \in Names : m # n => objects'[m] = objects[m]
    BY <2>2 DEF TypeOK
  <2>5. History(objects', Append(AbstractLog, e))
    BY <1>3, <2>1, <2>3, <2>4, HistoryGrows
  <2> QED
    BY <2>1, <2>5
<1>7. \A v \in 1..AbstractSeq : v \in Nat
  BY <1>4
<1> QED
  BY <1>1, <1>2, <1>5, <1>6, <1>7 DEF Atomic!ANext, AbstractSeq

LEMMA HistoryIsLogIsHistory == TypeOK /\ CallInv /\ HistoryInv => LogIsHistory
<1> SUFFICES ASSUME TypeOK, CallInv, HistoryInv PROVE LogIsHistory
  OBVIOUS
<1>1. /\ events \in Seq(Event)
      /\ DOMAIN events \subseteq Nat
      /\ Replayed(objects, AbstractLog) /\ Alternates(AbstractLog)
  BY DEF TypeOK, HistoryInv, History
<1>2. ASSUME lock = NoCaller, NEW n \in Names
      PROVE  IF Entries(n) = {} \/ events[Latest(n)].type = "Deleted"
             THEN objects[n] = NoObject
             ELSE objects[n] = [version |-> events[Latest(n)].version,
                                doc |-> events[Latest(n)].doc]
  <2>1. AbstractLog = events
    BY <1>2, MappingOfLock DEF FreeMeans
  <2>2. Entries(n) = About(events, n)
    BY DEF Entries, About
  <2>3. CASE Entries(n) = {}
    BY <1>1, <2>1, <2>2, <2>3 DEF Replayed, EndsAt
  <2>4. CASE Entries(n) # {}
    <3>1. PICK i \in DOMAIN events :
            /\ EndsAt(events, n, i)
            /\ objects[n] = IF events[i].type = "Deleted" THEN NoObject
                            ELSE [version |-> events[i].version, doc |-> events[i].doc]
      BY <1>1, <2>1, <2>2, <2>4 DEF Replayed
    <3>2. i \in Entries(n) /\ \A j \in Entries(n) : j <= i /\ j \in Nat
      BY <1>1, <2>2, <3>1 DEF EndsAt, About
    <3>3. \A j \in Entries(n) : (\A k \in Entries(n) : k <= j) => j = i
      BY <3>2
    <3>4. Latest(n) = i
      BY <3>2, <3>3 DEF Latest
    <3> QED
      BY <2>4, <3>1, <3>4
  <2> QED
    BY <2>3, <2>4
<1>3. Alternates(events)
  <2>1. CASE lock = NoCaller
    BY <1>1, <2>1, MappingOfLock DEF FreeMeans
  <2>2. ASSUME NEW c \in Callers, lock = c PROVE Alternates(events)
    <3>1. AbstractLog = Append(events, PendingEvent(c))
      BY <2>2, MappingOfLock DEF HeldMeans
    <3> QED
      BY <1>1, <3>1, FreshIsStable DEF Alternates
  <2> QED
    BY <2>1, <2>2 DEF TypeOK
<1>4. \A i \in DOMAIN events :
        LET before == Earlier(i)
            fresh == before = {} \/ \E j \in before : /\ events[j].type = "Deleted"
                                                      /\ \A k \in before : k <= j
        IN fresh <=> events[i].type = "Added"
  BY <1>3 DEF Alternates, Fresh, Earlier, Entries, About
<1> QED
  BY <1>2, <1>4 DEF LogIsHistory

\* When every call runs to its end, the table is at all times what a replay of
\* the log builds, and the events of a name tell the life of its object: a
\* watcher that applies them in order keeps a copy of the table.
THEOREM LogTellsTheTable ==
  ASSUME Faults = {} PROVE Spec => []LogIsHistory
<1>1. Init => HistoryInv
  BY IdleType DEF Init, HistoryInv, History, Replayed, Alternates, About, AbstractLog,
                  Holder, InCall
<1>2. TypeOK /\ VersionInv /\ CallInv /\ CallInv' /\ HistoryInv /\ [Next]_vars
        => HistoryInv'
  BY EveryStepIsAtomic, HistoryInvStep
<1> QED
  BY <1>1, <1>2, CallInvariant, HistoryIsLogIsHistory, PTL DEF Spec

------------------------------------------------------------------------------
(* What a stream skips.  A cursor is the version of some entry of the log, so *)
(* an entry that no later version preceded was above every cursor when it was *)
(* appended, and the first poll after that sends it.                          *)

SentInv ==
  /\ \A c \in Callers : Holds(c) => caller[c].version # 0
  /\ \A w \in Watchers :
       last[w] = 0 \/ \E i \in DOMAIN events : events[i].version = last[w]
  /\ OnlyLateEventsAreSkipped

\* A step that leaves the log and the streams alone, and after which whoever
\* holds a version holds a positive one.
LEMMA QuietStepKeepsSentInv ==
  ASSUME SentInv, UNCHANGED <<events, last, delivered>>,
         \A c \in Callers : Holds(c)' => caller'[c].version # 0
  PROVE  SentInv'
  BY DEF SentInv, OnlyLateEventsAreSkipped, Late

LEMMA SentInvStep ==
  ASSUME TypeOK, VersionInv, SentInv, [Next]_vars
  PROVE  SentInv'
<1> USE DEF storeVars, watchVars
<1>0. /\ \A i \in DOMAIN events : i \in Nat /\ events[i].version \in Nat
      /\ rvSeq \in Nat
  <2>1. \A i \in DOMAIN events : i \in Nat /\ events[i] \in Event
    BY DEF TypeOK
  <2> QED
    BY <2>1 DEF Event, TypeOK
<1>1. ASSUME NEW c \in Callers, NEW n \in Names, Get(c, n) PROVE SentInv'
  BY <1>1, QuietStepKeepsSentInv DEF Get, Holds, At, TypeOK, SentInv
<1>2. ASSUME NEW c \in Callers, NEW n \in Names, NextResourceVersion(c, n)
      PROVE  SentInv'
  BY <1>0, <1>2, QuietStepKeepsSentInv
     DEF NextResourceVersion, bump_rv, Holds, At, TypeOK, SentInv
<1>3. ASSUME NEW c \in Callers, Put(c) PROVE SentInv'
  BY <1>3, QuietStepKeepsSentInv DEF Put, Holds, At, TypeOK, SentInv
<1>4. ASSUME NEW c \in Callers, PutCas(c) PROVE SentInv'
  BY <1>4, QuietStepKeepsSentInv DEF PutCas, Holds, At, TypeOK, SentInv
<1>5. ASSUME NEW c \in Callers, PutCasConflict(c) PROVE SentInv'
  BY <1>5, IdleType, QuietStepKeepsSentInv DEF PutCasConflict, Holds, TypeOK, SentInv
<1>6. ASSUME NEW c \in Callers, NEW n \in Names, DeleteRow(c, n) PROVE SentInv'
  BY <1>6, QuietStepKeepsSentInv DEF DeleteRow, Holds, At, TypeOK, SentInv
<1>7. ASSUME NEW c \in Callers, DeleteBump(c) PROVE SentInv'
  BY <1>0, <1>7, QuietStepKeepsSentInv DEF DeleteBump, bump_rv, Holds, At, TypeOK, SentInv
<1>8. ASSUME NEW c \in Callers, RecordEvent(c) PROVE SentInv'
  <2> DEFINE e == NewEvent(c)
             new == Len(events) + 1
  <2>1. /\ events' = Append(events, e) /\ UNCHANGED <<rvSeq, last, delivered>>
        /\ Holds(c) /\ e.version = caller[c].version /\ e.version # 0
    BY <1>8 DEF RecordEvent, Holds, NewEvent, SentInv
  <2>2. /\ DOMAIN events' = DOMAIN events \cup {new}
        /\ \A i \in DOMAIN events : events'[i] = events[i] /\ i < new
        /\ events'[new] = e /\ new \in Nat
    BY <2>1 DEF TypeOK
  <2>3. ~Holds(c)' /\ \A d \in Callers : d # c => caller'[d] = caller[d]
    BY <1>8, IdleType DEF RecordEvent, Holds, TypeOK
  <2>4. \A i \in DOMAIN events : events[i].version # e.version
    BY <2>1 DEF VersionInv
  <2>5. e.version \in Nat
    <3>1. caller[c] \in CallerState
      BY DEF TypeOK
    <3> QED
      BY <2>1, <3>1 DEF CallerState
  <2>6. ASSUME NEW w \in Watchers, e.version <= last[w]
        PROVE  \E j \in DOMAIN events' : j < new /\ events'[j].version > e.version
    <3>1. PICK i \in DOMAIN events : events[i].version = last[w]
      BY <2>1, <2>5, <2>6 DEF SentInv, TypeOK
    <3>2. events[i].version > e.version
      BY <1>0, <2>4, <2>5, <2>6, <3>1
    <3> QED
      BY <2>2, <3>2
  <2>7. \A i \in DOMAIN events : Late(i)' <=> Late(i)
    BY <1>0, <2>2 DEF Late
  <2>8. OnlyLateEventsAreSkipped'
    <3> SUFFICES ASSUME NEW w \in Watchers, NEW i \in DOMAIN events',
                        (events[i].version <= last[w] /\ ~Late(i))'
                 PROVE  (i \in delivered[w])'
      BY DEF OnlyLateEventsAreSkipped
    <3>1. CASE i = new
      BY <2>1, <2>2, <2>6, <3>1 DEF Late
    <3>2. CASE i \in DOMAIN events
      BY <2>1, <2>2, <2>7, <3>2 DEF SentInv, OnlyLateEventsAreSkipped
    <3> QED
      BY <2>2, <3>1, <3>2
  <2>9. (\A w \in Watchers :
           last[w] = 0 \/ \E i \in DOMAIN events : events[i].version = last[w])'
    BY <2>1, <2>2 DEF SentInv
  <2>10. (\A d \in Callers : Holds(d) => caller[d].version # 0)'
    BY <2>3 DEF SentInv, Holds
  <2> QED
    BY <2>8, <2>9, <2>10 DEF SentInv
<1>9. ASSUME NEW c \in Callers, StatementFails(c) PROVE SentInv'
  BY <1>9, IdleType, QuietStepKeepsSentInv DEF StatementFails, Holds, TypeOK, SentInv
<1>10. ASSUME NEW w \in Watchers, Poll(w) PROVE SentInv'
  <2> DEFINE batch == ListSince(last[w])
  <2>1. UNCHANGED <<objects, rvSeq, events, lock, caller>>
    BY <1>10 DEF Poll
  <2>2. PICK v \in {events[i].version : i \in batch} :
          IsGreatest(v, batch) /\ last' = [last EXCEPT ![w] = v]
    BY <1>10 DEF Poll
  <2>3. last'[w] = v /\ \E i \in DOMAIN events : events[i].version = v
    BY <2>2 DEF ListSince, TypeOK
  <2>4. delivered'[w] = delivered[w] \cup batch
    BY <1>10 DEF Poll, TypeOK
  <2>5. \A u \in Watchers : u # w => last'[u] = last[u] /\ delivered'[u] = delivered[u]
    BY <1>10 DEF Poll, TypeOK
  <2>6. \A i \in DOMAIN events : Late(i) \/ i \in delivered[w] \/ i \in batch
    BY <1>0 DEF SentInv, OnlyLateEventsAreSkipped, ListSince, TypeOK
  <2>7. OnlyLateEventsAreSkipped'
    BY <2>1, <2>4, <2>5, <2>6 DEF SentInv, OnlyLateEventsAreSkipped, Late
  <2>8. (\A u \in Watchers :
           last[u] = 0 \/ \E i \in DOMAIN events : events[i].version = last[u])'
    BY <2>1, <2>3, <2>5 DEF SentInv
  <2>9. (\A c \in Callers : Holds(c) => caller[c].version # 0)'
    BY <2>1 DEF SentInv, Holds
  <2> QED
    BY <2>7, <2>8, <2>9 DEF SentInv
<1>11. CASE Crash
  BY <1>11, IdleType, QuietStepKeepsSentInv DEF Crash, Holds
<1>12. CASE UNCHANGED vars
  BY <1>12, QuietStepKeepsSentInv DEF vars, Holds, SentInv
<1> QED
  BY <1>1, <1>2, <1>3, <1>4, <1>5, <1>6, <1>7, <1>8, <1>9, <1>10, <1>11, <1>12
     DEF Next, Step

\* Of what reached the log a stream skips nothing but late events: for any
\* callers and streams, whatever statements fail, and however often the process
\* restarts and clients reconnect with the cursor they kept.
THEOREM OnlyTheLateAreSkipped == Spec => []OnlyLateEventsAreSkipped
<1>1. Init => SentInv
  BY IdleType DEF Init, SentInv, OnlyLateEventsAreSkipped, Holds
<1>2. TypeOK /\ VersionInv /\ SentInv /\ [Next]_vars => SentInv'
  BY SentInvStep
<1>3. SentInv => OnlyLateEventsAreSkipped
  BY DEF SentInv
<1> QED
  BY <1>1, <1>2, <1>3, CallInvariant, PTL DEF Spec
==============================================================================
