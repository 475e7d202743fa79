----------------------------- MODULE AtomicStore -----------------------------
(***************************************************************************)
(* What the Store trait promises its callers                               *)
(* (crates/store/src/lib.rs:83-98): a table of objects, a log of events and *)
(* a sequence of resource versions, where every write changes the table    *)
(* and appends its event in ONE step, stamped with a version that was      *)
(* allocated before and that no other event carries.                       *)
(***************************************************************************)
EXTENDS Naturals, Sequences

CONSTANTS Names,     \* object names, of one kind
          Docs,      \* documents
          NoObject   \* the absent row

VARIABLES table,     \* name -> stored object, or NoObject
          log,       \* the event log, oldest first
          seq        \* the last resource version handed out

avars == <<table, log, seq>>

AInit == /\ table = [n \in Names |-> NoObject]
         /\ log = << >>
         /\ seq = 0

Unused(v) == v \in 1..seq /\ \A i \in DOMAIN log : log[i].version # v

Allocate == /\ seq' = seq + 1
            /\ UNCHANGED <<table, log>>

Upsert(n, v, d) ==
  /\ Unused(v)
  /\ table' = [table EXCEPT ![n] = [version |-> v, doc |-> d]]
  /\ log' = Append(log, [version |-> v, name |-> n, doc |-> d,
                         type |-> IF table[n] = NoObject THEN "Added" ELSE "Modified"])
  /\ UNCHANGED seq

Remove(n) ==
  /\ table[n] # NoObject
  /\ table' = [table EXCEPT ![n] = NoObject]
  /\ seq' = seq + 1
  /\ log' = Append(log, [version |-> seq + 1, name |-> n, doc |-> table[n].doc,
                         type |-> "Deleted"])

ANext == \/ Allocate
         \/ \E n \in Names, d \in Docs : \E v \in 1..seq : Upsert(n, v, d)
         \/ \E n \in Names : Remove(n)

ASpec == AInit /\ [][ANext]_avars
==============================================================================
