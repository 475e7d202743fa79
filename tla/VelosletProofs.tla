---------------------------- MODULE VelosletProofs ----------------------------
(***************************************************************************)
(* Theorems about Veloslet, for any names, uids, policies and faults.      *)
(*                                                                         *)
(* Typed, the types and what a pass is made of, carries itself.  IInv adds *)
(* what holds between the rows, the instances and a pass that was decided  *)
(* from older ones; there is one lemma per step, and one per kind of       *)
(* change that steps have in common: Edits, Touches, Puts.                 *)
(***************************************************************************)
EXTENDS Veloslet, TLAPS

------------------------------------------------------------------------------
(* Passes: what the daemon is in the middle of, and the calls it may be at.  *)

Pc == {"idle", "listed", "between", "acting", "failing", "renew"}
CallName == {"none", "run", "stop", "start", "remove", "put", "get", "replace"}
Pass == [pc : Pc, listed : [Names -> Row \cup {NoRow}], plan : [Names -> Act],
         reap : SUBSET Uids, who : Names \cup {NoName}, uid : Uids \cup {0}, act : Act,
         call : CallName, got : Row \cup {NoRow}]

\* The calls of each action.
CallsOf(act) ==
  CASE act = "Start" -> {"run", "put"}
    [] act = "Restart" -> {"remove", "run", "put"}
    [] act = "Resume" -> {"start", "put"}
    [] act = "Hibernate" -> {"stop", "put"}
    [] act = "Cleanup" -> {"stop", "remove", "get", "replace"}
    [] act = "ClearFinalizer" -> {"get", "replace"}
    [] act = "Reap" -> {"stop", "remove"}
    [] OTHER -> {"put"}

Busy(p) == p.pc \in {"acting", "failing"}

\* What is planned was listed; who is acted on was planned for, and an orphan has no
\* name.  A pass that is not under way holds nothing.
Targets(p) ==
  /\ \A n \in Names : p.plan[n] # "none" => p.listed[n] # NoRow /\ p.plan[n] # "Reap"
  /\ Busy(p) =>
       /\ p.act # "none"
       /\ p.who = NoName => p.act = "Reap" /\ p.uid \in p.reap
       /\ p.who # NoName => /\ p.plan[p.who] = p.act /\ p.listed[p.who] # NoRow
                            /\ p.listed[p.who].uid = p.uid
  /\ ~Busy(p) => p.who = NoName
  /\ p.pc = "acting" => p.call \in CallsOf(p.act)
  /\ p.pc = "failing" => p.who # NoName
  /\ p.pc = "acting" /\ p.call = "replace" => p.got # NoRow
  /\ p.pc \in {"idle", "listed", "renew"} => p.plan = NoPlan /\ p.reap = {}

Typed == TypeOK /\ Targets(pass)

LEMMA NoNameFact == NoName \notin Names
BY NamesAssumption DEF NoName

LEMMA WaitingType ==
  ASSUME NEW pc \in {"idle", "renew", "listed"} PROVE Waiting(pc) \in Pass /\ Targets(Waiting(pc))
<1>1. Waiting(pc) \in Pass
  BY DEF Waiting, At, Pass, NoRows, NoPlan, Act, CallName, Pc
<1>2. Targets(Waiting(pc))
  BY DEF Waiting, At, Targets, NoPlan, Busy
<1> QED
  BY <1>1, <1>2

LEMMA BetweenType ==
  ASSUME NEW listed \in [Names -> Row \cup {NoRow}], NEW plan \in [Names -> Act],
         NEW reap \in SUBSET Uids,
         \A n \in Names : plan[n] # "none" => listed[n] # NoRow /\ plan[n] # "Reap"
  PROVE  Between(listed, plan, reap) \in Pass /\ Targets(Between(listed, plan, reap))
<1>1. Between(listed, plan, reap) \in Pass
  BY DEF Between, At, Pass, Act, CallName, Pc
<1>2. Targets(Between(listed, plan, reap))
  BY DEF Between, At, Targets, Busy
<1> QED
  BY <1>1, <1>2

LEMMA OverType == ASSUME Typed PROVE Over \in Pass /\ Targets(Over)
<1> DEFINE listed == [n \in Names |-> IF n = pass.who THEN NoRow ELSE pass.listed[n]]
           plan == [n \in Names |-> IF n = pass.who THEN "none" ELSE pass.plan[n]]
<1>1. listed \in [Names -> Row \cup {NoRow}] /\ pass.reap \ {pass.uid} \in SUBSET Uids
  BY DEF Typed, TypeOK
<1>2. plan \in [Names -> Act]
  BY DEF Typed, TypeOK, Act
<1>3. \A n \in Names : plan[n] # "none" => listed[n] # NoRow /\ plan[n] # "Reap"
  BY DEF Typed, Targets
<1> QED
  BY <1>1, <1>2, <1>3, BetweenType DEF Over

LEMMA ReconcileType ==
  ASSUME NEW d \in Row, NEW o \in InstanceState
  PROVE  reconcile(d, o) \in Act /\ reconcile(d, o) # "Reap"
BY DEF reconcile, ForDeleted, ForAsleep, ForAwake, ForExited, terminal_report, Act

LEMMA NextCallType ==
  ASSUME NEW act \in Act, NEW call \in CallsOf(act), NEW d, NextCall(act, call, d) # "none"
  PROVE  NextCall(act, call, d) \in CallsOf(act) /\ NextCall(act, call, d) \in CallName \ {"replace"}
BY DEF NextCall, CallName, CallsOf, Act

LEMMA ProceedType == ASSUME Typed, pass.pc = "acting", Proceed PROVE pass' \in Pass /\ Targets(pass')
<1> DEFINE call == NextCall(pass.act, pass.call, Finalizes)
<1>1. CASE pass' = Over
  BY <1>1, OverType
<1>2. CASE call # "none" /\ pass' = [pass EXCEPT !.call = call]
  <2>1. call \in CallsOf(pass.act) /\ call \in CallName \ {"replace"}
    BY <1>2, NextCallType DEF Typed, Targets, TypeOK
  <2> HIDE DEF call
  <2>2. pass' \in Pass
    BY <1>2, <2>1 DEF Typed, TypeOK, Pass, Pc, CallName
  <2>3. Targets(pass')
    BY <1>2, <2>1 DEF Typed, TypeOK, Targets, Busy
  <2> QED
    BY <2>2, <2>3
<1> QED
  BY <1>1, <1>2 DEF Proceed

LEMMA FailType == ASSUME Typed, pass.pc = "acting", Fail PROVE pass' \in Pass /\ Targets(pass')
<1>1. CASE pass' = Over
  BY <1>1, OverType
<1>2. CASE HasReason(pass.act) /\ pass' = [pass EXCEPT !.pc = "failing"]
  <2>1. pass' \in Pass
    BY <1>2 DEF Typed, TypeOK, Pass, Pc, CallName
  <2>2. Targets(pass')
    BY <1>2 DEF Typed, TypeOK, Targets, Busy, HasReason
  <2> QED
    BY <2>1, <2>2
<1> QED
  BY <1>1, <1>2 DEF Fail

------------------------------------------------------------------------------
(* Type correctness.                                                         *)

LEMMA FaultType == ASSUME TypeOK, NEW kind, Fault(kind) PROVE faults' \in 0..MaxFaults
BY BoundsAssumption DEF TypeOK, Fault

\* What is written over a row is a row.
LEMMA EditType ==
  ASSUME NEW r \in Row, NEW phase \in Phase,
         NEW reason \in {"none", "NodeLost"} \cup FailureReason,
         NEW desired \in {"Running", "Hibernated"}, NEW bound \in BOOLEAN
  PROVE  /\ [r EXCEPT !.deleting = TRUE] \in Row
         /\ [r EXCEPT !.finalizer = FALSE] \in Row
         /\ [r EXCEPT !.desired = desired] \in Row
         /\ [r EXCEPT !.phase = phase, !.reason = reason] \in Row
         /\ [r EXCEPT !.phase = phase, !.reason = reason, !.bound = bound] \in Row
         /\ [r EXCEPT !.phase = phase, !.bound = bound, !.reason = reason] \in Row
BY DEF Row

LEMMA RowType ==
  ASSUME TypeOK, NEW n, NEW q \in Row \cup {NoRow}, row' = [row EXCEPT ![n] = q]
  PROVE  row' \in [Names -> Row \cup {NoRow}]
BY DEF TypeOK

LEMMA PassSuffices ==
  ASSUME TypeOK, pass' \in Pass, Targets(pass'), UNCHANGED <<server, runtime>>,
         lease' \in BOOLEAN, faults' \in 0..MaxFaults
  PROVE  Typed'
BY DEF Typed, TypeOK, server, runtime, Pass, Pc, CallName, Targets, Busy

LEMMA InitType == Init => Typed
<1> SUFFICES ASSUME Init PROVE Typed
  OBVIOUS
<1>1. pass \in Pass /\ Targets(pass)
  BY WaitingType DEF Init
<1>2. uids \in 0..MaxUid /\ faults \in 0..MaxFaults
  BY BoundsAssumption DEF Init
<1>3. TypeOK
  BY <1>1, <1>2 DEF Init, TypeOK, Pass, Pc, CallName, NoRows, InstanceState
<1> QED
  BY <1>1, <1>3 DEF Typed

LEMMA UsersType == ASSUME Typed, Users PROVE Typed'
<1>0. TypeOK /\ UNCHANGED <<runtime, lease, pass, faults>>
  BY DEF Users, create, delete, Evict, Bind, set_desired_state, Typed
<1>1. row' \in [Names -> Row \cup {NoRow}] /\ uids' \in 0..MaxUid
  <2>1. ASSUME NEW n \in Names, create(n)
        PROVE  row' \in [Names -> Row \cup {NoRow}] /\ uids' \in 0..MaxUid
    <3> DEFINE marked == n \in Finalized
               q == [uid |-> uids + 1, policy |-> PolicyOf[n], desired |-> "Running",
                     phase |-> "Scheduled", reason |-> "none", bound |-> TRUE, deleting |-> FALSE,
                     finalizer |-> marked]
    <3>1. uids + 1 \in Uids /\ uids' \in 0..MaxUid
      BY <2>1, BoundsAssumption DEF create, Typed, TypeOK, Uids
    <3>2. PolicyOf[n] \in Policy
      BY FlagsAssumption
    <3>3. marked \in BOOLEAN
      OBVIOUS
    <3>4. row' = [row EXCEPT ![n] = q]
      BY <2>1 DEF create
    <3> HIDE DEF marked
    <3>5. q \in Row
      BY <3>1, <3>2, <3>3 DEF Row, Phase, Policy
    <3> QED
      BY <1>0, <3>1, <3>4, <3>5, RowType
  <2>2. ASSUME NEW n \in Names, \/ delete(n) \/ Evict(n) \/ Bind(n)
                                \/ \E d \in {"Running", "Hibernated"} : set_desired_state(n, d)
        PROVE  row' \in [Names -> Row \cup {NoRow}] /\ uids' \in 0..MaxUid
    <3>1. row[n] \in Row
      <4>1. row[n] # NoRow
        BY <2>2 DEF delete, Evict, Bind, set_desired_state
      <4> QED
        BY <1>0, <4>1 DEF TypeOK
    <3>2. \E q \in Row \cup {NoRow} : row' = [row EXCEPT ![n] = q]
      <4>1. CASE delete(n)
        BY <3>1, <4>1, EditType DEF delete, Phase
      <4>2. CASE Evict(n)
        <5>1. /\ [row[n] EXCEPT !.phase = "Pending", !.bound = FALSE, !.reason = "NodeLost"] \in Row
              /\ [row[n] EXCEPT !.phase = "Unknown", !.reason = "NodeLost"] \in Row
          BY <3>1, EditType DEF Phase
        <5> QED
          BY <4>2, <5>1 DEF Evict
      <4>3. CASE Bind(n)
        <5>1. [row[n] EXCEPT !.phase = "Scheduled", !.bound = TRUE, !.reason = "none"] \in Row
          BY <3>1, EditType DEF Phase
        <5> QED
          BY <4>3, <5>1 DEF Bind
      <4>4. ASSUME NEW d \in {"Running", "Hibernated"}, set_desired_state(n, d)
            PROVE  \E q \in Row \cup {NoRow} : row' = [row EXCEPT ![n] = q]
        <5>1. [row[n] EXCEPT !.desired = d] \in Row
          BY <3>1 DEF Row
        <5> QED
          BY <4>4, <5>1 DEF set_desired_state
      <4> QED
        BY <2>2, <4>1, <4>2, <4>3, <4>4
    <3>3. uids' = uids
      BY <2>2 DEF delete, Evict, Bind, set_desired_state
    <3> QED
      BY <1>0, <3>2, <3>3, RowType DEF TypeOK
  <2> QED
    BY <2>1, <2>2 DEF Users
<1> QED
  BY <1>0, <1>1 DEF Typed, TypeOK, runtime

LEMMA MachineType == ASSUME Typed, Machine PROVE Typed'
<1>0. TypeOK
  BY DEF Typed
<1>1. ASSUME NEW u \in Uids, Exit(u) PROVE Typed'
  BY <1>0, <1>1, FaultType DEF Exit, Typed, TypeOK, server, InstanceState
<1>2. ASSUME NEW u \in Uids, Prune(u) PROVE Typed'
  BY <1>0, <1>2, FaultType DEF Prune, Typed, TypeOK, server, InstanceState
<1>3. CASE Outage
  BY <1>0, <1>3, FaultType DEF Outage, Typed, TypeOK, server
<1>4. CASE Mend
  BY <1>4 DEF Mend, Typed, TypeOK, server
<1>5. CASE Crash
  <2>1. pass' \in Pass /\ Targets(pass')
    BY <1>5, WaitingType DEF Crash
  <2>2. lease' \in BOOLEAN
    BY <1>0, <1>5 DEF Crash, TypeOK
  <2> QED
    BY <1>0, <1>5, <2>1, <2>2, FaultType, PassSuffices DEF Crash
<1>6. CASE LeaseLapses
  BY <1>6 DEF LeaseLapses, Typed, TypeOK, server, runtime
<1> QED
  BY <1>1, <1>2, <1>3, <1>4, <1>5, <1>6 DEF Machine

LEMMA PassesType ==
  ASSUME Typed,
         \/ ListAssigned \/ ListInstances \/ EndPass \/ ensure_ready \/ renew_lease
         \/ \E n \in Names : Begin(n)
         \/ \E u \in Uids : BeginReap(u)
  PROVE  Typed'
<1>0. TypeOK /\ lease \in BOOLEAN /\ faults \in 0..MaxFaults
  BY DEF Typed, TypeOK
<1>1. CASE ListAssigned
  <2> DEFINE listed == [n \in Names |-> IF row[n] # NoRow /\ row[n].bound THEN row[n] ELSE NoRow]
  <2>1. listed \in [Names -> Row \cup {NoRow}]
    BY <1>0 DEF TypeOK
  <2>2. pass' = [Waiting("listed") EXCEPT !.listed = listed]
    BY <1>1 DEF ListAssigned
  <2> HIDE DEF listed
  <2>3. pass' \in Pass
    BY <2>1, <2>2, WaitingType DEF Pass, Pc
  <2>4. Targets(pass')
    BY <2>2 DEF Waiting, At, Targets, NoPlan, Busy
  <2> QED
    BY <1>0, <1>1, <2>3, <2>4, PassSuffices DEF ListAssigned
<1>2. CASE ListInstances
  <2> DEFINE plan == Plan(pass.listed)
  <2>1. plan \in [Names -> Act] /\ \A n \in Names : plan[n] # "Reap"
    <3>1. ASSUME NEW n \in Names, pass.listed[n] # NoRow
          PROVE  reconcile(pass.listed[n], inst[pass.listed[n].uid]) \in Act \ {"Reap"}
      <4>1. pass.listed[n] \in Row /\ inst[pass.listed[n].uid] \in InstanceState
        BY <1>0, <3>1 DEF TypeOK, Row
      <4> QED
        BY <4>1, ReconcileType
    <3> QED
      BY <3>1 DEF Plan, Act
  <2>2. Kept(pass.listed, plan) \in [Names -> Row \cup {NoRow}] /\ Orphans(pass.listed) \in SUBSET Uids
    BY <1>0 DEF Kept, Orphans, TypeOK
  <2>3. \A n \in Names : plan[n] # "none" => Kept(pass.listed, plan)[n] # NoRow
    BY DEF Plan, Kept
  <2>4. pass' = Waiting("idle") \/ pass' = Between(Kept(pass.listed, plan), plan, Orphans(pass.listed))
    BY <1>2 DEF ListInstances
  <2> HIDE DEF plan
  <2>5. pass' \in Pass /\ Targets(pass')
    BY <2>1, <2>2, <2>3, <2>4, BetweenType, WaitingType
  <2> QED
    BY <1>0, <1>2, <2>5, PassSuffices DEF ListInstances
<1>3. CASE EndPass
  BY <1>0, <1>3, WaitingType, PassSuffices DEF EndPass
<1>4. CASE ensure_ready
  <2>1. pass' \in Pass /\ Targets(pass')
    BY <1>4, WaitingType DEF ensure_ready, Typed, TypeOK, Pass, Pc, CallName
  <2> QED
    BY <1>0, <1>4, <2>1 DEF ensure_ready, Typed, TypeOK, server, Pass, Pc, CallName
<1>5. CASE renew_lease
  <2>1. lease' \in BOOLEAN /\ faults' \in 0..MaxFaults
    BY <1>0, <1>5, FaultType DEF renew_lease
  <2> QED
    BY <1>0, <1>5, <2>1, WaitingType, PassSuffices DEF renew_lease
<1>6. ASSUME NEW n \in Names, Begin(n) PROVE Typed'
  <2> DEFINE a == pass.plan[n]
             c == FirstCall(a)
  <2>1. a \in Act /\ a \notin {"none", "Reap"} /\ pass.listed[n] \in Row /\ n # NoName
    BY <1>6, NoNameFact DEF Begin, Typed, TypeOK, Targets
  <2>2. c \in CallsOf(a) /\ c \in CallName \ {"replace"}
    BY <2>1 DEF FirstCall, CallsOf, CallName, Act
  <2>3. pass' = [pass EXCEPT !.pc = "acting", !.who = n, !.uid = pass.listed[n].uid,
                             !.act = a, !.call = c]
    BY <1>6 DEF Begin
  <2>4. pass.listed[n].uid \in Uids
    BY <2>1 DEF Row
  <2> HIDE DEF c
  <2>5. pass' \in Pass
    BY <1>0, <2>1, <2>2, <2>3, <2>4 DEF TypeOK, Pass, Pc, CallName
  <2>6. Targets(pass')
    BY <2>1, <2>2, <2>3 DEF Typed, Targets, Busy, TypeOK
  <2> QED
    BY <1>0, <1>6, <2>5, <2>6, PassSuffices DEF Begin
<1>7. ASSUME NEW u \in Uids, BeginReap(u) PROVE Typed'
  <2>1. pass' = [pass EXCEPT !.pc = "acting", !.uid = u, !.act = "Reap", !.call = "stop"]
    BY <1>7 DEF BeginReap, FirstCall
  <2>2. pass' \in Pass
    BY <1>0, <2>1 DEF TypeOK, Pass, Pc, CallName, Act
  <2>3. /\ pass'.pc = "acting" /\ pass'.act = "Reap" /\ pass'.call = "stop" /\ pass'.uid = u
        /\ pass'.who = NoName /\ pass'.plan = pass.plan /\ pass'.reap = pass.reap
        /\ pass'.listed = pass.listed
    BY <1>0, <1>7, <2>1 DEF Typed, TypeOK, Targets, Busy, BeginReap
  <2>4. Targets(pass')
    <3>1. "stop" \in CallsOf("Reap")
      BY DEF CallsOf
    <3>2. u \in pass.reap
      BY <1>7 DEF BeginReap
    <3>3. Targets(pass)
      BY DEF Typed
    <3> QED
      BY <2>3, <3>1, <3>2, <3>3 DEF Targets, Busy
  <2> QED
    BY <1>0, <1>7, <2>2, <2>4, PassSuffices DEF BeginReap
<1> QED
  BY <1>1, <1>2, <1>3, <1>4, <1>5, <1>6, <1>7

LEMMA BestEffortType ==
  ASSUME Typed, NEW state \in InstanceState, BestEffort(state), pass.pc = "acting"
  PROVE  inst' \in [Uids -> InstanceState] /\ leaked' \subseteq Uids /\ faults' \in 0..MaxFaults
<1>1. pass.uid \in Uids
  BY DEF Typed, Targets, Busy, TypeOK, Row
<1>2. faults' \in 0..MaxFaults
  BY FaultType DEF BestEffort, Typed, TypeOK
<1> QED
  BY <1>1, <1>2 DEF BestEffort, Typed, TypeOK

LEMMA WrittenType ==
  ASSUME Typed, NEW n \in Names, row[n] # NoRow, NEW phase \in Phase,
         NEW reason \in {"none", "NodeLost"} \cup FailureReason, Written(n, phase, reason)
  PROVE  row' \in [Names -> Row \cup {NoRow}]
<1>1. row[n] \in Row /\ TypeOK
  BY DEF Typed, TypeOK
<1>2. [row[n] EXCEPT !.phase = phase, !.reason = reason, !.bound = TRUE] \in Row
  BY <1>1, EditType
<1>3. row' = [row EXCEPT ![n] = [row[n] EXCEPT !.phase = phase, !.reason = reason, !.bound = TRUE]]
  BY DEF Written
<1> QED
  BY <1>1, <1>2, <1>3, RowType

\* An action with a phase to put or a reason to give is a container's.
LEMMA NamedAct ==
  ASSUME Typed, Busy(pass), pass.act # "Reap"
  PROVE  pass.who \in Names /\ Listed \in Row /\ pass.uid = Listed.uid
BY DEF Typed, Targets, TypeOK, Listed

LEMMA CallType == ASSUME Typed, Call PROVE Typed'
<1>0. TypeOK /\ lease \in BOOLEAN /\ faults \in 0..MaxFaults
  BY DEF Typed, TypeOK
<1>1. CASE CallRun \/ CallStart
  <2>1. pass.pc = "acting" /\ (Proceed \/ Fail)
    BY <1>1 DEF CallRun, CallStart, Calls
  <2>2. pass' \in Pass /\ Targets(pass')
    BY <2>1, ProceedType, FailType
  <2>3. inst' \in [Uids -> InstanceState]
    BY <1>0, <1>1 DEF CallRun, CallStart, TypeOK, InstanceState
  <2>4. faults' \in 0..MaxFaults
    BY <1>0, <1>1, FaultType DEF CallRun, CallStart
  <2> QED
    BY <1>0, <1>1, <2>2, <2>3, <2>4 DEF CallRun, CallStart, Typed, TypeOK, server, Pass, Pc, CallName
<1>2. CASE CallStop \/ CallRemove
  <2>1. pass.pc = "acting" /\ Proceed
    BY <1>2 DEF CallStop, CallRemove, Calls
  <2>2. pass' \in Pass /\ Targets(pass')
    BY <2>1, ProceedType
  <2>3. pass.uid \in Uids
    BY <2>1 DEF Typed, Targets, Busy, TypeOK, Row
  <2>4. \E state \in InstanceState : BestEffort(state)
    BY <1>0, <1>2, <2>3 DEF CallStop, CallRemove, TypeOK, InstanceState
  <2>5. inst' \in [Uids -> InstanceState] /\ leaked' \subseteq Uids /\ faults' \in 0..MaxFaults
    BY <2>1, <2>4, BestEffortType
  <2> QED
    BY <1>0, <1>2, <2>2, <2>5 DEF CallStop, CallRemove, Typed, TypeOK, server, Pass, Pc, CallName
<1>3. CASE PutStatus
  <2>1. pass.pc = "acting" /\ (Proceed \/ Fail)
    BY <1>3 DEF PutStatus, Calls
  <2>2. pass' \in Pass /\ Targets(pass')
    BY <2>1, ProceedType, FailType
  <2>3. pass.call = "put" /\ pass.call \in CallsOf(pass.act)
    BY <1>3, <2>1 DEF PutStatus, Calls, Typed, Targets
  <2>4. pass.who \in Names
    BY <2>1, <2>3, NamedAct DEF CallsOf, Busy
  <2>5. PhaseOf(pass.act) \in Phase
    BY DEF PhaseOf, Phase
  <2>6. row' \in [Names -> Row \cup {NoRow}]
    BY <1>0, <1>3, <2>4, <2>5, WrittenType DEF PutStatus, TypeOK
  <2>7. faults' \in 0..MaxFaults
    BY <1>0, <1>3, FaultType DEF PutStatus
  <2> QED
    BY <1>0, <1>3, <2>2, <2>6, <2>7 DEF PutStatus, Typed, TypeOK, runtime, Pass, Pc, CallName
<1>4. CASE PutFailure
  <2>1. pass' \in Pass /\ Targets(pass')
    BY <1>4, OverType DEF PutFailure
  <2>2. pass.who \in Names /\ Listed \in Row
    BY <1>4 DEF PutFailure, Typed, Targets, Busy, TypeOK, Listed
  <2>3. Listed.phase \in Phase /\ ReasonOf(pass.act) \in FailureReason
    BY <2>2 DEF Row, ReasonOf, FailureReason
  <2>4. row' \in [Names -> Row \cup {NoRow}]
    BY <1>0, <1>4, <2>2, <2>3, WrittenType DEF PutFailure, TypeOK
  <2>5. faults' \in 0..MaxFaults
    BY <1>0, <1>4, FaultType DEF PutFailure
  <2> QED
    BY <1>0, <1>4, <2>1, <2>4, <2>5 DEF PutFailure, Typed, TypeOK, runtime, Pass, Pc, CallName
<1>5. CASE GetContainer
  <2> DEFINE r == row[pass.who]
  <2>1. CASE pass' = Over
    <3>1. faults' \in 0..MaxFaults
      BY <1>0, <1>5, FaultType DEF GetContainer
    <3> QED
      BY <1>0, <1>5, <2>1, <3>1, OverType, PassSuffices DEF GetContainer
  <2>2. CASE r # NoRow /\ pass' = [pass EXCEPT !.call = "replace", !.got = r]
    <3>1. pass.call = "get" /\ pass.call \in CallsOf(pass.act) /\ pass.pc = "acting"
      BY <1>5 DEF GetContainer, Calls, Typed, Targets
    <3>2. "replace" \in CallsOf(pass.act)
      BY <1>0, <3>1 DEF CallsOf, TypeOK, Act
    <3>3. pass.who \in Names
      BY <3>1, NamedAct DEF CallsOf, Busy
    <3>4. r \in Row
      BY <1>0, <2>2, <3>3 DEF TypeOK
    <3>5. pass' \in Pass
      BY <1>0, <2>2, <3>4 DEF TypeOK, Pass, Pc, CallName
    <3>6. /\ pass'.pc = pass.pc /\ pass'.act = pass.act /\ pass'.call = "replace"
          /\ pass'.uid = pass.uid /\ pass'.who = pass.who /\ pass'.plan = pass.plan
          /\ pass'.reap = pass.reap /\ pass'.listed = pass.listed /\ pass'.got = r
      BY <1>0, <2>2 DEF TypeOK
    <3>7. Targets(pass)
      BY DEF Typed
    <3>8. Targets(pass')
      BY <2>2, <3>1, <3>2, <3>6, <3>7 DEF Targets, Busy
    <3>9. faults' \in 0..MaxFaults
      BY <1>0, <1>5, FaultType DEF GetContainer
    <3> QED
      BY <1>0, <1>5, <3>5, <3>8, <3>9, PassSuffices DEF GetContainer
  <2> QED
    BY <1>5, <2>1, <2>2 DEF GetContainer
<1>6. CASE ReplaceContainer
  <2>1. pass' \in Pass /\ Targets(pass')
    BY <1>6, OverType DEF ReplaceContainer
  <2>2. row' \in [Names -> Row \cup {NoRow}]
    <3>1. CASE Replaced
      <4>1. pass.call = "replace" /\ pass.call \in CallsOf(pass.act) /\ pass.pc = "acting"
        BY <1>6 DEF ReplaceContainer, Calls, Typed, Targets
      <4>2. pass.who \in Names
        BY <4>1, NamedAct DEF CallsOf, Busy
      <4>3. row[pass.who] # NoRow => [row[pass.who] EXCEPT !.finalizer = FALSE] \in Row
        BY <1>0, <4>2 DEF TypeOK, Row
      <4>4. \E q \in Row \cup {NoRow} : row' = [row EXCEPT ![pass.who] = q]
        BY <1>0, <3>1, <4>2, <4>3 DEF Replaced, TypeOK
      <4> QED
        BY <1>0, <4>4, RowType
    <3> QED
      BY <1>0, <1>6, <3>1 DEF ReplaceContainer, TypeOK
  <2>3. faults' \in 0..MaxFaults
    BY <1>0, <1>6, FaultType DEF ReplaceContainer
  <2> QED
    BY <1>0, <1>6, <2>1, <2>2, <2>3 DEF ReplaceContainer, Typed, TypeOK, runtime, Pass, Pc, CallName
<1> QED
  BY <1>1, <1>2, <1>3, <1>4, <1>5, <1>6 DEF Call

LEMMA NextType == Typed /\ [Next]_vars => Typed'
<1> SUFFICES ASSUME Typed, [Next]_vars PROVE Typed'
  OBVIOUS
<1>1. CASE UNCHANGED vars
  BY <1>1 DEF vars, Typed, TypeOK
<1> QED
  BY <1>1, UsersType, MachineType, PassesType, CallType DEF Next, run_once

\* The rows, the instances and what the daemon is in the middle of are well formed,
\* for any names, policies and faults, and however often they occur.
THEOREM TypeCorrect == Spec => []TypeOK
<1>1. Typed => TypeOK
  BY DEF Typed
<1> QED
  BY <1>1, InitType, NextType, PTL DEF Spec

------------------------------------------------------------------------------
(* What holds between rows, instances and a pass.                            *)

\* Containers whose instances the worker has no reason to stop: see
\* TerminalMeansEnded.
Watched == Finalized \ (Overwritten \cup Sleepers \cup Reschedulable)

Exited(u) == inst[u] \in {"Zero", "NonZero"}

\* A uid that is not given out yet names nothing.
Fresh ==
  /\ \A n \in Names : row[n] # NoRow => row[n].uid <= uids
  /\ \A n \in Names : pass.listed[n] # NoRow => pass.listed[n].uid <= uids
  /\ \A u \in Uids : inst[u] # "none" => u <= uids
  /\ \A u \in pass.reap : u <= uids

\* An object has one name, in the rows and in the list.
OneName ==
  \A m, n \in Names : m # n =>
    /\ row[m] # NoRow /\ row[n] # NoRow => row[m].uid # row[n].uid
    /\ pass.listed[m] # NoRow /\ row[n] # NoRow => pass.listed[m].uid # row[n].uid
    /\ pass.listed[m] # NoRow /\ pass.listed[n] # NoRow => pass.listed[m].uid # pass.listed[n].uid

\* A container that waits to be placed again is on no worker; the mark of a deletion
\* stays; an object with the finalizer stays while the daemon has it listed.
Rows ==
  \A n \in Names :
    /\ row[n] # NoRow /\ ~row[n].bound => n \in Reschedulable /\ row[n].phase = "Pending"
    /\ row[n] # NoRow /\ pass.listed[n] # NoRow /\ pass.listed[n].uid = row[n].uid
         => (pass.listed[n].deleting => row[n].deleting)
    /\ n \notin Overwritten =>
         /\ row[n] # NoRow => (row[n].finalizer => n \in Finalized)
         /\ row[n] # NoRow => (n \in Finalized => row[n].finalizer)
         /\ n \in Finalized /\ pass.listed[n] # NoRow
              => row[n] # NoRow /\ row[n].uid = pass.listed[n].uid

\* What an action that is planned was decided from, as far as it still holds.
Planned ==
  \A n \in Names : pass.plan[n] # "none" =>
    /\ pass.plan[n] \in {"Cleanup", "ClearFinalizer"} => pass.listed[n].deleting
    /\ pass.plan[n] = "ClearFinalizer" => inst[pass.listed[n].uid] = "none"
    /\ pass.plan[n] = "Hibernate" => pass.listed[n].desired = "Hibernated"
    /\ pass.plan[n] = "Restart" => /\ pass.listed[n].phase # "Hibernated"
                                   /\ row[n] # NoRow => row[n].phase # "Hibernated"
    /\ pass.plan[n] \in {"ReportSucceeded", "ReportFailed"} /\ n \in Watched
         => pass.listed[n].uid \in ended

\* The finalizer's turn comes after the instance's.
Cleaned ==
  pass.pc = "acting" /\ pass.call \in {"get", "replace"}
    => inst[pass.uid] = "none" \/ pass.uid \in leaked

\* Between the two lists nothing falls asleep or is launched.
Listing ==
  pass.pc = "listed" => \A n \in Names :
    /\ row[n] # NoRow /\ pass.listed[n] # NoRow /\ row[n].phase = "Hibernated"
         => pass.listed[n].phase = "Hibernated"
    /\ row[n] # NoRow /\ inst[row[n].uid] # "none" =>
         \/ pass.listed[n] # NoRow /\ pass.listed[n].uid = row[n].uid
         \/ pass.listed[n] = NoRow /\ row[n].phase # "Hibernated" /\ n \in Reschedulable
    /\ n \in Watched /\ pass.listed[n] # NoRow /\ ~pass.listed[n].deleting
         => (Exited(pass.listed[n].uid) => pass.listed[n].uid \in ended)

\* What is to be reaped is no container's, or one's that has come back meanwhile.
Orphaned ==
  \A u \in pass.reap, n \in Names : row[n] # NoRow /\ row[n].uid = u =>
    pass.listed[n] = NoRow /\ row[n].phase # "Hibernated" /\ n \in Reschedulable

\* A watched container's instance that has stopped was not stopped by the daemon.
Ended ==
  \A n \in Watched :
    /\ row[n] # NoRow =>
         /\ row[n].desired = "Running"
         /\ is_terminal(row[n].phase) => row[n].uid \in ended
         /\ ~row[n].deleting /\ Exited(row[n].uid) => row[n].uid \in ended
    /\ pass.listed[n] # NoRow =>
         /\ pass.listed[n].desired = "Running"
         /\ is_terminal(pass.listed[n].phase) => pass.listed[n].uid \in ended

IInv == Typed /\ Fresh /\ OneName /\ Rows /\ Planned /\ Cleaned /\ Listing /\ Orphaned /\ Ended

------------------------------------------------------------------------------
(* Steps of users and of the machine.                                        *)

Others == Fresh /\ OneName /\ Rows /\ Planned /\ Cleaned /\ Listing /\ Orphaned /\ Ended

LEMMA Untouched ==
  ASSUME IInv, UNCHANGED <<row, uids, inst, ended, leaked, pass>> PROVE Others'
BY DEF IInv, Others, Fresh, OneName, Rows, Planned, Cleaned, Listing, Orphaned, Ended, Exited

\* The types of what the invariant relates.
LEMMA Types ==
  ASSUME Typed
  PROVE  /\ \A n \in Names : row[n] # NoRow => row[n] \in Row /\ row[n].uid \in Uids
         /\ \A n \in Names : pass.listed[n] # NoRow =>
              pass.listed[n] \in Row /\ pass.listed[n].uid \in Uids
         /\ \A u \in Uids : inst[u] \in InstanceState
         /\ pass.reap \subseteq Uids /\ uids \in Nat /\ Uids \subseteq Nat
BY BoundsAssumption DEF Typed, TypeOK, Row, Uids

LEMMA WatchedFact ==
  \A n \in Watched : n \in Names /\ n \in Finalized
                     /\ n \notin Overwritten /\ n \notin Sleepers /\ n \notin Reschedulable
BY FlagsAssumption DEF Watched

\* A row that is removed or edited by others than this worker.
Edits(n) ==
  /\ UNCHANGED <<uids, inst, ended, leaked, pass>>
  /\ row[n] # NoRow /\ \A m \in Names : m # n => row'[m] = row[m]
  /\ row'[n] = NoRow => ~row[n].finalizer
  /\ row'[n] # NoRow =>
       /\ row'[n].uid = row[n].uid /\ row'[n].finalizer = row[n].finalizer
       /\ row[n].deleting => row'[n].deleting
       /\ row'[n].phase = row[n].phase \/ row'[n].phase \in {"Pending", "Unknown", "Scheduled"}
       /\ ~row'[n].bound => n \in Reschedulable /\ row'[n].phase = "Pending"
       /\ row'[n].desired = row[n].desired \/ n \in Sleepers

LEMMA RowEdited ==
  ASSUME IInv, NEW n \in Names, Edits(n)
  PROVE  Others'
<1>1. Fresh'
  BY DEF IInv, Fresh, Edits
<1>2. OneName'
  BY DEF IInv, OneName, Edits
<1>3. Rows'
  BY DEF IInv, Rows, Edits
<1>4. Planned'
  BY DEF IInv, Planned, Edits
<1>5. Cleaned'
  BY DEF IInv, Cleaned, Edits
<1>6. Listing'
  BY DEF IInv, Listing, Exited, Edits
<1>7. Orphaned'
  BY DEF IInv, Orphaned, Edits
<1>8. Ended'
  BY WatchedFact DEF IInv, Ended, Exited, is_terminal, Edits
<1> QED
  BY <1>1, <1>2, <1>3, <1>4, <1>5, <1>6, <1>7, <1>8 DEF Others

LEMMA Created == ASSUME IInv, NEW n \in Names, create(n) PROVE Others'
<1>0. /\ \A m \in Names : m # n => row'[m] = row[m]
      /\ row'[n] # NoRow /\ row'[n].uid = uids + 1 /\ row'[n].phase = "Scheduled"
      /\ row'[n].bound = TRUE /\ row'[n].deleting = FALSE /\ row'[n].desired = "Running"
      /\ row'[n].finalizer = (n \in Finalized)
      /\ uids' = uids + 1 /\ UNCHANGED <<inst, ended, leaked, pass>>
      /\ row[n] = NoRow \/ n \in Overwritten
  <2> DEFINE q == [uid |-> uids + 1, policy |-> PolicyOf[n], desired |-> "Running",
                   phase |-> "Scheduled", reason |-> "none", bound |-> TRUE, deleting |-> FALSE,
                   finalizer |-> n \in Finalized]
  <2>1. row' = [row EXCEPT ![n] = q]
    BY DEF create
  <2>2. row'[n] = q /\ \A m \in Names : m # n => row'[m] = row[m]
    BY <2>1 DEF IInv, Typed, TypeOK
  <2>3. row'[n] # NoRow
    <3>0. uids \in 0..MaxUid /\ uids < MaxUid
      BY DEF create, IInv, Typed, TypeOK
    <3>1. uids + 1 \in Uids /\ PolicyOf[n] \in Policy
      BY <3>0, BoundsAssumption, FlagsAssumption DEF Uids
    <3>2. (n \in Finalized) \in BOOLEAN
      OBVIOUS
    <3> DEFINE marked == n \in Finalized
    <3>3. marked \in BOOLEAN
      BY <3>2
    <3> HIDE DEF marked
    <3>4. [uid |-> uids + 1, policy |-> PolicyOf[n], desired |-> "Running",
           phase |-> "Scheduled", reason |-> "none", bound |-> TRUE, deleting |-> FALSE,
           finalizer |-> marked] \in Row
      BY <3>1, <3>3 DEF Row, Phase
    <3> QED
      BY <2>2, <3>4, NoRowAssumption DEF marked
  <2> QED
    BY <2>2, <2>3 DEF create, runtime
<1>t. Typed
  BY DEF IInv
<1>1. Fresh'
  BY <1>0, <1>t, Types DEF IInv, Fresh
<1>2. OneName'
  BY <1>0, <1>t, Types DEF IInv, OneName, Fresh
<1>f. \A m \in Names : pass.listed[m] # NoRow => pass.listed[m].uid # uids + 1
  BY <1>t, Types DEF IInv, Fresh
<1>g. uids + 1 \notin pass.reap /\ (uids + 1 \in Uids => inst[uids + 1] = "none") /\ uids + 1 \in Uids
  BY <1>t, Types, BoundsAssumption DEF IInv, Fresh, create, Uids, Typed, TypeOK
<1>3. Rows'
  BY <1>0, <1>f DEF IInv, Rows
<1>4. Planned'
  BY <1>0 DEF IInv, Planned
<1>5. Cleaned'
  BY <1>0 DEF IInv, Cleaned
<1>6. Listing'
  BY <1>0, <1>f, <1>g DEF IInv, Listing, Exited
<1>7. Orphaned'
  BY <1>0, <1>g DEF IInv, Orphaned
<1>8. Ended'
  BY <1>0, <1>g, WatchedFact DEF IInv, Ended, Exited, is_terminal
<1> QED
  BY <1>1, <1>2, <1>3, <1>4, <1>5, <1>6, <1>7, <1>8 DEF Others

LEMMA UsersKeep == ASSUME IInv, Users PROVE Others'
<1>t. Typed /\ row \in [Names -> Row \cup {NoRow}]
  BY DEF IInv, Typed, TypeOK
<1>1. ASSUME NEW n \in Names, delete(n) PROVE Others'
  <2>1. /\ row[n] \in Row /\ \A m \in Names : m # n => row'[m] = row[m]
        /\ row'[n] = IF row[n].finalizer THEN [row[n] EXCEPT !.deleting = TRUE] ELSE NoRow
    BY <1>1, <1>t DEF delete
  <2>2. UNCHANGED <<uids, inst, ended, leaked, pass>> /\ row[n] # NoRow
    BY <1>1 DEF delete, runtime
  <2>3. row[n].bound \/ (n \in Reschedulable /\ row[n].phase = "Pending")
    BY <2>2 DEF IInv, Rows
  <2>4. CASE row[n].finalizer
    <3>1. row'[n] = [row[n] EXCEPT !.deleting = TRUE] /\ row'[n] \in Row
      BY <2>1, <2>4 DEF Row
    <3>2. row'[n] # NoRow
      BY <3>1, NoRowAssumption
    <3>3. Edits(n)
      BY <2>1, <2>2, <2>3, <3>1, <3>2 DEF Edits, Row
    <3> QED
      BY <3>3, RowEdited
  <2>5. CASE ~row[n].finalizer
    <3>1. row'[n] = NoRow
      BY <2>1, <2>5
    <3>2. Edits(n)
      BY <2>1, <2>2, <2>5, <3>1 DEF Edits
    <3> QED
      BY <3>2, RowEdited
  <2> QED
    BY <2>4, <2>5
<1>2. ASSUME NEW n \in Names, Evict(n) PROVE Others'
  <2>1. /\ row[n] \in Row /\ row[n].bound /\ \A m \in Names : m # n => row'[m] = row[m]
        /\ row'[n] = IF n \in Reschedulable
                     THEN [row[n] EXCEPT !.phase = "Pending", !.bound = FALSE, !.reason = "NodeLost"]
                     ELSE [row[n] EXCEPT !.phase = "Unknown", !.reason = "NodeLost"]
    BY <1>2, <1>t DEF Evict
  <2>2. UNCHANGED <<uids, inst, ended, leaked, pass>> /\ row[n] # NoRow
    BY <1>2 DEF Evict, runtime
  <2>3. row'[n] \in Row
    BY <2>1 DEF Row, Phase
  <2>4. row'[n] # NoRow
    BY <2>3, NoRowAssumption
  <2>5. Edits(n)
    BY <2>1, <2>2, <2>4 DEF Edits, Row
  <2> QED
    BY <2>5, RowEdited
<1>3. ASSUME NEW n \in Names, Bind(n) PROVE Others'
  <2>1. /\ row[n] \in Row /\ \A m \in Names : m # n => row'[m] = row[m]
        /\ row'[n] = [row[n] EXCEPT !.phase = "Scheduled", !.bound = TRUE, !.reason = "none"]
    BY <1>3, <1>t DEF Bind
  <2>2. UNCHANGED <<uids, inst, ended, leaked, pass>> /\ row[n] # NoRow
    BY <1>3 DEF Bind, runtime
  <2>3. row'[n] \in Row
    BY <2>1 DEF Row, Phase
  <2>4. row'[n] # NoRow
    BY <2>3, NoRowAssumption
  <2>5. Edits(n)
    BY <2>1, <2>2, <2>4 DEF Edits, Row
  <2> QED
    BY <2>5, RowEdited
<1>4. ASSUME NEW n \in Names, NEW d \in {"Running", "Hibernated"}, set_desired_state(n, d)
      PROVE  Others'
  <2>1. /\ row[n] \in Row /\ n \in Sleepers /\ \A m \in Names : m # n => row'[m] = row[m]
        /\ row'[n] = [row[n] EXCEPT !.desired = d]
    BY <1>4, <1>t DEF set_desired_state
  <2>2. UNCHANGED <<uids, inst, ended, leaked, pass>> /\ row[n] # NoRow
    BY <1>4 DEF set_desired_state, runtime
  <2>3. row'[n] \in Row
    BY <2>1 DEF Row
  <2>4. row[n].bound \/ (n \in Reschedulable /\ row[n].phase = "Pending")
    BY <2>2 DEF IInv, Rows
  <2>5. row'[n] # NoRow
    BY <2>3, NoRowAssumption
  <2>6. Edits(n)
    BY <2>1, <2>2, <2>4, <2>5 DEF Edits, Row
  <2> QED
    BY <2>6, RowEdited
<1> QED
  BY <1>1, <1>2, <1>3, <1>4, Created DEF Users

\* A pass that has ended, or was cut short.
LEMMA PassEnds ==
  ASSUME IInv, NEW pc \in {"idle", "renew"}, pass' = Waiting(pc), UNCHANGED <<server, inst, ended, leaked>>
  PROVE  Others'
<1>1. /\ pass'.pc = pc /\ pass'.listed = NoRows /\ pass'.plan = NoPlan /\ pass'.reap = {}
      /\ UNCHANGED <<row, uids, inst, ended, leaked>>
  BY DEF Waiting, At, server
<1>2. Fresh' /\ OneName'
  BY <1>1 DEF IInv, Fresh, OneName, NoRows
<1>3. Rows' /\ Planned' /\ Cleaned' /\ Listing' /\ Orphaned'
  BY <1>1 DEF IInv, Rows, Planned, Cleaned, Listing, Orphaned, NoRows, NoPlan
<1>4. Ended'
  BY <1>1, WatchedFact DEF IInv, Ended, Exited, NoRows
<1> QED
  BY <1>2, <1>3, <1>4 DEF Others

LEMMA MachineKeeps == ASSUME IInv, Machine PROVE Others'
<1>t. Typed /\ inst \in [Uids -> InstanceState]
  BY DEF IInv, Typed, TypeOK
<1>1. ASSUME NEW u \in Uids, Exit(u) PROVE Others'
  <2>1. /\ inst[u] = "Running" /\ inst'[u] \in {"Zero", "NonZero"} /\ ended' = ended \cup {u}
        /\ \A v \in Uids : v # u => inst'[v] = inst[v]
        /\ UNCHANGED <<row, uids, leaked, pass>>
    BY <1>1, <1>t DEF Exit, server
  <2>2. Fresh' /\ OneName' /\ Rows'
    BY <2>1 DEF IInv, Fresh, OneName, Rows
  <2>3. Planned'
    BY <2>1, <1>t, Types DEF IInv, Planned, Typed, Targets
  <2>4. Cleaned'
    BY <2>1, <1>t DEF IInv, Cleaned, TypeOK, Typed, Targets, Busy, Row
  <2>5. Listing'
    BY <2>1, <1>t, Types, WatchedFact DEF IInv, Listing, Exited
  <2>6. Orphaned'
    BY <2>1 DEF IInv, Orphaned
  <2>7. Ended'
    BY <2>1, <1>t, Types, WatchedFact DEF IInv, Ended, Exited
  <2> QED
    BY <2>2, <2>3, <2>4, <2>5, <2>6, <2>7 DEF Others
<1>2. ASSUME NEW u \in Uids, Prune(u) PROVE Others'
  <2>1. /\ inst'[u] = "none" /\ leaked' = leaked \ {u}
        /\ \A v \in Uids : v # u => inst'[v] = inst[v]
        /\ UNCHANGED <<row, uids, ended, pass>>
    BY <1>2, <1>t DEF Prune, server
  <2>2. Fresh' /\ OneName' /\ Rows'
    BY <2>1 DEF IInv, Fresh, OneName, Rows
  <2>3. Planned'
    BY <2>1, <1>t, Types DEF IInv, Planned, Typed, Targets
  <2>4. Cleaned'
    BY <2>1, <1>t DEF IInv, Cleaned, TypeOK, Typed, Targets, Busy, Row
  <2>5. Listing'
    BY <2>1, <1>t, Types, WatchedFact DEF IInv, Listing, Exited
  <2>6. Orphaned'
    BY <2>1 DEF IInv, Orphaned
  <2>7. Ended'
    BY <2>1, <1>t, Types, WatchedFact DEF IInv, Ended, Exited
  <2> QED
    BY <2>2, <2>3, <2>4, <2>5, <2>6, <2>7 DEF Others
<1>3. CASE Outage \/ Mend \/ LeaseLapses
  BY <1>3, Untouched DEF Outage, Mend, LeaseLapses, server, runtime
<1>4. CASE Crash
  BY <1>4, PassEnds DEF Crash, runtime
<1> QED
  BY <1>1, <1>2, <1>3, <1>4 DEF Machine

------------------------------------------------------------------------------
(* Steps of a pass between its calls.                                        *)

LEMMA ListAssignedKeeps == ASSUME IInv, ListAssigned PROVE Others'
<1> DEFINE l == [n \in Names |-> IF row[n] # NoRow /\ row[n].bound THEN row[n] ELSE NoRow]
<1>1. /\ pass'.pc = "listed" /\ pass'.listed = l /\ pass'.plan = NoPlan /\ pass'.reap = {}
      /\ pass'.who = NoName
      /\ UNCHANGED <<row, uids, inst, ended, leaked>>
  BY DEF ListAssigned, Waiting, At, server, runtime
<1>2. /\ \A n \in Names : l[n] # NoRow => l[n] = row[n]
      /\ \A n \in Names : l[n] = NoRow /\ row[n] # NoRow => ~row[n].bound
  OBVIOUS
<1> HIDE DEF l
<1>t. Typed
  BY DEF IInv
<1>3. Fresh'
  BY <1>1, <1>2 DEF IInv, Fresh
<1>4. OneName'
  BY <1>1, <1>2 DEF IInv, OneName
<1>5. Rows'
  BY <1>1, <1>2 DEF IInv, Rows
<1>6. Planned' /\ Cleaned' /\ Orphaned'
  BY <1>1 DEF Planned, Cleaned, Orphaned, NoPlan
<1>7. Listing'
  <2>1. \A n \in Names : row[n] # NoRow =>
          l[n] = row[n] \/ (l[n] = NoRow /\ n \in Reschedulable /\ row[n].phase = "Pending")
    BY <1>2 DEF IInv, Rows
  <2>2. \A n \in Watched : l[n] # NoRow => (~l[n].deleting => (Exited(l[n].uid) => l[n].uid \in ended))
    BY <1>2, WatchedFact DEF IInv, Ended
  <2>3. \A u : Exited(u)' <=> Exited(u)
    BY <1>1 DEF Exited
  <2> QED
    BY <1>1, <2>1, <2>2, <2>3 DEF Listing
<1>8. Ended'
  BY <1>1, <1>2, WatchedFact DEF IInv, Ended, Exited
<1> QED
  BY <1>3, <1>4, <1>5, <1>6, <1>7, <1>8 DEF Others

\* What each action of the decision table says of the row that it is decided for.
LEMMA Decided ==
  ASSUME NEW d \in Row, NEW o \in InstanceState, NEW a, a = reconcile(d, o)
  PROVE  /\ a \in {"Cleanup", "ClearFinalizer"} => d.deleting
         /\ a = "ClearFinalizer" => o = "none"
         /\ a = "Hibernate" => d.desired = "Hibernated"
         /\ a = "Restart" => d.phase # "Hibernated"
         /\ a \in {"ReportSucceeded", "ReportFailed"} => ~d.deleting /\ o \in {"Zero", "NonZero"}
BY DEF reconcile, ForDeleted, ForAsleep, ForAwake, ForExited, terminal_report, InstanceState

LEMMA ListInstancesKeeps == ASSUME IInv, ListInstances PROVE Others'
<1> DEFINE p == Plan(pass.listed)
           k == Kept(pass.listed, p)
<1>t. Typed /\ pass.pc = "listed"
  BY DEF IInv, ListInstances
<1>0. CASE pass' = Waiting("idle")
  BY <1>0, PassEnds DEF ListInstances, runtime
<1>1. CASE pass' = Between(k, p, Orphans(pass.listed))
  <2>1. /\ pass'.pc = "between" /\ pass'.listed = k /\ pass'.plan = p
        /\ pass'.reap = Orphans(pass.listed)
        /\ UNCHANGED <<row, uids, inst, ended, leaked>>
    BY <1>1 DEF ListInstances, Between, At, server, runtime
  <2>2. \A n \in Names : (k[n] = pass.listed[n] /\ pass.listed[n] # NoRow) \/ k[n] = NoRow
    BY DEF Kept
  <2>3. ASSUME NEW n \in Names, p[n] # "none"
        PROVE  /\ pass.listed[n] # NoRow /\ k[n] = pass.listed[n]
               /\ p[n] = reconcile(pass.listed[n], inst[pass.listed[n].uid])
    BY <2>3 DEF Plan, Kept
  <2>4. \A u \in Orphans(pass.listed) :
          /\ u \in Uids /\ inst[u] # "none"
          /\ \A n \in Names : pass.listed[n] # NoRow => pass.listed[n].uid # u
    BY DEF Orphans
  <2> HIDE DEF p, k
  <2>5. Fresh' /\ OneName'
    BY <2>1, <2>2, <2>4 DEF IInv, Fresh, OneName
  <2>6. Rows'
    BY <2>1, <2>2 DEF IInv, Rows
  <2>7. Planned'
    <3>1. SUFFICES ASSUME NEW n \in Names, p[n] # "none"
                   PROVE  LET d == pass.listed[n] IN
                          /\ p[n] \in {"Cleanup", "ClearFinalizer"} => d.deleting
                          /\ p[n] = "ClearFinalizer" => inst[d.uid] = "none"
                          /\ p[n] = "Hibernate" => d.desired = "Hibernated"
                          /\ p[n] = "Restart" => /\ d.phase # "Hibernated"
                                                 /\ row[n] # NoRow => row[n].phase # "Hibernated"
                          /\ p[n] \in {"ReportSucceeded", "ReportFailed"} /\ n \in Watched
                               => d.uid \in ended
      BY <2>1, <2>3 DEF Planned
    <3> DEFINE d == pass.listed[n]
    <3>2. d \in Row /\ inst[d.uid] \in InstanceState /\ d # NoRow /\ p[n] = reconcile(d, inst[d.uid])
      BY <1>t, <2>3, <3>1, Types
    <3>3. /\ p[n] \in {"Cleanup", "ClearFinalizer"} => d.deleting
          /\ p[n] = "ClearFinalizer" => inst[d.uid] = "none"
          /\ p[n] = "Hibernate" => d.desired = "Hibernated"
          /\ p[n] = "Restart" => d.phase # "Hibernated"
          /\ p[n] \in {"ReportSucceeded", "ReportFailed"}
               => ~d.deleting /\ inst[d.uid] \in {"Zero", "NonZero"}
      BY <3>2, Decided
    <3>4. /\ row[n] # NoRow /\ row[n].phase = "Hibernated" => d.phase = "Hibernated"
          /\ n \in Watched /\ ~d.deleting => (Exited(d.uid) => d.uid \in ended)
      BY <1>t, <3>1, <3>2 DEF IInv, Listing
    <3> QED
      BY <3>3, <3>4 DEF Exited
  <2>8. Cleaned' /\ Listing'
    BY <2>1 DEF Cleaned, Listing
  <2>9. Orphaned'
    BY <1>t, <2>1, <2>2, <2>4 DEF IInv, Listing, Orphaned
  <2>10. Ended'
    BY <2>1, <2>2, WatchedFact DEF IInv, Ended, Exited
  <2> QED
    BY <2>5, <2>6, <2>7, <2>8, <2>9, <2>10 DEF Others
<1> QED
  BY <1>0, <1>1 DEF ListInstances

\* The pass takes up its next action, or has a call's answer: the lists stay.
LEMMA PassTurns ==
  ASSUME IInv, UNCHANGED <<row, uids, inst, ended, leaked>>,
         pass'.listed = pass.listed, pass'.plan = pass.plan, pass'.reap = pass.reap,
         pass'.pc \in {"acting", "failing"}, Cleaned'
  PROVE  Others'
<1>1. Fresh' /\ OneName' /\ Rows' /\ Planned' /\ Listing' /\ Orphaned'
  BY DEF IInv, Fresh, OneName, Rows, Planned, Listing, Orphaned
<1>2. Ended'
  BY WatchedFact DEF IInv, Ended, Exited
<1> QED
  BY <1>1, <1>2 DEF Others

LEMMA BeginKeeps ==
  ASSUME IInv, (\E n \in Names : Begin(n)) \/ (\E u \in Uids : BeginReap(u)) PROVE Others'
<1>t. Typed /\ TypeOK /\ Planned
  BY DEF IInv, Typed
<1>1. ASSUME NEW n \in Names, Begin(n) PROVE Others'
  <2>1. /\ pass'.pc = "acting" /\ pass'.uid = pass.listed[n].uid
        /\ pass'.call = FirstCall(pass.plan[n]) /\ pass.plan[n] # "none"
        /\ pass'.listed = pass.listed /\ pass'.plan = pass.plan /\ pass'.reap = pass.reap
        /\ UNCHANGED <<row, uids, inst, ended, leaked>>
    BY <1>1, <1>t DEF Begin, TypeOK, server, runtime
  <2>2. pass'.call \in {"get", "replace"} => pass.plan[n] = "ClearFinalizer"
    BY <2>1 DEF FirstCall
  <2>3. Cleaned'
    BY <1>t, <2>1, <2>2 DEF Cleaned, Planned
  <2> QED
    BY <2>1, <2>3, PassTurns
<1>2. ASSUME NEW u \in Uids, BeginReap(u) PROVE Others'
  <2>1. /\ pass'.pc = "acting" /\ pass'.call = "stop"
        /\ pass'.listed = pass.listed /\ pass'.plan = pass.plan /\ pass'.reap = pass.reap
        /\ UNCHANGED <<row, uids, inst, ended, leaked>>
    BY <1>2, <1>t DEF BeginReap, FirstCall, TypeOK, server, runtime
  <2>2. Cleaned'
    BY <2>1 DEF Cleaned
  <2> QED
    BY <2>1, <2>2, PassTurns
<1> QED
  BY <1>1, <1>2

LEMMA PassesKeep ==
  ASSUME IInv,
         \/ ListAssigned \/ ListInstances \/ EndPass \/ ensure_ready \/ renew_lease
         \/ \E n \in Names : Begin(n)
         \/ \E u \in Uids : BeginReap(u)
  PROVE  Others'
<1>1. CASE ensure_ready
  <2>1. CASE pass' = pass
    BY <1>1, <2>1, Untouched DEF ensure_ready, server
  <2>2. CASE pass' = Waiting("renew")
    BY <1>1, <2>2, PassEnds DEF ensure_ready
  <2> QED
    BY <1>1, <2>1, <2>2 DEF ensure_ready
<1>2. CASE EndPass \/ renew_lease
  BY <1>2, PassEnds DEF EndPass, renew_lease, runtime
<1> QED
  BY <1>1, <1>2, ListAssignedKeeps, ListInstancesKeeps, BeginKeeps

------------------------------------------------------------------------------
(* The calls of an action.                                                   *)

\* What is left of a pass: an action that is over takes its target off the lists.
Shrinks ==
  /\ \A n \in Names : \/ pass'.listed[n] = pass.listed[n] /\ pass'.plan[n] = pass.plan[n]
                      \/ pass'.listed[n] = NoRow /\ pass'.plan[n] = "none"
  /\ pass'.reap \subseteq pass.reap
  /\ pass'.pc \in {"between", "acting", "failing"}

LEMMA OverShrinks ==
  ASSUME Typed, pass' = Over
  PROVE  /\ Shrinks /\ pass'.pc = "between"
         /\ pass.who \in Names => pass'.listed[pass.who] = NoRow /\ pass'.plan[pass.who] = "none"
BY DEF Over, Between, At, Shrinks

LEMMA ProceedShrinks ==
  ASSUME Typed, pass.pc = "acting", Proceed
  PROVE  /\ Shrinks
         /\ pass'.pc = "acting" => /\ pass'.call = NextCall(pass.act, pass.call, Finalizes)
                                   /\ pass'.uid = pass.uid
<1>1. CASE pass' = Over
  BY <1>1, OverShrinks
<1>2. CASE pass' = [pass EXCEPT !.call = NextCall(pass.act, pass.call, Finalizes)]
  BY <1>2 DEF Typed, TypeOK, Shrinks
<1> QED
  BY <1>1, <1>2 DEF Proceed

LEMMA FailShrinks ==
  ASSUME Typed, pass.pc = "acting", Fail PROVE Shrinks /\ pass'.pc # "acting"
<1>1. CASE pass' = Over
  BY <1>1, OverShrinks
<1>2. CASE pass' = [pass EXCEPT !.pc = "failing"]
  BY <1>2 DEF Typed, TypeOK, Shrinks
<1> QED
  BY <1>1, <1>2 DEF Fail

\* A call that changes the instance of u, or nothing but the pass.  What is gone
\* comes back only if nobody is to be told that it is gone; what runs is stopped only
\* if no watched container claims it.
Touches(u) ==
  /\ u \in Uids /\ u <= uids /\ UNCHANGED <<row, uids, ended>>
  /\ \A v \in Uids : v # u => inst'[v] = inst[v]
  /\ \A n \in Names : pass.plan[n] = "ClearFinalizer" /\ pass.listed[n].uid = u
                        /\ inst[u] = "none" => inst'[u] = "none"
  /\ \A n \in Watched : row[n] # NoRow /\ row[n].uid = u /\ ~row[n].deleting
                          /\ inst'[u] \in {"Zero", "NonZero"} => inst[u] \in {"Zero", "NonZero"}

LEMMA InstanceCalled ==
  ASSUME IInv, Shrinks, Cleaned', NEW u, Touches(u)
  PROVE  Others'
<1>t. Typed
  BY DEF IInv
<1>1. Fresh'
  BY DEF IInv, Fresh, Shrinks, Touches
<1>2. OneName'
  BY DEF IInv, OneName, Shrinks, Touches
<1>3. Rows'
  BY DEF IInv, Rows, Shrinks, Touches
<1>4. Planned'
  <2>1. ASSUME NEW n \in Names, pass'.plan[n] # "none"
        PROVE  /\ pass.plan[n] = pass'.plan[n] /\ pass.listed[n] = pass'.listed[n]
               /\ pass.listed[n] # NoRow /\ pass.listed[n].uid \in Uids
    BY <1>t, <2>1, Types DEF Shrinks, Typed, Targets
  <2> QED
    BY <2>1 DEF IInv, Planned, Touches
<1>6. Listing'
  BY DEF Listing, Shrinks
<1>7. Orphaned'
  BY DEF IInv, Orphaned, Shrinks, Touches
<1>8. Ended'
  <2>1. ASSUME NEW n \in Watched, row[n] # NoRow
        PROVE  row[n].uid \in Uids /\ n \in Names
    BY <1>t, <2>1, Types, WatchedFact
  <2>2. \A v \in Uids : v # u => (Exited(v)' <=> Exited(v))
    BY DEF Exited, Touches
  <2>3. ASSUME NEW n \in Watched, row[n] # NoRow, ~row[n].deleting, Exited(row[n].uid)'
        PROVE  row[n].uid \in ended
    BY <2>1, <2>2, <2>3 DEF IInv, Ended, Exited, Touches
  <2>4. \A n \in Watched : pass'.listed[n] # NoRow => pass'.listed[n] = pass.listed[n]
    BY WatchedFact DEF Shrinks
  <2> QED
    BY <2>3, <2>4 DEF IInv, Ended, Touches
<1> QED
  BY <1>1, <1>2, <1>3, <1>4, <1>6, <1>7, <1>8 DEF Others

\* A call that writes the target's row, and what it may write over it.
Puts(n) ==
  /\ UNCHANGED <<uids, inst, ended, leaked>>
  /\ row[n] # NoRow /\ pass.listed[n] # NoRow
  /\ \A m \in Names : m # n => row'[m] = row[m]
  /\ row'[n] = NoRow => n \in Overwritten \/ pass'.listed[n] = NoRow
  /\ row'[n] # NoRow =>
       /\ row'[n].uid = row[n].uid /\ row'[n].deleting = row[n].deleting
       /\ row'[n].desired = row[n].desired
       /\ row'[n].finalizer = row[n].finalizer \/ (row'[n].finalizer = FALSE /\ n \in Overwritten)
       /\ row'[n].bound \/ (row'[n].bound = row[n].bound /\ row'[n].phase = row[n].phase)
       /\ \/ row'[n].phase = row[n].phase
          \/ /\ row'[n].phase = "Hibernated" => pass'.plan[n] # "Restart"
             /\ is_terminal(row'[n].phase) /\ n \in Watched => pass.listed[n].uid \in ended

LEMMA RowCalled ==
  ASSUME IInv, Shrinks, Cleaned', NEW n \in Names, Puts(n)
  PROVE  Others'
<1>1. Fresh'
  BY DEF IInv, Fresh, Shrinks, Puts
<1>2. OneName'
  BY DEF IInv, OneName, Shrinks, Puts
<1>3. Rows'
  BY DEF IInv, Rows, Shrinks, Puts
<1>4. Planned'
  BY DEF IInv, Planned, Shrinks, Puts
<1>6. Listing'
  BY DEF Listing, Shrinks
<1>7. Orphaned'
  BY DEF IInv, Orphaned, Shrinks, Puts
<1>8. Ended'
  <2>1. n \in Watched => row[n].uid = pass.listed[n].uid
    BY WatchedFact DEF IInv, Rows, Puts
  <2>2. \A m \in Watched : pass'.listed[m] # NoRow => pass'.listed[m] = pass.listed[m]
    BY WatchedFact DEF Shrinks
  <2> QED
    BY <2>1, <2>2, WatchedFact DEF IInv, Ended, Exited, Puts
<1> QED
  BY <1>1, <1>2, <1>3, <1>4, <1>6, <1>7, <1>8 DEF Others

\* The target's uid is one that has been given out.
LEMMA TargetUid ==
  ASSUME IInv, Busy(pass)
  PROVE  /\ pass.uid \in Uids /\ pass.uid <= uids
         /\ pass.act # "Reap" => /\ pass.who \in Names /\ pass.plan[pass.who] = pass.act
                                 /\ pass.listed[pass.who] # NoRow
                                 /\ pass.listed[pass.who].uid = pass.uid
         /\ pass.act = "Reap" => pass.uid \in pass.reap
<1>t. Typed
  BY DEF IInv
<1>1. CASE pass.who = NoName
  BY <1>t, <1>1, Types DEF IInv, Fresh, Typed, Targets
<1>2. CASE pass.who # NoName
  <2>1. pass.who \in Names /\ pass.plan[pass.who] = pass.act /\ pass.listed[pass.who] # NoRow
        /\ pass.listed[pass.who].uid = pass.uid /\ pass.act # "Reap"
    BY <1>t, <1>2 DEF Typed, Targets, TypeOK
  <2> QED
    BY <1>t, <2>1, Types DEF IInv, Fresh
<1> QED
  BY <1>1, <1>2

LEMMA LaunchKeeps == ASSUME IInv, CallRun \/ CallStart PROVE Others'
<1>t. Typed /\ pass.pc = "acting" /\ (Proceed \/ Fail) /\ inst \in [Uids -> InstanceState]
  BY DEF IInv, CallRun, CallStart, Calls, Typed, TypeOK
<1>1. UNCHANGED <<row, uids, ended, leaked>> /\ pass.call \in {"run", "start"}
  BY DEF CallRun, CallStart, Calls, server
<1>2. pass.act \in {"Start", "Restart", "Resume"}
  BY <1>t, <1>1 DEF Typed, Targets, CallsOf
<1>3. pass.uid \in Uids /\ pass.uid <= uids /\ pass.who \in Names
      /\ pass.plan[pass.who] = pass.act /\ pass.listed[pass.who] # NoRow
      /\ pass.listed[pass.who].uid = pass.uid
  BY <1>t, <1>2, TargetUid DEF Busy
<1>4. inst' = inst \/ inst' = [inst EXCEPT ![pass.uid] = "Running"]
  BY DEF CallRun, CallStart
<1>5. Shrinks
  BY <1>t, ProceedShrinks, FailShrinks
<1>6. Cleaned'
  <2>1. pass'.pc = "acting" => pass'.call = NextCall(pass.act, pass.call, Finalizes)
    BY <1>t, ProceedShrinks, FailShrinks
  <2>2. NextCall(pass.act, pass.call, Finalizes) = "put"
    BY <1>1 DEF NextCall
  <2> QED
    BY <2>1, <2>2 DEF Cleaned
<1>7. ASSUME NEW n \in Names, pass.plan[n] = "ClearFinalizer", pass.listed[n].uid = pass.uid
      PROVE  FALSE
  <2>1. n # pass.who /\ pass.listed[n] # NoRow
    BY <1>t, <1>2, <1>3, <1>7 DEF Typed, Targets
  <2> QED
    BY <1>3, <1>7, <2>1 DEF IInv, OneName
<1>8. Touches(pass.uid)
  <2>1. \A v \in Uids : v # pass.uid => inst'[v] = inst[v]
    BY <1>t, <1>4
  <2>2. inst'[pass.uid] = inst[pass.uid] \/ inst'[pass.uid] = "Running"
    BY <1>t, <1>3, <1>4
  <2> QED
    BY <1>1, <1>3, <1>7, <2>1, <2>2 DEF Touches
<1> QED
  BY <1>5, <1>6, <1>8, InstanceCalled

\* What a stop or a removal that may have failed leaves.
LEMMA BestEffortLeaves ==
  ASSUME Typed, pass.uid \in Uids, NEW state \in InstanceState, BestEffort(state)
  PROVE  /\ \A v \in Uids : v # pass.uid => inst'[v] = inst[v]
         /\ \/ inst'[pass.uid] = inst[pass.uid] /\ pass.uid \in leaked'
            \/ inst'[pass.uid] = state
BY DEF BestEffort, Typed, TypeOK

LEMMA CallStopKeeps == ASSUME IInv, CallStop PROVE Others'
<1>t. Typed /\ Busy(pass) /\ pass.pc = "acting" /\ pass.call = "stop" /\ Proceed
  BY DEF IInv, CallStop, Calls, Busy
<1>1. pass.act \in {"Hibernate", "Cleanup", "Reap"}
  BY <1>t DEF Typed, TypeOK, Targets, CallsOf, Act
<1>2. PICK u \in Uids : u = pass.uid
  BY <1>t, TargetUid
<1>3. /\ \A v \in Uids : v # u => inst'[v] = inst[v]
      /\ inst'[u] = inst[u] \/ (inst[u] = "Running" /\ inst'[u] = "Zero")
  <2> DEFINE state == IF inst[pass.uid] = "Running" THEN "Zero" ELSE inst[pass.uid]
  <2>1. state \in InstanceState /\ BestEffort(state)
    BY <1>t, <1>2, Types DEF CallStop, InstanceState
  <2> HIDE DEF state
  <2>2. /\ \A v \in Uids : v # pass.uid => inst'[v] = inst[v]
        /\ inst'[pass.uid] = inst[pass.uid] \/ inst'[pass.uid] = state
    BY <1>t, <1>2, <2>1, BestEffortLeaves
  <2> QED
    BY <1>2, <2>2 DEF state
<1>4. Shrinks
  BY <1>t, ProceedShrinks
<1>5. Cleaned'
  <2>1. NextCall(pass.act, pass.call, Finalizes) \in {"put", "remove"}
    BY <1>t DEF NextCall
  <2> QED
    BY <1>t, <2>1, ProceedShrinks DEF Cleaned
<1>6. ASSUME NEW n \in Watched, row[n] # NoRow, row[n].uid = u, ~row[n].deleting PROVE FALSE
  <2>1. n \in Names /\ n \in Finalized /\ n \notin Reschedulable /\ n \notin Overwritten
    BY <1>6, WatchedFact
  <2>2. CASE pass.act = "Reap"
    BY <1>t, <1>2, <1>6, <2>1, <2>2, TargetUid DEF IInv, Orphaned
  <2>3. CASE pass.act # "Reap"
    <3>1. pass.who \in Names /\ pass.plan[pass.who] = pass.act
          /\ pass.listed[pass.who] # NoRow /\ pass.listed[pass.who].uid = pass.uid
      BY <1>t, <2>3, TargetUid
    <3>2. pass.who = n
      BY <1>2, <1>6, <2>1, <3>1 DEF IInv, OneName
    <3>3. pass.act = "Hibernate" => pass.listed[n].desired = "Hibernated"
      BY <2>1, <3>1, <3>2 DEF IInv, Planned
    <3>4. pass.listed[n].desired = "Running"
      BY <1>6, <3>1, <3>2 DEF IInv, Ended
    <3>5. pass.act = "Cleanup" => row[n].deleting
      BY <1>2, <1>6, <2>1, <3>1, <3>2 DEF IInv, Planned, Rows
    <3> QED
      BY <1>1, <1>6, <2>3, <3>3, <3>4, <3>5
  <2> QED
    BY <2>2, <2>3
<1>7. Touches(u)
  <2>1. u <= uids /\ UNCHANGED <<row, uids, ended>>
    BY <1>t, <1>2, TargetUid DEF CallStop, server
  <2> QED
    BY <1>2, <1>3, <1>6, <2>1 DEF Touches
<1> QED
  BY <1>4, <1>5, <1>7, InstanceCalled

LEMMA CallRemoveKeeps == ASSUME IInv, CallRemove PROVE Others'
<1>t. Typed /\ Busy(pass) /\ pass.pc = "acting" /\ Proceed /\ BestEffort("none")
  BY DEF IInv, CallRemove, Calls, Busy
<1>2. PICK u \in Uids : u = pass.uid
  BY <1>t, TargetUid
<1>3. /\ \A v \in Uids : v # u => inst'[v] = inst[v]
      /\ (inst'[u] = inst[u] /\ u \in leaked') \/ inst'[u] = "none"
  BY <1>t, <1>2, BestEffortLeaves DEF InstanceState
<1>4. Shrinks
  BY <1>t, ProceedShrinks
<1>5. Cleaned'
  BY <1>t, <1>2, <1>3, ProceedShrinks DEF Cleaned
<1>7. Touches(u)
  <2>1. u <= uids /\ UNCHANGED <<row, uids, ended>>
    BY <1>t, <1>2, TargetUid DEF CallRemove, server
  <2> QED
    BY <1>2, <1>3, <2>1 DEF Touches
<1> QED
  BY <1>4, <1>5, <1>7, InstanceCalled

\* What Written leaves of a row.
LEMMA WrittenRow ==
  ASSUME Typed, NEW n \in Names, row[n] # NoRow, NEW phase \in Phase,
         NEW reason \in {"none", "NodeLost"} \cup FailureReason, Written(n, phase, reason)
  PROVE  /\ \A m \in Names : m # n => row'[m] = row[m]
         /\ row'[n].uid = row[n].uid /\ row'[n].deleting = row[n].deleting
         /\ row'[n].desired = row[n].desired /\ row'[n].finalizer = row[n].finalizer
         /\ row'[n].bound = TRUE /\ row'[n].phase = phase /\ row'[n] # NoRow
<1>1. row[n] \in Row /\ row \in [Names -> Row \cup {NoRow}]
  BY DEF Typed, TypeOK
<1>2. row' = [row EXCEPT ![n] = [row[n] EXCEPT !.phase = phase, !.reason = reason, !.bound = TRUE]]
  BY DEF Written
<1>3. [row[n] EXCEPT !.phase = phase, !.reason = reason, !.bound = TRUE] \in Row
  BY <1>1, EditType
<1>4. \A m \in Names : m # n => row'[m] = row[m]
  BY <1>1, <1>2
<1>5. row'[n] = [row[n] EXCEPT !.phase = phase, !.reason = reason, !.bound = TRUE]
  BY <1>1, <1>2
<1>6. row'[n] # NoRow
  BY <1>3, <1>5, NoRowAssumption
<1> QED
  BY <1>1, <1>4, <1>5, <1>6 DEF Row

\* A call that leaves rows and instances alone.
LEMMA PassCalled ==
  ASSUME IInv, UNCHANGED <<row, uids, inst, ended, leaked>>, Shrinks, Cleaned',
         pass.uid \in Uids, pass.uid <= uids
  PROVE  Others'
<1>1. PICK u \in Uids : u = pass.uid
  OBVIOUS
<1>2. Touches(u)
  BY <1>1 DEF Touches
<1> QED
  BY <1>2, InstanceCalled

LEMMA PutStatusKeeps == ASSUME IInv, PutStatus PROVE Others'
<1>t. Typed /\ Busy(pass) /\ pass.pc = "acting" /\ pass.call = "put" /\ (Proceed \/ Fail)
  BY DEF IInv, PutStatus, Calls, Busy
<1>1. pass.act \in {"Start", "Restart", "Resume", "Hibernate", "ReportRunning",
                    "ReportSucceeded", "ReportFailed", "ReportHibernated"}
  BY <1>t DEF Typed, TypeOK, Targets, CallsOf, Act
<1>2. /\ pass.uid \in Uids /\ pass.uid <= uids
      /\ pass.who \in Names /\ pass.plan[pass.who] = pass.act
      /\ pass.listed[pass.who] # NoRow /\ pass.listed[pass.who].uid = pass.uid
  BY <1>t, <1>1, TargetUid
<1>3. UNCHANGED <<uids, inst, ended, leaked>>
  BY DEF PutStatus, runtime
<1>4. Shrinks
  BY <1>t, ProceedShrinks, FailShrinks
<1>5. Cleaned'
  <2>1. Proceed => pass' = Over
    BY <1>t DEF Proceed, NextCall
  <2>2. pass'.pc # "acting"
    BY <1>t, <2>1, OverShrinks, FailShrinks
  <2> QED
    BY <2>2 DEF Cleaned
<1>6. CASE UNCHANGED row
  BY <1>2, <1>3, <1>4, <1>5, <1>6, PassCalled
<1>7. CASE row[pass.who] # NoRow /\ Written(pass.who, PhaseOf(pass.act), "none")
  <2>1. PICK n \in Names : n = pass.who
    BY <1>2
  <2>2. PhaseOf(pass.act) \in Phase
    BY DEF PhaseOf, Phase
  <2>3. /\ \A m \in Names : m # n => row'[m] = row[m]
        /\ row'[n].uid = row[n].uid /\ row'[n].deleting = row[n].deleting
        /\ row'[n].desired = row[n].desired /\ row'[n].finalizer = row[n].finalizer
        /\ row'[n].bound = TRUE /\ row'[n].phase = PhaseOf(pass.act) /\ row'[n] # NoRow
    BY <1>t, <1>2, <1>7, <2>1, <2>2, WrittenRow
  <2>4. PhaseOf(pass.act) = "Hibernated" => pass.act # "Restart"
    BY DEF PhaseOf
  <2>5. pass'.plan[n] = "Restart" => pass.act = "Restart"
    BY <1>2, <1>4, <2>1 DEF Shrinks
  <2>6. is_terminal(PhaseOf(pass.act)) => pass.act \in {"ReportSucceeded", "ReportFailed"}
    BY <1>1 DEF PhaseOf, is_terminal
  <2>7. pass.act \in {"ReportSucceeded", "ReportFailed"} /\ n \in Watched
          => pass.listed[n].uid \in ended
    BY <1>1, <1>2, <2>1 DEF IInv, Planned
  <2>8. Puts(n)
    BY <1>2, <1>3, <1>7, <2>1, <2>3, <2>4, <2>5, <2>6, <2>7 DEF Puts
  <2> QED
    BY <1>4, <1>5, <2>8, RowCalled
<1> QED
  BY <1>6, <1>7 DEF PutStatus

LEMMA PutFailureKeeps == ASSUME IInv, PutFailure PROVE Others'
<1>t. Typed /\ Busy(pass) /\ pass.pc = "failing" /\ pass' = Over
  BY DEF IInv, PutFailure, Busy
<1>1. pass.act # "Reap"
  BY <1>t, NoNameFact DEF Typed, TypeOK, Targets
<1>2. /\ pass.uid \in Uids /\ pass.uid <= uids
      /\ pass.who \in Names /\ pass.plan[pass.who] = pass.act
      /\ pass.listed[pass.who] # NoRow /\ pass.listed[pass.who].uid = pass.uid
  BY <1>t, <1>1, TargetUid
<1>3. UNCHANGED <<uids, inst, ended, leaked>>
  BY DEF PutFailure, runtime
<1>4. Shrinks /\ pass'.pc = "between" /\ pass'.plan[pass.who] = "none"
  BY <1>t, <1>2, OverShrinks
<1>5. Cleaned'
  BY <1>4 DEF Cleaned
<1>6. CASE UNCHANGED row
  BY <1>2, <1>3, <1>4, <1>5, <1>6, PassCalled
<1>7. CASE row[pass.who] # NoRow /\ Written(pass.who, Listed.phase, ReasonOf(pass.act))
  <2>1. PICK n \in Names : n = pass.who
    BY <1>2
  <2>2. Listed = pass.listed[n] /\ Listed.phase \in Phase /\ ReasonOf(pass.act) \in FailureReason
    BY <1>t, <1>2, <2>1, Types DEF Listed, Row, ReasonOf, FailureReason
  <2>3. /\ \A m \in Names : m # n => row'[m] = row[m]
        /\ row'[n].uid = row[n].uid /\ row'[n].deleting = row[n].deleting
        /\ row'[n].desired = row[n].desired /\ row'[n].finalizer = row[n].finalizer
        /\ row'[n].bound = TRUE /\ row'[n].phase = Listed.phase /\ row'[n] # NoRow
    BY <1>t, <1>2, <1>7, <2>1, <2>2, WrittenRow
  <2>4. is_terminal(Listed.phase) /\ n \in Watched => pass.listed[n].uid \in ended
    BY <1>2, <2>1, <2>2 DEF IInv, Ended
  <2>5. Puts(n)
    BY <1>2, <1>3, <1>4, <1>7, <2>1, <2>3, <2>4 DEF Puts
  <2> QED
    BY <1>4, <1>5, <2>5, RowCalled
<1> QED
  BY <1>6, <1>7 DEF PutFailure

LEMMA GetContainerKeeps == ASSUME IInv, GetContainer PROVE Others'
<1>t. Typed /\ Busy(pass) /\ pass.pc = "acting" /\ pass.call = "get" /\ Cleaned
  BY DEF IInv, GetContainer, Calls, Busy
<1>1. UNCHANGED <<row, uids, inst, ended, leaked>>
  BY DEF GetContainer, server, runtime
<1>2. pass.uid \in Uids /\ pass.uid <= uids
  BY <1>t, TargetUid
<1>3. Shrinks /\ Cleaned'
  <2>1. CASE pass' = Over
    BY <1>t, <2>1, OverShrinks DEF Cleaned
  <2>2. CASE pass' = [pass EXCEPT !.call = "replace", !.got = row[pass.who]]
    <3>1. /\ pass'.listed = pass.listed /\ pass'.plan = pass.plan /\ pass'.reap = pass.reap
          /\ pass'.pc = "acting" /\ pass'.uid = pass.uid
      BY <1>t, <2>2 DEF Typed, TypeOK
    <3> QED
      BY <1>t, <1>1, <3>1 DEF Shrinks, Cleaned
  <2> QED
    BY <2>1, <2>2 DEF GetContainer
<1> QED
  BY <1>1, <1>2, <1>3, PassCalled

LEMMA ReplaceContainerKeeps == ASSUME IInv, ReplaceContainer PROVE Others'
<1>t. Typed /\ Busy(pass) /\ pass.pc = "acting" /\ pass.call = "replace" /\ pass' = Over
  BY DEF IInv, ReplaceContainer, Calls, Busy
<1>1. pass.act \in {"Cleanup", "ClearFinalizer"}
  BY <1>t DEF Typed, TypeOK, Targets, CallsOf, Act
<1>2. /\ pass.uid \in Uids /\ pass.uid <= uids
      /\ pass.who \in Names /\ pass.plan[pass.who] = pass.act
      /\ pass.listed[pass.who] # NoRow /\ pass.listed[pass.who].uid = pass.uid
  BY <1>t, <1>1, TargetUid
<1>3. UNCHANGED <<uids, inst, ended, leaked>>
  BY DEF ReplaceContainer, runtime
<1>4. Shrinks /\ pass'.pc = "between" /\ pass'.listed[pass.who] = NoRow
  BY <1>t, <1>2, OverShrinks
<1>5. Cleaned'
  BY <1>4 DEF Cleaned
<1>6. CASE UNCHANGED row
  BY <1>2, <1>3, <1>4, <1>5, <1>6, PassCalled
<1>7. CASE Replaced /\ row' # row
  <2>1. PICK n \in Names : n = pass.who
    BY <1>2
  <2>2. row \in [Names -> Row \cup {NoRow}]
    BY <1>t DEF Typed, TypeOK
  <2>3. /\ \A m \in Names : m # n => row'[m] = row[m]
        /\ row[n] # NoRow
        /\ row'[n] = NoRow \/ (~row[n].deleting /\ row'[n] = [row[n] EXCEPT !.finalizer = FALSE])
    BY <1>7, <2>1, <2>2 DEF Replaced
  <2>4. CASE row'[n] = NoRow
    BY <1>2, <1>3, <1>4, <1>5, <2>1, <2>3, <2>4, RowCalled DEF Puts
  <2>5. CASE ~row[n].deleting /\ row'[n] = [row[n] EXCEPT !.finalizer = FALSE]
    <3>1. row[n] \in Row
      BY <2>2, <2>3
    <3>2. n \notin Overwritten => n \notin Finalized
      BY <1>1, <1>2, <2>1, <2>3, <2>5 DEF IInv, Planned, Rows
    <3>3. n \notin Overwritten => row[n].finalizer = FALSE
      BY <2>3, <3>1, <3>2 DEF IInv, Rows, Row
    <3>4. /\ row'[n].uid = row[n].uid /\ row'[n].deleting = row[n].deleting
          /\ row'[n].desired = row[n].desired /\ row'[n].finalizer = FALSE
          /\ row'[n].bound = row[n].bound /\ row'[n].phase = row[n].phase
      BY <2>5, <3>1 DEF Row
    <3>5. row'[n] # NoRow
      <4>1. [row[n] EXCEPT !.finalizer = FALSE] \in Row
        BY <3>1 DEF Row
      <4> QED
        BY <2>5, <4>1, NoRowAssumption
    <3>6. Puts(n)
      BY <1>2, <1>3, <2>1, <2>3, <3>3, <3>4, <3>5 DEF Puts
    <3> QED
      BY <1>4, <1>5, <3>6, RowCalled
  <2> QED
    BY <2>3, <2>4, <2>5
<1> QED
  BY <1>6, <1>7 DEF ReplaceContainer

LEMMA CallsKeep == ASSUME IInv, Call PROVE Others'
BY LaunchKeeps, CallStopKeeps, CallRemoveKeeps, PutStatusKeeps, PutFailureKeeps,
   GetContainerKeeps, ReplaceContainerKeeps DEF Call

------------------------------------------------------------------------------
(* The invariant, and what it is for.                                        *)

LEMMA InitKeeps == Init => IInv
<1> SUFFICES ASSUME Init PROVE IInv
  OBVIOUS
<1>1. Typed
  BY InitType
<1>2. /\ row = NoRows /\ inst = [u \in Uids |-> "none"] /\ pass.pc = "idle"
      /\ pass.listed = NoRows /\ pass.plan = NoPlan /\ pass.reap = {}
  BY DEF Init, Waiting, At
<1>3. Fresh /\ OneName /\ Rows /\ Planned
  BY <1>2 DEF Fresh, OneName, Rows, Planned, NoRows, NoPlan
<1>4. Cleaned /\ Listing /\ Orphaned
  BY <1>2 DEF Cleaned, Listing, Orphaned
<1>5. Ended
  BY <1>2, WatchedFact DEF Ended, NoRows
<1> QED
  BY <1>1, <1>3, <1>4, <1>5 DEF IInv

LEMMA NextKeeps == IInv /\ [Next]_vars => IInv'
<1> SUFFICES ASSUME IInv, [Next]_vars PROVE IInv'
  OBVIOUS
<1>1. Typed'
  BY NextType DEF IInv
<1>2. Others'
  <2>1. CASE UNCHANGED vars
    BY <2>1, Untouched DEF vars
  <2>2. CASE Users
    BY <2>2, UsersKeep
  <2>3. CASE Machine
    BY <2>3, MachineKeeps
  <2>4. CASE run_once \/ ensure_ready \/ renew_lease
    BY <2>4, CallsKeep, PassesKeep DEF run_once
  <2> QED
    BY <2>1, <2>2, <2>3, <2>4 DEF Next
<1> QED
  BY <1>1, <1>2 DEF IInv, Others

LEMMA Inductive == Spec => []IInv
BY InitKeeps, NextKeeps, PTL DEF Spec

\* Whatever exits, fails, lapses or dies, and whatever users delete and create again in
\* between: the worker calls no container finished whose workload has not ended by itself
\* (reconcile's ReportSucceeded and ReportFailed, and run_once's write of them by name).
THEOREM TerminalReportsAreTrue == Spec => []TerminalMeansEnded
<1>1. IInv => TerminalMeansEnded
  <2> SUFFICES ASSUME IInv, NEW n \in Finalized \ (Overwritten \cup Sleepers \cup Reschedulable),
                      row[n] # NoRow, is_terminal(row[n].phase)
               PROVE  row[n].uid \in ended
    BY DEF TerminalMeansEnded
  <2>1. n \in Watched
    BY DEF Watched
  <2> QED
    BY <2>1 DEF IInv, Ended
<1> QED
  BY <1>1, Inductive, PTL

\* A status that is put removes no row.
LEMMA PutKeepsRows ==
  ASSUME IInv, PutStatus \/ PutFailure, NEW n \in Names, row[n] # NoRow PROVE row'[n] # NoRow
<1>t. Typed /\ Busy(pass) /\ row \in [Names -> Row \cup {NoRow}]
  BY DEF IInv, PutStatus, PutFailure, Calls, Busy, Typed, TypeOK
<1>1. CASE UNCHANGED row
  BY <1>1
<1>2. CASE row' # row
  <2>1. pass.act # "Reap"
    BY <1>t, NoNameFact DEF PutStatus, PutFailure, Calls, Typed, TypeOK, Targets, CallsOf
  <2>2. pass.who \in Names /\ Listed \in Row
    BY <1>t, <2>1, NamedAct
  <2>3. PhaseOf(pass.act) \in Phase /\ Listed.phase \in Phase /\ ReasonOf(pass.act) \in FailureReason
    BY <2>2 DEF PhaseOf, Phase, ReasonOf, FailureReason, Row
  <2>4. PICK m \in Names : m = pass.who
    BY <2>2
  <2>5. row'[m] # NoRow /\ \A k \in Names : k # m => row'[k] = row[k]
    <3>1. CASE row[m] # NoRow /\ Written(m, PhaseOf(pass.act), "none")
      BY <1>t, <2>3, <3>1, WrittenRow
    <3>2. CASE row[m] # NoRow /\ Written(m, Listed.phase, ReasonOf(pass.act))
      BY <1>t, <2>3, <3>2, WrittenRow
    <3> QED
      BY <1>2, <2>4, <3>1, <3>2 DEF PutStatus, PutFailure
  <2> QED
    BY <2>5
<1> QED
  BY <1>1, <1>2

\* The finalizer keeps what it promises (lib.rs:32-34): the object of a container outlives
\* its micro-VM, but for a stop or removal that failed unheard, at every interleaving of
\* the deletion with a pass.
THEOREM FinalizerOutlivesInstance == Spec => RemovedMeansCleaned
<1>1. ASSUME IInv, [Next]_vars, NEW n \in Names \ Overwritten,
             row[n] # NoRow, row[n].finalizer, row'[n] = NoRow
      PROVE  inst[row[n].uid] = "none" \/ row[n].uid \in leaked
  <2>t. Typed /\ row \in [Names -> Row \cup {NoRow}]
    BY <1>1 DEF IInv, Typed, TypeOK
  <2>1. CASE UNCHANGED row
    BY <1>1, <2>1
  <2>2. CASE Users
    <3>1. ASSUME NEW m \in Names, create(m) PROVE FALSE
      <4>1. m # n
        BY <1>1, <3>1 DEF create
      <4> QED
        BY <1>1, <2>t, <3>1, <4>1 DEF create
    <3>2. ASSUME NEW m \in Names, delete(m) PROVE FALSE
      <4>1. row[m].finalizer => [row[m] EXCEPT !.deleting = TRUE] \in Row
        BY <2>t, <3>2, EditType DEF delete, Phase
      <4> QED
        BY <1>1, <2>t, <3>2, <4>1, NoRowAssumption DEF delete
    <3>3. ASSUME NEW m \in Names, \/ Evict(m) \/ Bind(m)
                                  \/ \E d \in {"Running", "Hibernated"} : set_desired_state(m, d)
          PROVE  FALSE
      <4>1. row'[n] \in Row
        <5>1. CASE m = n /\ Evict(m)
          <6>1. row[n] \in Row
            BY <1>1, <2>t
          <6>2. /\ [row[n] EXCEPT !.phase = "Pending", !.bound = FALSE, !.reason = "NodeLost"] \in Row
                /\ [row[n] EXCEPT !.phase = "Unknown", !.reason = "NodeLost"] \in Row
            BY <6>1, EditType DEF Phase
          <6>3. Evict(n)
            BY <5>1
          <6>4. row'[n] = IF n \in Reschedulable
                          THEN [row[n] EXCEPT !.phase = "Pending", !.bound = FALSE, !.reason = "NodeLost"]
                          ELSE [row[n] EXCEPT !.phase = "Unknown", !.reason = "NodeLost"]
            BY <2>t, <6>3 DEF Evict
          <6> QED
            BY <6>2, <6>4
        <5>2. CASE m = n /\ Bind(m)
          <6>1. row[n] \in Row /\ Bind(n)
            BY <1>1, <2>t, <5>2
          <6>2. row'[n] = [row[n] EXCEPT !.phase = "Scheduled", !.bound = TRUE, !.reason = "none"]
            BY <2>t, <6>1 DEF Bind
          <6> QED
            BY <6>1, <6>2 DEF Row, Phase
        <5>3. CASE m = n /\ \E d \in {"Running", "Hibernated"} : set_desired_state(m, d)
          <6>1. row[n] \in Row
            BY <1>1, <2>t
          <6>2. PICK d \in {"Running", "Hibernated"} : set_desired_state(n, d)
            BY <5>3
          <6>3. row'[n] = [row[n] EXCEPT !.desired = d]
            BY <2>t, <6>2 DEF set_desired_state
          <6> QED
            BY <6>1, <6>3 DEF Row
        <5>4. CASE m # n
          BY <1>1, <2>t, <3>3, <5>4 DEF Evict, Bind, set_desired_state
        <5> QED
          BY <3>3, <5>1, <5>2, <5>3, <5>4
      <4> QED
        BY <1>1, <4>1, NoRowAssumption
    <3> QED
      BY <2>2, <3>1, <3>2, <3>3 DEF Users
  <2>3. CASE PutStatus \/ PutFailure
    BY <1>1, <2>t, <2>3, PutKeepsRows
  <2>4. CASE ReplaceContainer
    <3>1. pass.pc = "acting" /\ pass.call = "replace" /\ Busy(pass) /\ pass.act # "Reap"
      BY <2>t, <2>4 DEF ReplaceContainer, Calls, Busy, Typed, Targets, CallsOf
    <3>2. pass.who \in Names /\ pass.listed[pass.who] # NoRow
          /\ pass.listed[pass.who].uid = pass.uid
      BY <1>1, <3>1, TargetUid
    <3>3. n = pass.who
      BY <1>1, <2>t, <2>4, <3>2 DEF ReplaceContainer, Replaced
    <3>4. row[n].uid = pass.uid
      BY <1>1, <3>2, <3>3 DEF IInv, Rows
    <3> QED
      BY <1>1, <3>1, <3>4 DEF IInv, Cleaned
  <2>5. CASE \/ Machine \/ ListAssigned \/ ListInstances \/ EndPass \/ ensure_ready \/ renew_lease
             \/ CallRun \/ CallStart \/ CallStop \/ CallRemove \/ GetContainer
             \/ (\E m \in Names : Begin(m)) \/ (\E u \in Uids : BeginReap(u))
    BY <2>1, <2>5 DEF Machine, Exit, Prune, Outage, Mend, Crash, LeaseLapses, ListAssigned,
      ListInstances, EndPass, ensure_ready, renew_lease, CallRun, CallStart, CallStop, CallRemove,
      GetContainer, Begin, BeginReap, server
  <2> QED
    BY <1>1, <2>1, <2>2, <2>3, <2>4, <2>5 DEF Next, run_once, Call, vars
<1>2. IInv /\ [Next]_vars =>
        [\A n \in Names \ Overwritten :
           row[n] # NoRow /\ row[n].finalizer /\ row'[n] = NoRow
             => inst[row[n].uid] = "none" \/ row[n].uid \in leaked]_vars
  BY <1>1
<1> QED
  BY <1>2, Inductive, PTL DEF Spec, RemovedMeansCleaned

\* What a container keeps on its disk while it sleeps (lib.rs:777-778) is there when it
\* wakes up: no restart, cleanup or reap that was decided before takes the instance.
THEOREM SleepersKeepTheirDisks == Spec => KeepsTheDisk
<1>1. ASSUME IInv, [Next]_vars, NEW u \in Uids, Asleep(u), inst'[u] = "none"
      PROVE  Prune(u)
  <2>t. Typed /\ inst \in [Uids -> InstanceState] /\ inst[u] \in {"Zero", "NonZero"}
    BY <1>1 DEF IInv, Typed, TypeOK, Asleep
  <2>0. PICK n \in Names : /\ row[n] # NoRow /\ row[n].uid = u
                           /\ row[n].phase = "Hibernated" /\ ~row[n].deleting
    BY <1>1 DEF Asleep, Has
  <2>1. CASE inst'[u] = inst[u]
    BY <1>1, <2>t, <2>1
  <2>2. ASSUME NEW v \in Uids, Prune(v) PROVE Prune(u)
    BY <1>1, <2>t, <2>2 DEF Prune
  <2>3. ASSUME NEW v \in Uids, Exit(v) PROVE FALSE
    BY <1>1, <2>t, <2>3 DEF Exit
  <2>4. CASE CallRun \/ CallStart
    BY <1>1, <2>t, <2>4 DEF CallRun, CallStart
  <2>5. CASE CallStop
    <3>1. pass.uid \in Uids
      BY <1>1, <2>5, TargetUid DEF CallStop, Calls, Busy
    <3> QED
      BY <1>1, <2>t, <2>5, <3>1 DEF CallStop, BestEffort
  <2>6. CASE CallRemove
    <3>1. Busy(pass) /\ pass.pc = "acting" /\ pass.call = "remove"
      BY <2>6 DEF CallRemove, Calls, Busy
    <3>2. pass.uid = u
      BY <1>1, <2>t, <2>6 DEF CallRemove, BestEffort
    <3>3. pass.act \in {"Restart", "Cleanup", "Reap"}
      BY <2>t, <3>1 DEF Typed, TypeOK, Targets, CallsOf, Act
    <3>4. CASE pass.act = "Reap"
      BY <1>1, <2>0, <3>1, <3>2, <3>4, TargetUid DEF IInv, Orphaned
    <3>5. CASE pass.act # "Reap"
      <4>1. pass.who \in Names /\ pass.plan[pass.who] = pass.act
            /\ pass.listed[pass.who] # NoRow /\ pass.listed[pass.who].uid = u
        BY <1>1, <3>1, <3>2, <3>5, TargetUid
      <4>2. pass.who = n
        BY <1>1, <2>0, <4>1 DEF IInv, OneName
      <4>3. pass.act # "Restart"
        BY <1>1, <2>0, <4>1, <4>2 DEF IInv, Planned
      <4>4. pass.act # "Cleanup"
        BY <1>1, <2>0, <4>1, <4>2 DEF IInv, Planned, Rows
      <4> QED
        BY <3>3, <3>5, <4>3, <4>4
    <3> QED
      BY <3>4, <3>5
  <2>7. CASE \/ Users \/ Outage \/ Mend \/ Crash \/ LeaseLapses
             \/ ListAssigned \/ ListInstances \/ EndPass \/ ensure_ready \/ renew_lease
             \/ PutStatus \/ PutFailure \/ GetContainer \/ ReplaceContainer
             \/ (\E m \in Names : Begin(m)) \/ (\E v \in Uids : BeginReap(v)) \/ UNCHANGED vars
    <3>1. inst' = inst
      BY <2>7 DEF Users, create, delete, Evict, Bind, set_desired_state, Outage, Mend, Crash,
        LeaseLapses, ListAssigned, ListInstances, EndPass, ensure_ready, renew_lease, PutStatus,
        PutFailure, GetContainer, ReplaceContainer, Begin, BeginReap, runtime, vars
    <3> QED
      BY <2>1, <3>1
  <2> QED
    BY <1>1, <2>2, <2>3, <2>4, <2>5, <2>6, <2>7 DEF Next, run_once, Call, Machine
<1>2. IInv /\ [Next]_vars => [\A u \in Uids : Asleep(u) /\ inst'[u] = "none" => Prune(u)]_vars
  BY <1>1
<1> QED
  BY <1>2, Inductive, PTL DEF Spec, KeepsTheDisk
==============================================================================
