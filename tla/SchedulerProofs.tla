--------------------------- MODULE SchedulerProofs ---------------------------
(***************************************************************************)
(* Proofs about Scheduler, for every set of requests and views and every   *)
(* length of a pass.                                                       *)
(***************************************************************************)
EXTENDS Scheduler, SumTheorems

Usage == [cpu : Nat, mem : Nat]
Outcome == [worker : 0..Len(workers), tally : [Reason -> Nat]]

Matched(req, w) ==
  {i \in DOMAIN req.preferred : term_matches(req.preferred[i].preference, w.labels)}
Weights(req) == [i \in DOMAIN req.preferred |-> req.preferred[i].weight]

\* The sum in a score, as a sum of a function's values.
LEMMA WeightsAreSummed ==
  ASSUME NEW req \in Requests, NEW S \in SUBSET (DOMAIN req.preferred)
  PROVE  MapThenSumSet(LAMBDA i : req.preferred[i].weight, S) = SumOver(Weights(req), S)
<1> DEFINE Turn(iter) == [s \in SUBSET S |->
             IF s = {} THEN 0 ELSE req.preferred[SomeOf(s)].weight + iter[s \ {SomeOf(s)}]]
           c == CHOOSE iter : iter = Turn(iter)
<1>1. MapThenSumSet(LAMBDA i : req.preferred[i].weight, S) = c[S]
  BY DEF MapThenSumSet, MapThenFoldSet, SomeOf
<1>2. IsFiniteSet(S)
  BY ScoreAssumption, FS_Subset
<1>3. \A iter : Turn(iter) = Unrolled(Weights(req), iter, SUBSET S)
  <2>1. \A s \in SUBSET S : s # {} => Weights(req)[SomeOf(s)] = req.preferred[SomeOf(s)].weight
    BY DEF Weights, SomeOf
  <2> QED
    BY <2>1 DEF Unrolled
<1>4. PICK iter : iter = Turn(iter)
  BY <1>2, <1>3, RecursionExists DEF Unrolls
<1> HIDE DEF Turn
<1>5. c = Turn(c)
  BY <1>4
<1> HIDE DEF c
<1>6. Unrolls(Weights(req), c, S)
  BY <1>3, <1>5 DEF Unrolls
<1> QED
  BY <1>1, <1>2, <1>6, SumIsUnrolled

\* A score is an integer.
LEMMA ScoreType ==
  ASSUME NEW req \in Requests, NEW w \in Views
  PROVE  score(req, w) \in Int
<1> DEFINE M == Matched(req, w)
           U == untolerated(req, w, "PreferNoSchedule")
<1>1. IsFiniteSet(M) /\ IsFiniteSet(U)
  <2>1. M \subseteq DOMAIN req.preferred /\ U \subseteq DOMAIN w.taints
    BY DEF Matched, untolerated
  <2> QED
    BY <2>1, ScoreAssumption, FS_Subset
<1>2. SumOver(Weights(req), M) \in Int
  <2>1. \A i \in M : Weights(req)[i] \in Int
    BY ScoreAssumption DEF Matched, Weights
  <2> QED
    BY <1>1, <2>1, SumType
<1>3. Cardinality(U) \in Nat
  BY <1>1, FS_CardinalityType
<1>4. M \in SUBSET (DOMAIN req.preferred)
  BY DEF Matched
<1>5. score(req, w) = SumOver(Weights(req), M) - PREFER_NO_SCHEDULE_PENALTY * Cardinality(U)
  BY <1>4, WeightsAreSummed DEF score, Matched
<1> QED
  BY <1>2, <1>3, <1>5 DEF PREFER_NO_SCHEDULE_PENALTY

\* `?` on the first failing check: a worker that is not admitted has a reason.
LEMMA RejectionType ==
  ASSUME NEW req, NEW w, NEW j, NEW used, ~admits(req, w, j, used)
  PROVE  rejection(req, w, j, used) \in Reason
<1> DEFINE c == checks(req, w, j, used)
           IsFirst(i) == ~c[i][2] /\ \A h \in 1..(i-1) : c[h][2]
<1>1. PICK k \in 1..8 : ~c[k][2]
  BY DEF admits
<1>2. \E i \in 1..8 : IsFirst(i)
  <2>1. k \in {1, 2, 3, 4, 5, 6, 7, 8}
    BY <1>1
  <2>2. ASSUME ~ \E i \in 1..8 : IsFirst(i)
        PROVE  FALSE
    <3> HIDE DEF c
    <3>1. c[1][2]
      BY <2>2
    <3>2. c[2][2]
      BY <2>2, <3>1
    <3>3. c[3][2]
      BY <2>2, <3>1, <3>2
    <3>4. c[4][2]
      BY <2>2, <3>1, <3>2, <3>3
    <3>5. c[5][2]
      BY <2>2, <3>1, <3>2, <3>3, <3>4
    <3>6. c[6][2]
      BY <2>2, <3>1, <3>2, <3>3, <3>4, <3>5
    <3>7. c[7][2]
      BY <2>2, <3>1, <3>2, <3>3, <3>4, <3>5, <3>6
    <3>8. c[8][2]
      BY <2>2, <3>1, <3>2, <3>3, <3>4, <3>5, <3>6, <3>7
    <3> QED
      BY <1>1, <2>1, <3>1, <3>2, <3>3, <3>4, <3>5, <3>6, <3>7, <3>8
  <2> QED
    BY <2>2
<1>3. (CHOOSE i \in 1..8 : IsFirst(i)) \in 1..8
  BY <1>2
<1>4. \A i \in 1..8 : c[i][1] \in Reason
  <2>1. ASSUME NEW i \in {1, 2, 3, 4, 5, 6, 7, 8} PROVE c[i][1] \in Reason
    BY <2>1 DEF checks, Reason
  <2> QED
    BY <2>1
<1> QED
  BY <1>3, <1>4 DEF rejection

LEMMA TallyType ==
  ASSUME reasons \in Seq(Reason) PROVE tally \in [Reason -> Nat]
<1> SUFFICES ASSUME NEW r \in Reason
             PROVE  Cardinality({i \in DOMAIN reasons : reasons[i] = r}) \in Nat
  BY DEF tally
<1>1. Len(reasons) \in Nat /\ DOMAIN reasons = 1..Len(reasons)
  OBVIOUS
<1>2. IsFiniteSet(1..Len(reasons))
  BY <1>1, FS_Interval
<1> QED
  BY <1>1, <1>2, FS_Subset, FS_CardinalityType

LEMMA RequestType == TypeOK /\ More => request \in Requests
  BY DEF TypeOK, More, request

\* The types: in particular what is committed to a worker is never negative.
THEOREM TypeCorrect == Spec => []TypeOK
<1>1. Init => TypeOK
  <2> SUFFICES ASSUME Init PROVE TypeOK
    OBVIOUS
  <2>1. pending \in Seq(Requests) /\ Len(pending) \in Nat
    BY BoundsAssumption DEF Init
  <2>2. workers \in Seq(Views) /\ Len(workers) \in Nat
    BY BoundsAssumption DEF Init
  <2>3. \A j \in DOMAIN workers : workers[j].used \in Usage
    BY <2>2, AmountsAssumption DEF Usage
  <2> QED
    BY <2>1, <2>2, <2>3 DEF Init, TypeOK, Usage
<1>2. TypeOK /\ [Next]_vars => TypeOK'
  <2> SUFFICES ASSUME TypeOK, [Next]_vars PROVE TypeOK'
    OBVIOUS
  <2>1. CASE Consider
    <3> DEFINE w == workers[at]
    <3>1. at \in DOMAIN workers /\ at + 1 \in 1..(Len(workers) + 1)
      BY <2>1 DEF Consider, TypeOK
    <3>2. w \in Views /\ request \in Requests
      BY <2>1, <3>1, RequestType DEF Consider, TypeOK
    <3>3. score(request, w) \in Int
      BY <3>2, ScoreType
    <3>4. best' \in {NoBest} \cup [worker : DOMAIN workers, score : Int]
      BY <2>1, <3>1, <3>3 DEF Consider, TypeOK
    <3>5. reasons' \in Seq(Reason)
      <4>1. CASE admits(request, w, at, allocated[at])
        BY <2>1, <4>1 DEF Consider, TypeOK
      <4>2. CASE ~admits(request, w, at, allocated[at])
        <5>1. rejection(request, w, at, allocated[at]) \in Reason
          BY <4>2, RejectionType
        <5>2. reasons' = Append(reasons, rejection(request, w, at, allocated[at]))
          BY <2>1, <4>2 DEF Consider
        <5>3. reasons \in Seq(Reason)
          BY DEF TypeOK
        <5> QED
          BY <5>1, <5>2, <5>3
      <4> QED
        BY <4>1, <4>2
    <3> QED
      BY <2>1, <3>1, <3>4, <3>5 DEF Consider, TypeOK
  <2>2. CASE Bind
    <3>1. request \in Requests /\ request.cpu \in Nat /\ request.mem \in Nat
      BY <2>2, RequestType, AmountsAssumption DEF Bind
    <3>2. best.worker \in DOMAIN workers
      BY <2>2 DEF Bind, TypeOK
    <3>3. allocated[best.worker] \in Usage
      BY <3>2 DEF TypeOK, Usage
    <3>4. committed(allocated[best.worker], request) \in Usage
      BY <3>1, <3>3 DEF committed, Usage
    <3>5. allocated' \in [DOMAIN workers -> Usage]
      BY <2>2, <3>2, <3>4 DEF Bind, TypeOK, Usage
    <3>6. [worker |-> best.worker, tally |-> NoTally] \in Outcome
      BY <3>2 DEF NoTally, Outcome, TypeOK
    <3> QED
      BY <2>2, <3>5, <3>6 DEF Bind, More, NextContainer, TypeOK, Usage, Outcome
  <2>3. CASE GiveUp
    <3>1. tally \in [Reason -> Nat]
      BY TallyType DEF TypeOK
    <3>2. [worker |-> 0, tally |-> tally] \in Outcome
      BY <3>1 DEF Outcome, TypeOK
    <3> QED
      BY <2>3, <3>2 DEF GiveUp, More, NextContainer, TypeOK, Outcome
  <2>4. CASE UNCHANGED vars
    BY <2>4 DEF vars, TypeOK
  <2> QED
    BY <2>1, <2>2, <2>3, <2>4 DEF Next
<1> QED
  BY <1>1, <1>2, PTL DEF Spec

------------------------------------------------------------------------------
(* No overcommit.  A pick passed the resource checks against what is         *)
(* committed now, so adding its request still fits.                          *)

\* What the pick in hand is known to satisfy.
PickFits ==
  More /\ best # NoBest => admits(request, workers[best.worker], best.worker,
                                 allocated[best.worker])

LEMMA AdmittedFits ==
  ASSUME NEW req \in Requests, NEW w \in Views, NEW j, NEW used \in Usage,
         admits(req, w, j, used)
  PROVE  /\ req.cpu = 0 \/ used.cpu + req.cpu <= w.cpu
         /\ req.mem = 0 \/ used.mem + req.mem <= w.mem
<1>1. checks(req, w, j, used)[3][2] /\ checks(req, w, j, used)[4][2]
  BY DEF admits
<1>2. free_cpu(w, used) >= req.cpu /\ free_memory(w, used) >= req.mem
  BY <1>1 DEF checks
<1>3. /\ req.cpu \in Nat /\ req.mem \in Nat /\ w.cpu \in Nat /\ w.mem \in Nat
      /\ used.cpu \in Nat /\ used.mem \in Nat
  BY AmountsAssumption DEF Usage
<1> QED
  BY <1>2, <1>3 DEF free_cpu, free_memory, saturating_sub

LEMMA PickFitsStep == TypeOK /\ PickFits /\ [Next]_vars => PickFits'
<1> SUFFICES ASSUME TypeOK, PickFits, [Next]_vars PROVE PickFits'
  OBVIOUS
<1>1. CASE Consider
  <2>1. UNCHANGED <<More, request, workers, allocated>>
    BY <1>1 DEF Consider, More, request
  <2>2. CASE best' = best
    BY <2>1, <2>2 DEF PickFits, admits, checks
  <2>3. CASE best' # best
    <3>1. best'.worker = at
      BY <1>1, <2>3 DEF Consider
    <3>2. admits(request, workers[at], at, allocated[at])
      BY <1>1, <2>3 DEF Consider
    <3> QED
      BY <2>1, <3>1, <3>2 DEF PickFits, admits, checks
  <2> QED
    BY <2>2, <2>3
<1>2. CASE Bind \/ GiveUp
  BY <1>2 DEF Bind, GiveUp, NextContainer, PickFits
<1>3. CASE UNCHANGED vars
  BY <1>3 DEF vars, PickFits, More, request
<1> QED
  BY <1>1, <1>2, <1>3 DEF Next

\* A pass never commits more than a worker has free, its own placements counted.
THEOREM PassNeverOvercommits == Spec => []NoOvercommit
<1>1. Init => PickFits /\ NoOvercommit
  BY DEF Init, PickFits, NoOvercommit
<1>2. TypeOK /\ PickFits /\ NoOvercommit /\ [Next]_vars => NoOvercommit'
  <2> SUFFICES ASSUME TypeOK, PickFits, NoOvercommit, [Next]_vars PROVE NoOvercommit'
    OBVIOUS
  <2>1. CASE Bind
    <3> DEFINE b == best.worker
               w == workers[b]
    <3>0. b \in DOMAIN workers /\ workers \in Seq(Views)
      BY <2>1 DEF Bind, TypeOK
    <3>1. b \in DOMAIN workers /\ w \in Views /\ request \in Requests
      BY <2>1, <3>0, RequestType DEF Bind
    <3>2. allocated[b] \in Usage
      BY <3>1 DEF TypeOK, Usage
    <3>3. admits(request, w, b, allocated[b])
      BY <2>1 DEF Bind, PickFits
    <3>4. /\ request.cpu = 0 \/ allocated[b].cpu + request.cpu <= w.cpu
          /\ request.mem = 0 \/ allocated[b].mem + request.mem <= w.mem
      BY <3>1, <3>2, <3>3, AdmittedFits
    <3>5. /\ allocated'[b].cpu = allocated[b].cpu + request.cpu
          /\ allocated'[b].mem = allocated[b].mem + request.mem
          /\ \A j \in DOMAIN workers : j # b => allocated'[j] = allocated[j]
          /\ UNCHANGED workers
      BY <2>1, <3>1 DEF Bind, committed, TypeOK
    <3>6. allocated[b].cpu \in Nat /\ allocated[b].mem \in Nat
      BY <3>2 DEF Usage
    <3> QED
      BY <3>1, <3>4, <3>5, <3>6 DEF NoOvercommit
  <2>2. CASE Consider \/ GiveUp \/ UNCHANGED vars
    BY <2>2 DEF Consider, GiveUp, vars, NoOvercommit
  <2> QED
    BY <2>1, <2>2 DEF Next
<1> QED
  BY <1>1, <1>2, TypeCorrect, PickFitsStep, PTL DEF Spec

------------------------------------------------------------------------------
(* The pick is the best.  The loop invariant: `best` is the first of the     *)
(* best among the admitted workers already looked at.                        *)

LookedAt == {j \in AdmittedNow : j < at}

LoopInv == More => IsBestOf(LookedAt)

LEMMA LoopInvStep == TypeOK /\ LoopInv /\ [Next]_vars => LoopInv'
<1> SUFFICES ASSUME TypeOK, LoopInv, [Next]_vars, More' PROVE IsBestOf(LookedAt)'
  BY DEF LoopInv
<1>1. CASE Consider
  <2> DEFINE s == score(request, workers[at])
             Score(j) == score(request, workers[j])
  <2>1. More /\ at \in DOMAIN workers /\ UNCHANGED <<request, workers, allocated>>
    BY <1>1 DEF Consider, TypeOK, request
  <2>2. AdmittedNow' = AdmittedNow /\ at' = at + 1 /\ AdmittedNow \subseteq DOMAIN workers
    BY <1>1, <2>1 DEF Consider, AdmittedNow, Admitted, admits, checks
  <2>3. \A j \in DOMAIN workers : Score(j) \in Int
    <3>1. request \in Requests
      BY <2>1, RequestType
    <3>2. \A j \in DOMAIN workers : workers[j] \in Views
      BY DEF TypeOK
    <3> QED
      BY <3>1, <3>2, ScoreType
  <2>4. IsBestOf(LookedAt)
    BY <2>1 DEF LoopInv
  <2>5. \A j \in DOMAIN workers : j \in Int /\ Score(j)' = Score(j)
    BY <2>1 DEF TypeOK
  <2>6. CASE at \in AdmittedNow
    <3>1. LookedAt' = LookedAt \cup {at}
      BY <2>1, <2>2, <2>6 DEF LookedAt, TypeOK
    <3>2. best' = IF better(s) THEN [worker |-> at, score |-> s] ELSE best
      BY <1>1, <2>6 DEF Consider, AdmittedNow, Admitted
    <3>3. CASE better(s)
      <4>1. best'.worker = at /\ best'.score = s /\ best' # NoBest
        BY <2>1, <3>2, <3>3 DEF NoBest, TypeOK
      <4>2. ASSUME NEW j \in LookedAt PROVE Score(j) < s
        <5>1. best # NoBest
          BY <2>4 DEF IsBestOf
        <5>2. best.score < s /\ best.score \in Int
          BY <3>3, <5>1 DEF better, TypeOK
        <5>3. Score(j) <= best.score /\ Score(j) \in Int /\ s \in Int
          BY <2>1, <2>2, <2>3, <2>4, <5>1, <5>2 DEF IsBestOf, LookedAt
        <5> QED
          BY <5>2, <5>3
      <4> QED
        BY <2>1, <2>2, <2>3, <2>5, <3>1, <4>1, <4>2 DEF IsBestOf, LookedAt
    <3>4. CASE ~better(s)
      <4>1. best' = best /\ best # NoBest /\ s <= best.score
        BY <2>1, <2>3, <3>2, <3>4 DEF better, TypeOK
      <4>2. best.worker \in LookedAt /\ best.worker < at
        BY <2>4, <4>1 DEF IsBestOf, LookedAt
      <4>3. s < best.score \/ (s = best.score /\ best.worker <= at)
        BY <2>1, <2>2, <2>3, <4>1, <4>2 DEF LookedAt, TypeOK
      <4> QED
        BY <2>1, <2>4, <2>5, <3>1, <4>1, <4>2, <4>3 DEF IsBestOf, LookedAt
    <3> QED
      BY <3>3, <3>4
  <2>7. CASE at \notin AdmittedNow
    <3>0. at \in Nat /\ \A j \in AdmittedNow : j \in Nat /\ j # at
      BY <2>2, <2>7 DEF TypeOK
    <3>1. LookedAt' = LookedAt
      BY <2>2, <3>0 DEF LookedAt
    <3>2. best' = best
      BY <1>1, <2>1, <2>7 DEF Consider, AdmittedNow, Admitted
    <3> QED
      BY <2>1, <2>4, <3>1, <3>2 DEF IsBestOf
  <2> QED
    BY <2>6, <2>7
<1>2. CASE Bind \/ GiveUp
  <2>1. best' = NoBest /\ at' = 1
    BY <1>2 DEF Bind, GiveUp, NextContainer
  <2>2. LookedAt' = {}
    BY <2>1, <1>2 DEF LookedAt, AdmittedNow, Admitted, TypeOK, Bind, GiveUp
  <2> QED
    BY <2>1, <2>2 DEF IsBestOf
<1>3. CASE UNCHANGED vars
  <2>1. UNCHANGED <<More, request, workers, best, LookedAt>>
    BY <1>3 DEF vars, More, request, LookedAt, AdmittedNow, Admitted, admits, checks
  <2> QED
    BY <2>1 DEF LoopInv, IsBestOf
<1> QED
  BY <1>1, <1>2, <1>3 DEF Next

\* There is one first-of-the-best, and it is what Placement calls schedule.
LEMMA BestIsSchedule ==
  ASSUME TypeOK, More, IsBestOf(AdmittedNow)
  PROVE  best.worker = schedule(request, workers, allocated)
<1> DEFINE S == AdmittedNow
           Score(j) == score(request, workers[j])
           Beats(j, k) == Score(k) < Score(j) \/ (Score(k) = Score(j) /\ j <= k)
           IsFirst(j) == j \in S /\ \A k \in S : Beats(j, k)
<1>1. S \subseteq DOMAIN workers /\ S = Admitted(request, workers, allocated)
  BY DEF AdmittedNow, Admitted
<1>2. \A j \in S : j \in Int /\ Score(j) \in Int
  <2>1. request \in Requests
    BY RequestType
  <2>2. \A j \in S : j \in Int /\ workers[j] \in Views
    BY <1>1 DEF TypeOK
  <2> QED
    BY <2>1, <2>2, ScoreType
<1>3. schedule(request, workers, allocated) =
        IF S = {} THEN 0 ELSE CHOOSE j \in S : \A k \in S : Beats(j, k)
  BY DEF schedule, AdmittedNow
<1>4. CASE best = NoBest
  BY <1>3, <1>4 DEF IsBestOf, NoBest
<1>5. CASE best # NoBest
  <2>1. IsFirst(best.worker)
    <3>1. best.worker \in S /\ best.score = Score(best.worker)
      BY <1>5 DEF IsBestOf
    <3>2. \A k \in S : Score(k) < best.score \/ (Score(k) = best.score /\ best.worker <= k)
      BY <1>5 DEF IsBestOf
    <3> QED
      BY <3>1, <3>2
  <2>2. \A j, k \in S : IsFirst(j) /\ IsFirst(k) => j = k
    <3> HIDE DEF S, Score
    <3> QED
      BY <1>2
  <2> QED
    BY <1>3, <2>1, <2>2
<1> QED
  BY <1>4, <1>5

\* `schedule` returns the first of the highest-scored admitted workers, and
\* none only if no worker is admitted.
THEOREM ScheduleIsFilterScorePick == Spec => []PickIsBest
<1>1. Init => LoopInv
  <2> SUFFICES ASSUME Init PROVE LookedAt = {}
    BY DEF Init, LoopInv, IsBestOf
  <2>1. DOMAIN workers \subseteq Nat \ {0} /\ at = 1
    BY BoundsAssumption DEF Init
  <2> QED
    BY <2>1 DEF LookedAt, AdmittedNow, Admitted
<1>2. TypeOK /\ LoopInv => PickIsBest
  <2> SUFFICES ASSUME TypeOK, Decided, IsBestOf(LookedAt) PROVE PickIsBest
    BY DEF LoopInv, PickIsBest, Decided
  <2>1. LookedAt = AdmittedNow
    BY DEF LookedAt, AdmittedNow, Admitted, Decided, TypeOK
  <2>2. IsBestOf(AdmittedNow)
    BY <2>1
  <2>3. best.worker = schedule(request, workers, allocated)
    BY <2>2, BestIsSchedule DEF Decided
  <2> QED
    BY <2>2, <2>3 DEF PickIsBest
<1> QED
  BY <1>1, <1>2, TypeCorrect, LoopInvStep, PTL DEF Spec

------------------------------------------------------------------------------
(* First fit.                                                                *)

\* With nothing preferred and nothing to avoid every score is 0, so the pick,
\* the first of the best, is the first admitted worker (lib.rs:10-11).
THEOREM DefaultIsFirstFit == Spec => []FirstFitByDefault
<1>1. TypeOK /\ PickIsBest => FirstFitByDefault
  <2> SUFFICES ASSUME TypeOK, PickIsBest, Decided, best # NoBest,
                      request.preferred = << >>,
                      \A j \in DOMAIN workers : \A i \in DOMAIN workers[j].taints :
                        workers[j].taints[i].effect # "PreferNoSchedule"
               PROVE  best.worker = Min(AdmittedNow)
    BY DEF FirstFitByDefault
  <2>1. request \in Requests
    BY RequestType DEF Decided
  <2>2. AdmittedNow \subseteq DOMAIN workers /\ DOMAIN workers \subseteq Nat
    BY DEF AdmittedNow, Admitted, TypeOK
  <2>3. ASSUME NEW j \in AdmittedNow PROVE score(request, workers[j]) = 0
    <3> DEFINE w == workers[j]
    <3>1. Matched(request, w) = {} /\ untolerated(request, w, "PreferNoSchedule") = {}
      BY <2>2 DEF Matched, untolerated
    <3>2. SumOver(Weights(request), {}) = 0 /\ Cardinality({}) = 0
      BY SumOfNone, FS_EmptySet
    <3>3. score(request, w) = SumOver(Weights(request), Matched(request, w))
            - PREFER_NO_SCHEDULE_PENALTY * Cardinality(untolerated(request, w, "PreferNoSchedule"))
      <4>1. Matched(request, w) \in SUBSET (DOMAIN request.preferred)
        BY DEF Matched
      <4> QED
        BY <2>1, <4>1, WeightsAreSummed DEF score, Matched
    <3>4. score(request, w) = 0 - 100 * 0
      BY <3>1, <3>2, <3>3 DEF PREFER_NO_SCHEDULE_PENALTY
    <3> QED
      BY <3>4
  <2>4. /\ best.worker \in AdmittedNow
        /\ \A j \in AdmittedNow : best.worker <= j
    BY <2>3 DEF PickIsBest, IsBestOf
  <2> QED
    BY <2>2, <2>4 DEF Min
<1> QED
  BY <1>1, TypeCorrect, ScheduleIsFilterScorePick, PTL

------------------------------------------------------------------------------
(* The explanation.  Every turn of the loop either finds a worker or notes   *)
(* one reason, and the tally splits the reasons among the values of Reason.  *)

\* As long as nothing is found there is one reason per worker looked at.
OneReasonEach == More /\ best = NoBest => Len(reasons) = at - 1

\* The explanations given so far add up.
TalliesAddUp ==
  \A k \in DOMAIN out : out[k].worker = 0 => SumOver(out[k].tally, Reason) = Len(workers)

\* A tally counts every reason noted, and counts it once.
LEMMA TallyCountsAll ==
  ASSUME reasons \in Seq(Reason) PROVE SumOver(tally, Reason) = Len(reasons)
<1> DEFINE D == DOMAIN reasons
           Noted(T) == {i \in D : reasons[i] \in T}
           P == {T \in SUBSET Reason : SumOver(tally, T) = Cardinality(Noted(T))}
<1>1. Len(reasons) \in Nat /\ D = 1..Len(reasons)
  OBVIOUS
<1>2. IsFiniteSet(D) /\ Cardinality(D) = Len(reasons)
  BY <1>1, FS_Interval
<1>3. IsFiniteSet(Reason)
  <2>1. Reason = (((((((({} \cup {"NotReady"}) \cup {"Cordoned"}) \cup {"InsufficientCpu"})
                   \cup {"InsufficientMemory"}) \cup {"NodeNameMismatch"})
                   \cup {"LabelMismatch"}) \cup {"AffinityMismatch"}) \cup {"UntoleratedTaint"})
    BY DEF Reason
  <2>2. \A S, x : IsFiniteSet(S) => IsFiniteSet(S \cup {x})
    BY FS_AddElement
  <2> QED
    BY <2>1, <2>2, FS_EmptySet
<1>4. {} \in P
  <2>1. Noted({}) = {}
    OBVIOUS
  <2> QED
    BY <2>1, SumOfNone, FS_EmptySet
<1>5. ASSUME NEW T \in P, NEW r \in Reason \ T PROVE T \cup {r} \in P
  <2> DEFINE U == T \cup {r}
             Of == {i \in D : reasons[i] = r}
  <2>1. U \subseteq Reason /\ U \ {r} = T /\ r \in U
    BY DEF P
  <2>2. IsFiniteSet(U) /\ tally \in [Reason -> Nat]
    BY <1>3, <2>1, FS_Subset, TallyType
  <2>3. SumOver(tally, U) = tally[r] + SumOver(tally, T)
    <3>1. \A x \in U : tally[x] \in Int
      BY <2>1, <2>2
    <3> QED
      BY <2>1, <2>2, <3>1, SumTakes
  <2>4. tally[r] = Cardinality(Of)
    BY DEF tally
  <2>5. Noted(U) = Noted(T) \cup Of /\ Noted(T) \cap Of = {}
    OBVIOUS
  <2>6. Noted(T) \subseteq D /\ Of \subseteq D
    OBVIOUS
  <2> HIDE DEF U, Of, Noted, D
  <2>7. IsFiniteSet(Noted(T)) /\ IsFiniteSet(Of)
    BY <1>2, <2>6, FS_Subset
  <2>8. Cardinality(Noted(U)) = Cardinality(Noted(T)) + Cardinality(Of) - Cardinality({})
    BY <2>5, <2>7, FS_Union
  <2>9. Cardinality(Noted(T)) \in Nat /\ Cardinality(Of) \in Nat /\ Cardinality({}) = 0
    BY <2>7, FS_CardinalityType, FS_EmptySet
  <2>10. SumOver(tally, T) = Cardinality(Noted(T))
    BY DEF P
  <2>11. SumOver(tally, U) = Cardinality(Noted(U))
    BY <2>3, <2>4, <2>8, <2>9, <2>10
  <2> QED
    BY <2>1, <2>11 DEF U, P
<1>6. Reason \in P
  <2>1. P \in SUBSET (SUBSET Reason)
    OBVIOUS
  <2> HIDE DEF P
  <2> QED
    BY <1>3, <1>4, <1>5, <2>1, SubsetInduction
<1>7. Noted(Reason) = D
  <2>1. \A i \in D : reasons[i] \in Reason
    BY <1>1
  <2> QED
    BY <2>1
<1> QED
  BY <1>2, <1>6, <1>7

LEMMA OneReasonEachStep == TypeOK /\ OneReasonEach /\ [Next]_vars => OneReasonEach'
<1> SUFFICES ASSUME TypeOK, OneReasonEach, [Next]_vars, More', best' = NoBest
             PROVE  Len(reasons') = at' - 1
  BY DEF OneReasonEach
<1>1. CASE Consider
  <2> DEFINE w == workers[at]
  <2>1. at \in Nat /\ at # 0 /\ at' = at + 1
    BY <1>1 DEF Consider, TypeOK
  <2>2. CASE admits(request, w, at, allocated[at])
    <3>1. best' = IF better(score(request, w)) THEN [worker |-> at, score |-> score(request, w)]
                  ELSE best
      BY <1>1, <2>2 DEF Consider
    <3>2. best' # NoBest
      BY <2>1, <3>1 DEF better, NoBest
    <3> QED
      BY <3>2
  <2>3. CASE ~admits(request, w, at, allocated[at])
    <3>1. best = NoBest /\ reasons' = Append(reasons, rejection(request, w, at, allocated[at]))
      BY <1>1, <2>3 DEF Consider
    <3>2. rejection(request, w, at, allocated[at]) \in Reason
      BY <2>3, RejectionType
    <3>3. Len(reasons) = at - 1
      BY <1>1, <3>1 DEF OneReasonEach, Consider
    <3>4. reasons \in Seq(Reason)
      BY DEF TypeOK
    <3>5. Len(reasons') = Len(reasons) + 1
      BY <3>1, <3>2, <3>4
    <3> QED
      BY <2>1, <3>3, <3>5
  <2> QED
    BY <2>2, <2>3
<1>2. CASE Bind \/ GiveUp
  BY <1>2 DEF Bind, GiveUp, NextContainer
<1>3. CASE UNCHANGED vars
  BY <1>3 DEF vars, OneReasonEach, More
<1> QED
  BY <1>1, <1>2, <1>3 DEF Next

\* The explanation of a container that fits nowhere accounts for every worker,
\* once: the counts in it add up to the number of workers.
THEOREM ExplanationsAddUp == Spec => []EveryWorkerAccountedFor
<1>1. Init => OneReasonEach /\ TalliesAddUp
  BY DEF Init, OneReasonEach, TalliesAddUp
<1>2. TypeOK /\ OneReasonEach /\ TalliesAddUp /\ [Next]_vars => TalliesAddUp'
  <2> SUFFICES ASSUME TypeOK, OneReasonEach, TalliesAddUp, [Next]_vars PROVE TalliesAddUp'
    OBVIOUS
  <2>1. CASE GiveUp
    <3>1. UNCHANGED workers /\ out' = Append(out, [worker |-> 0, tally |-> tally])
      BY <2>1 DEF GiveUp
    <3>2. Len(reasons) = Len(workers)
      BY <2>1 DEF GiveUp, OneReasonEach, TypeOK
    <3>3. SumOver(tally, Reason) = Len(workers)
      BY <3>2, TallyCountsAll DEF TypeOK
    <3>4. out \in Seq(Outcome)
      BY DEF TypeOK, Outcome
    <3>5. ASSUME NEW k \in DOMAIN out', out'[k].worker = 0
          PROVE  SumOver(out'[k].tally, Reason) = Len(workers)
      <4>1. CASE k \in DOMAIN out
        <5>1. out'[k] = out[k]
          BY <3>1, <3>4, <4>1
        <5> QED
          BY <3>5, <4>1, <5>1 DEF TalliesAddUp
      <4>2. CASE k \notin DOMAIN out
        <5>1. out'[k] = [worker |-> 0, tally |-> tally]
          BY <3>1, <3>4, <3>5, <4>2
        <5> QED
          BY <3>3, <5>1
      <4> QED
        BY <4>1, <4>2
    <3> QED
      BY <3>1, <3>5 DEF TalliesAddUp
  <2>2. CASE Bind
    <3>1. UNCHANGED workers /\ out' = Append(out, [worker |-> best.worker, tally |-> NoTally])
      BY <2>2 DEF Bind
    <3>2. best.worker # 0
      <4>1. workers \in Seq(Views) /\ best.worker \in DOMAIN workers
        BY <2>2 DEF Bind, TypeOK
      <4> QED
        BY <4>1
    <3>3. out \in Seq(Outcome)
      BY DEF TypeOK, Outcome
    <3>4. ASSUME NEW k \in DOMAIN out', out'[k].worker = 0
          PROVE  SumOver(out'[k].tally, Reason) = Len(workers)
      <4>1. k \in DOMAIN out /\ out'[k] = out[k]
        BY <3>1, <3>2, <3>3, <3>4
      <4> QED
        BY <3>4, <4>1 DEF TalliesAddUp
    <3> QED
      BY <3>1, <3>4 DEF TalliesAddUp
  <2>3. CASE Consider \/ UNCHANGED vars
    BY <2>3 DEF Consider, vars, TalliesAddUp
  <2> QED
    BY <2>1, <2>2, <2>3 DEF Next
<1>3. TalliesAddUp => EveryWorkerAccountedFor
  BY DEF TalliesAddUp, EveryWorkerAccountedFor, SumOver, MapThenSumSet, MapThenFoldSet
<1> QED
  BY <1>1, <1>2, <1>3, TypeCorrect, OneReasonEachStep, PTL DEF Spec

------------------------------------------------------------------------------
(* Where a container is put, it was admitted.                                *)

\* Request, worker and position such that the filter passes, given some usage.
Admissible ==
  {t \in Requests \X Views \X (Nat \ {0}) : \E used \in Usage : admits(t[1], t[2], t[3], used)}

PlacedWhereAdmitted ==
  \A k \in DOMAIN out : out[k].worker # 0 =>
    /\ k \in DOMAIN pending /\ out[k].worker \in DOMAIN workers
    /\ <<pending[k], workers[out[k].worker], out[k].worker>> \in Admissible

LEMMA PlacedWhereAdmittedStep ==
  TypeOK /\ PickFits /\ PlacedWhereAdmitted /\ [Next]_vars => PlacedWhereAdmitted'
<1> SUFFICES ASSUME TypeOK, PickFits, PlacedWhereAdmitted, [Next]_vars
             PROVE  PlacedWhereAdmitted'
  OBVIOUS
<1>0. out \in Seq(Outcome) /\ pending \in Seq(Requests) /\ workers \in Seq(Views)
  BY DEF TypeOK, Outcome
<1>1. CASE Bind
  <2> DEFINE n == Len(out) + 1
             b == best.worker
  <2>1. /\ UNCHANGED <<pending, workers>>
        /\ out' = Append(out, [worker |-> b, tally |-> NoTally])
    BY <1>1 DEF Bind
  <2>2. b \in DOMAIN workers /\ allocated[b] \in Usage
    BY <1>1 DEF Bind, TypeOK, Usage
  <2>3. n \in DOMAIN pending /\ request = pending[n]
    BY <1>0, <1>1 DEF Bind, More, request
  <2>4. <<pending[n], workers[b], b>> \in Admissible
    <3>1. admits(pending[n], workers[b], b, allocated[b])
      BY <1>1, <2>3 DEF Bind, PickFits
    <3>2. pending[n] \in Requests /\ workers[b] \in Views /\ b \in Nat \ {0}
      BY <1>0, <2>2, <2>3
    <3> HIDE DEF n, b
    <3> QED
      BY <2>2, <3>1, <3>2 DEF Admissible
  <2>5. ASSUME NEW k \in DOMAIN out', out'[k].worker # 0
        PROVE  /\ k \in DOMAIN pending /\ out'[k].worker \in DOMAIN workers
               /\ <<pending[k], workers[out'[k].worker], out'[k].worker>> \in Admissible
    <3>1. CASE k \in DOMAIN out
      <4>1. out'[k] = out[k]
        BY <1>0, <2>1, <3>1
      <4> QED
        BY <2>5, <3>1, <4>1 DEF PlacedWhereAdmitted
    <3>2. CASE k \notin DOMAIN out
      <4>1. k = n /\ out'[k].worker = b
        BY <1>0, <2>1, <2>5, <3>2
      <4> QED
        BY <2>2, <2>3, <2>4, <4>1
    <3> QED
      BY <3>1, <3>2
  <2> QED
    BY <2>1, <2>5 DEF PlacedWhereAdmitted
<1>2. CASE GiveUp
  <2>1. /\ UNCHANGED <<pending, workers>>
        /\ out' = Append(out, [worker |-> 0, tally |-> tally])
    BY <1>2 DEF GiveUp
  <2>2. ASSUME NEW k \in DOMAIN out', out'[k].worker # 0
        PROVE  k \in DOMAIN out /\ out'[k] = out[k]
    BY <1>0, <2>1, <2>2
  <2> QED
    BY <2>1, <2>2 DEF PlacedWhereAdmitted
<1>3. CASE Consider \/ UNCHANGED vars
  <2>1. UNCHANGED <<pending, workers, out>>
    BY <1>3 DEF Consider, vars
  <2> QED
    BY <2>1 DEF PlacedWhereAdmitted
<1> QED
  BY <1>1, <1>2, <1>3 DEF Next

LEMMA PlacementsWereAdmitted == Spec => [](TypeOK /\ PlacedWhereAdmitted)
<1>1. Init => PickFits /\ PlacedWhereAdmitted
  BY DEF Init, PickFits, PlacedWhereAdmitted
<1> QED
  BY <1>1, TypeCorrect, PickFitsStep, PlacedWhereAdmittedStep, PTL DEF Spec
==============================================================================
