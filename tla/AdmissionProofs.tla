---------------------------- MODULE AdmissionProofs ----------------------------
(***************************************************************************)
(* Proofs about Admission, for every set of documents: what a container's  *)
(* own document demands holds of the worker it is put on.                  *)
(***************************************************************************)
EXTENDS Admission, SchedulerProofs

------------------------------------------------------------------------------
(* Keep: what is kept of a sequence.                                         *)

Turn(s, good, f, i) ==
  IF i = 0 THEN << >>
  ELSE IF s[i] \in good THEN Append(f[i-1], s[i]) ELSE f[i-1]

Turns(s, good, f, n) == f = [i \in 0..n |-> Turn(s, good, f, i)]

\* The recursive function in Keep exists, so Keep is its last value.
LEMMA KeepUnfolds ==
  ASSUME NEW A, NEW s \in Seq(A), NEW good
  PROVE  \E f : Turns(s, good, f, Len(s)) /\ Keep(s, good) = f[Len(s)]
<1> DEFINE P == {n \in Nat : \E f : Turns(s, good, f, n)}
           c == CHOOSE f : f = [i \in 0..Len(s) |->
                  IF i = 0 THEN << >>
                  ELSE IF s[i] \in good THEN Append(f[i-1], s[i]) ELSE f[i-1]]
<1>1. 0 \in P
  <2> DEFINE f == [i \in 0..0 |-> << >>]
  <2>1. Turns(s, good, f, 0)
    BY DEF Turns, Turn
  <2> QED
    BY <2>1
<1>2. ASSUME NEW n \in P PROVE n + 1 \in P
  <2>0. n \in Nat
    OBVIOUS
  <2>1. PICK f : Turns(s, good, f, n)
    OBVIOUS
  <2> DEFINE g == [i \in 0..(n + 1) |-> Turn(s, good, f, i)]
  <2>2. \A i \in 0..n : g[i] = f[i]
    BY <2>0, <2>1 DEF Turns
  <2>3. \A i \in 0..(n + 1) : i # 0 => i - 1 \in 0..n
    BY <2>0
  <2> HIDE DEF P
  <2>4. \A i \in 0..(n + 1) : Turn(s, good, g, i) = Turn(s, good, f, i)
    <3> SUFFICES ASSUME NEW i \in 0..(n + 1)
                 PROVE  Turn(s, good, g, i) = Turn(s, good, f, i)
      OBVIOUS
    <3>1. i # 0 => g[i-1] = f[i-1]
      BY <2>2, <2>3
    <3> HIDE DEF g
    <3> QED
      BY <3>1 DEF Turn
  <2>5. Turns(s, good, g, n + 1)
    BY <2>4 DEF Turns
  <2> QED
    BY <2>0, <2>5 DEF P
<1> HIDE DEF P
<1>3. P = Nat
  BY <1>1, <1>2, NumberInduction DEF P
<1>4. \E f : Turns(s, good, f, Len(s))
  <2>1. Len(s) \in P
    BY <1>3
  <2> QED
    BY <2>1 DEF P
<1>5. Turns(s, good, c, Len(s))
  BY <1>4 DEF Turns, Turn
<1>6. Keep(s, good) = c[Len(s)]
  BY DEF Keep
<1> HIDE DEF c
<1> QED
  BY <1>5, <1>6

\* What is kept is good and comes from the sequence, everything good is kept,
\* and a good head stays the head.
LEMMA KeepKeeps ==
  ASSUME NEW A, NEW s \in Seq(A), NEW good
  PROVE  LET k == Keep(s, good) IN
         /\ k \in Seq(A)
         /\ \A i \in DOMAIN k : k[i] \in good /\ \E j \in DOMAIN s : k[i] = s[j]
         /\ \A j \in DOMAIN s : s[j] \in good => \E i \in DOMAIN k : k[i] = s[j]
         /\ s # << >> /\ Head(s) \in good => k # << >> /\ Head(k) = Head(s)
<1>1. PICK f : Turns(s, good, f, Len(s)) /\ Keep(s, good) = f[Len(s)]
  BY KeepUnfolds
<1> DEFINE Kept(n) ==
      /\ f[n] \in Seq(A)
      /\ \A i \in 1..Len(f[n]) : f[n][i] \in good /\ \E j \in 1..n : f[n][i] = s[j]
      /\ \A j \in 1..n : s[j] \in good => \E i \in 1..Len(f[n]) : f[n][i] = s[j]
      /\ n > 0 /\ s[1] \in good => Len(f[n]) > 0 /\ f[n][1] = s[1]
    P == {n \in Nat : n <= Len(s) => Kept(n)}
<1>2. Len(s) \in Nat /\ \A n \in 0..Len(s) : f[n] = Turn(s, good, f, n)
  BY <1>1 DEF Turns
<1>3. 0 \in P
  <2>1. f[0] = << >>
    BY <1>2 DEF Turn
  <2> DEFINE z == f[0]
  <2>2. z \in Seq(A) /\ 1..Len(z) = {} /\ 1..0 = {}
    BY <2>1
  <2> HIDE DEF z
  <2>3. Kept(0)
    BY <2>2 DEF z
  <2> QED
    BY <2>3
<1>4. ASSUME NEW n \in P PROVE n + 1 \in P
  <2> SUFFICES ASSUME n + 1 <= Len(s) PROVE Kept(n + 1)
    BY DEF P
  <2>0. n \in Nat
    OBVIOUS
  <2>1. Kept(n)
    BY <1>2, <2>0
  <2>2. n + 1 \in 1..Len(s) /\ n + 1 # 0 /\ (n + 1) - 1 = n /\ s[n + 1] \in A
    BY <1>2, <2>0
  <2> DEFINE t == f[n]
             u == f[n + 1]
             x == s[n + 1]
  <2>3. u = IF x \in good THEN Append(t, x) ELSE t
    BY <1>2, <2>2 DEF Turn
  <2>4. /\ t \in Seq(A)
        /\ \A i \in 1..Len(t) : t[i] \in good /\ \E j \in 1..n : t[i] = s[j]
        /\ \A j \in 1..n : s[j] \in good => \E i \in 1..Len(t) : t[i] = s[j]
        /\ n > 0 /\ s[1] \in good => Len(t) > 0 /\ t[1] = s[1]
    BY <2>1
  <2>5. Kept(n + 1) <=>
          /\ u \in Seq(A)
          /\ \A i \in 1..Len(u) : u[i] \in good /\ \E j \in 1..(n + 1) : u[i] = s[j]
          /\ \A j \in 1..(n + 1) : s[j] \in good => \E i \in 1..Len(u) : u[i] = s[j]
          /\ n + 1 > 0 /\ s[1] \in good => Len(u) > 0 /\ u[1] = s[1]
    OBVIOUS
  <2>6. \A j \in 1..(n + 1) : j \in 1..n \/ j = n + 1
    BY <2>0
  <2>7. x \in A /\ (n = 0 => x = s[1]) /\ 1..n \subseteq 1..(n + 1) /\ n + 1 \in 1..(n + 1)
    BY <2>0, <2>2
  <2>8. s[n + 1] = x
    OBVIOUS
  <2> HIDE DEF t, u, x, P, Kept
  <2>9. CASE x \in good
    <3>1. u = Append(t, x) /\ u \in Seq(A) /\ Len(u) = Len(t) + 1 /\ Len(t) \in Nat
      BY <2>3, <2>4, <2>7, <2>9
    <3>2. u[Len(u)] = x /\ \A i \in 1..Len(t) : u[i] = t[i]
      BY <2>4, <2>7, <3>1
    <3>3. \A i \in 1..Len(u) : i \in 1..Len(t) \/ i = Len(u)
      BY <3>1
    <3>4. \A i \in 1..Len(u) : u[i] \in good /\ \E j \in 1..(n + 1) : u[i] = s[j]
      <4> SUFFICES ASSUME NEW i \in 1..Len(u)
                   PROVE  u[i] \in good /\ \E j \in 1..(n + 1) : u[i] = s[j]
        OBVIOUS
      <4>1. CASE i \in 1..Len(t)
        BY <2>4, <2>7, <3>2, <4>1
      <4>2. CASE i = Len(u)
        BY <2>7, <2>8, <2>9, <3>2, <4>2
      <4> QED
        BY <3>3, <4>1, <4>2
    <3>5. \A j \in 1..(n + 1) : s[j] \in good => \E i \in 1..Len(u) : u[i] = s[j]
      <4>1. Len(u) \in 1..Len(u) /\ 1..Len(t) \subseteq 1..Len(u)
        BY <3>1
      <4>2. ASSUME NEW j \in 1..n, s[j] \in good PROVE \E i \in 1..Len(u) : u[i] = s[j]
        BY <2>4, <3>2, <4>1, <4>2
      <4> QED
        BY <2>6, <2>8, <3>2, <4>1, <4>2
    <3>6. s[1] \in good => Len(u) > 0 /\ u[1] = s[1]
      <4>1. CASE n = 0
        <5>1. Len(t) = 0
          BY <2>4, <3>1, <4>1
        <5> QED
          BY <2>7, <3>1, <3>2, <4>1, <5>1
      <4>2. CASE n > 0
        BY <2>4, <3>1, <3>2, <4>2
      <4> QED
        BY <2>0, <4>1, <4>2
    <3> QED
      BY <2>5, <3>1, <3>4, <3>5, <3>6
  <2>10. CASE x \notin good
    <3>1. u = t
      BY <2>3, <2>10
    <3>2. n = 0 => s[1] \notin good
      BY <2>7, <2>10
    <3>3. \A j \in 1..(n + 1) : s[j] \in good => j \in 1..n
      BY <2>6, <2>8, <2>10
    <3>4. s[1] \in good => n > 0
      BY <2>0, <3>2
    <3> QED
      BY <2>4, <2>5, <2>7, <3>1, <3>3, <3>4
  <2> QED
    BY <2>9, <2>10
<1>5. P = Nat
  <2>1. P \in SUBSET Nat
    OBVIOUS
  <2> HIDE DEF P
  <2> QED
    BY <1>3, <1>4, <2>1, NumberInduction
<1>6. Kept(Len(s))
  <2>1. Len(s) \in P /\ Len(s) <= Len(s)
    BY <1>2, <1>5
  <2> HIDE DEF Kept
  <2> QED
    BY <2>1
<1> DEFINE k == Keep(s, good)
<1>7. /\ k \in Seq(A)
      /\ \A i \in 1..Len(k) : k[i] \in good /\ \E j \in 1..Len(s) : k[i] = s[j]
      /\ \A j \in 1..Len(s) : s[j] \in good => \E i \in 1..Len(k) : k[i] = s[j]
      /\ Len(s) > 0 /\ s[1] \in good => Len(k) > 0 /\ k[1] = s[1]
  BY <1>1, <1>6
<1> HIDE DEF k, Kept, P
<1>8. DOMAIN k = 1..Len(k) /\ DOMAIN s = 1..Len(s)
  BY <1>7
<1>9. s # << >> /\ Head(s) \in good => k # << >> /\ Head(k) = Head(s)
  <2>1. s # << >> => Len(s) > 0 /\ Head(s) = s[1]
    OBVIOUS
  <2>2. Len(k) > 0 => k # << >> /\ Head(k) = k[1]
    BY <1>7
  <2> QED
    BY <1>7, <2>1, <2>2
<1>10. /\ k \in Seq(A)
       /\ \A i \in DOMAIN k : k[i] \in good /\ \E j \in DOMAIN s : k[i] = s[j]
       /\ \A j \in DOMAIN s : s[j] \in good => \E i \in DOMAIN k : k[i] = s[j]
  BY <1>7, <1>8
<1> QED
  BY <1>9, <1>10 DEF k

\* The same of the values of an expression, with the filter written out.
LEMMA KeptOfAnArray ==
  ASSUME NEW values \in Array, NEW good
  PROVE  /\ \A i \in DOMAIN Keep(values, good) :
              \E j \in DOMAIN values : Keep(values, good)[i] = values[j]
         /\ \A j \in DOMAIN values : values[j] \in good =>
              \E i \in DOMAIN Keep(values, good) : Keep(values, good)[i] = values[j]
         /\ values # << >> /\ Head(values) \in good =>
              Keep(values, good) # << >> /\ Head(Keep(values, good)) = Head(values)
<1> DEFINE A == Int \cup {NotANumber, NotAString}
           k == Keep(values, good)
<1>1. values \in Seq(A)
  BY DEF Array
<1> HIDE DEF A
<1>2. /\ \A i \in DOMAIN k : k[i] \in good /\ \E j \in DOMAIN values : k[i] = values[j]
      /\ \A j \in DOMAIN values : values[j] \in good => \E i \in DOMAIN k : k[i] = values[j]
      /\ values # << >> /\ Head(values) \in good => k # << >> /\ Head(k) = Head(values)
  BY <1>1, KeepKeeps
<1> HIDE DEF k
<1>3. /\ \A i \in DOMAIN k : \E j \in DOMAIN values : k[i] = values[j]
      /\ \A j \in DOMAIN values : values[j] \in good => \E i \in DOMAIN k : k[i] = values[j]
      /\ values # << >> /\ Head(values) \in good => k # << >> /\ Head(k) = Head(values)
  BY <1>2
<1> QED
  BY <1>3 DEF k

------------------------------------------------------------------------------
(* The four readings of a document agree.                                    *)

\* Stamping the default leaves every other field as it was posted.
LEMMA StampKeepsFields ==
  ASSUME NEW spec \in AdmittedSpecs
  PROVE  \E s \in Specs :
           /\ validate_placement(s)
           /\ \A f, d : f # "desiredState" => Get(spec, f, d) = Get(s, f, d)
<1>1. PICK s \in Specs : validate_placement(s) /\ spec = normalize_desired_state(s)
  BY DEF AdmittedSpecs
<1>2. /\ DOMAIN spec = DOMAIN s \cup {"desiredState"}
      /\ \A f \in DOMAIN s : spec[f] = s[f]
  BY <1>1 DEF normalize_desired_state
<1>3. ASSUME NEW f, NEW d, f # "desiredState" PROVE Get(spec, f, d) = Get(s, f, d)
  <2>1. CASE f \in DOMAIN s
    BY <1>2, <2>1 DEF Get
  <2>2. CASE f \notin DOMAIN s
    <3>1. f \notin DOMAIN spec
      BY <1>2, <1>3, <2>2
    <3> QED
      BY <2>2, <3>1 DEF Get
  <2> QED
    BY <2>1, <2>2
<1> QED
  BY <1>1, <1>3

\* A document that was admitted is valid, and typed where it is read.
LEMMA AdmittedIsValid ==
  ASSUME NEW spec \in AdmittedSpecs
  PROVE  /\ validate_placement(spec)
         /\ Get(spec, "nodeName", 1) # NoPin
         /\ Get(Get(spec, "resources", NoObject), "cpu", DEFAULT_CPU) \in Nat
         /\ \A term \in Get(Get(spec, "affinity", NoObject), "required", {}) :
              \A e \in Get(term, "matchExpressions", {}) : Get(e, "values", << >>) \in Array
<1>1. PICK s \in Specs :
        /\ validate_placement(s)
        /\ \A f, d : f # "desiredState" => Get(spec, f, d) = Get(s, f, d)
  BY StampKeepsFields
<1>2. /\ Get(spec, "nodeName", 1) = Get(s, "nodeName", 1)
      /\ Get(spec, "resources", NoObject) = Get(s, "resources", NoObject)
      /\ Get(spec, "affinity", NoObject) = Get(s, "affinity", NoObject)
      /\ Get(spec, "tolerations", {}) = Get(s, "tolerations", {})
  BY <1>1
<1>3. validate_placement(spec)
  BY <1>1, <1>2 DEF validate_placement
<1> QED
  BY <1>2, <1>3, SpecsAssumption

\* An expression that admission accepted and that has a key is parsed, and the
\* parsed requirement demands what the expression does: dropping the values
\* that are no strings changes nothing for labels, which are.
LEMMA ParsedDemandsTheSame ==
  ASSUME NEW e, NEW labels,
         \A k \in DOMAIN labels : labels[k] # NotAString,
         Get(e, "values", << >>) \in Array,
         Get(e, "key", "none") # "none",
         LET op == Get(e, "operator", "none")
             values == Get(e, "values", << >>)
         IN \/ op \in {"In", "NotIn", "Exists", "DoesNotExist"}
            \/ op \in {"Gt", "Lt"} /\ values # << >>
                 /\ Head(values) \notin {NotANumber, NotAString}
  PROVE  /\ Parses(e)
         /\ requirement_matches(parse_requirement(e), labels) => Met(e, labels)
<1> DEFINE op == Get(e, "operator", "none")
           values == Get(e, "values", << >>)
           good == Range(values) \ {NotAString}
           kept == Keep(values, good)
           r == [key |-> e.key, operator |-> e.operator, values |-> values]
           p == parse_requirement(e)
<1>1. op = e.operator /\ op \in parse_operator
  BY DEF Get, parse_operator
<1>2. Parses(e)
  BY <1>1 DEF Parses
<1>3. p = [key |-> e.key, operator |-> e.operator, values |-> kept]
  BY DEF parse_requirement
<1>4. /\ \A i \in DOMAIN kept : \E j \in DOMAIN values : kept[i] = values[j]
      /\ \A j \in DOMAIN values : values[j] \in good => \E i \in DOMAIN kept : kept[i] = values[j]
      /\ values # << >> /\ Head(values) \in good => kept # << >> /\ Head(kept) = Head(values)
  <2>1. values \in Array
    OBVIOUS
  <2> HIDE DEF op, values, good, r, p
  <2> QED
    BY <2>1, KeptOfAnArray DEF kept
<1>5. \A j \in DOMAIN values : values[j] # NotAString => values[j] \in good
  BY DEF Range
<1>6. ASSUME NEW k \in DOMAIN labels
      PROVE  IsOneOf(labels[k], kept) <=> IsOneOf(labels[k], values)
  <2> HIDE DEF kept, values, good
  <2> QED
    BY <1>4, <1>5 DEF IsOneOf
<1>7. values # << >> /\ Head(values) # NotAString => kept # << >> /\ Head(kept) = Head(values)
  <2>1. values # << >> => 1 \in DOMAIN values /\ Head(values) = values[1]
    BY DEF Array
  <2> HIDE DEF kept, values, good
  <2> QED
    BY <1>4, <1>5, <2>1
<1>8. op \in {"Gt", "Lt"} => values # << >> /\ Head(values) # NotAString
  OBVIOUS
<1>9. requirement_matches(p, labels) => requirement_matches(r, labels)
  <2>1. /\ p.key = e.key /\ p.operator = op /\ p.values = kept
        /\ r.key = e.key /\ r.operator = op /\ r.values = values
    BY <1>1, <1>3
  <2> HIDE DEF p, r, kept, values, good, op
  <2> QED
    BY <1>6, <1>7, <1>8, <2>1 DEF requirement_matches, BothParse
<1> QED
  BY <1>2, <1>9 DEF Met

\* A toleration, as parsed, covers only the taints that the one written covers.
LEMMA ToleratedIsCovered ==
  ASSUME NEW t, NEW taint, taint.key # "",
         Get(t, "operator", "Equal") \in {"Equal", "Exists"},
         tolerates(parse_toleration(t), taint)
  PROVE  Covers(t, taint)
<1> DEFINE p == parse_toleration(t)
<1>1. /\ p.key = Get(t, "key", "") /\ p.operator = Get(t, "operator", "Equal")
      /\ p.value = Get(t, "value", "")
      /\ p.effect = parse_taint_effect(Get(t, "effect", "Any"))
  BY DEF parse_toleration
<1>2. Get(t, "effect", "Any") \in TaintEffect => t.effect = taint.effect
  <2> SUFFICES ASSUME Get(t, "effect", "Any") \in TaintEffect PROVE t.effect = taint.effect
    OBVIOUS
  <2>1. Get(t, "effect", "Any") = t.effect
    BY DEF Get, TaintEffect
  <2>2. p.effect = t.effect /\ t.effect # "Any"
    BY <1>1, <2>1 DEF parse_taint_effect, TaintEffect
  <2>3. p.effect \in {"Any", taint.effect}
    BY DEF tolerates
  <2> QED
    BY <2>2, <2>3
<1>3. \/ Get(t, "operator", "Equal") = "Exists" /\ Get(t, "key", "") \in {"", taint.key}
      \/ "key" \in DOMAIN t /\ t.key = taint.key /\ Get(t, "value", "") = taint.value
  <2>1. CASE p.operator = "Exists"
    BY <1>1, <2>1 DEF tolerates
  <2>2. CASE p.operator = "Equal"
    <3>1. Get(t, "key", "") = taint.key /\ Get(t, "value", "") = taint.value
      BY <1>1, <2>2 DEF tolerates
    <3>2. "key" \in DOMAIN t /\ t.key = taint.key
      BY <3>1 DEF Get
    <3> QED
      BY <3>1, <3>2
  <2> QED
    BY <1>1, <2>1, <2>2
<1> QED
  BY <1>2, <1>3 DEF Covers

\* The taints of a worker that was admitted have a key.
LEMMA TaintsHaveKeys ==
  ASSUME NEW w \in Views, NEW i \in DOMAIN w.taints
  PROVE  w.taints[i].key # ""
<1>1. PICK spec \in AdmittedWorkerSpecs : w.taints = parse_taints(spec)
  BY ViewsAssumption
<1> DEFINE taints == Get(spec, "taints", << >>)
           good == {t \in Range(taints) : /\ Get(t, "key", NotAString) # NotAString
                                          /\ Get(t, "effect", "none") \in TaintEffect}
           whole == Keep(taints, good)
<1>2. taints \in Seq(Range(taints))
  BY SpecsAssumption DEF AdmittedWorkerSpecs
<1>3. \A k \in DOMAIN whole : whole[k] \in good
  <2> HIDE DEF taints, good
  <2> QED
    BY <1>2, KeepKeeps DEF whole
<1>4. parse_taints(spec) = [k \in DOMAIN whole |->
                             [key |-> whole[k].key, value |-> Get(whole[k], "value", ""),
                              effect |-> whole[k].effect]]
  BY DEF parse_taints
<1> DEFINE parsed == parse_taints(spec)
<1> HIDE DEF whole, good, taints, parsed
<1>5. i \in DOMAIN whole /\ w.taints[i].key = whole[i].key
  <2>1. i \in DOMAIN parsed /\ w.taints[i] = parsed[i]
    BY <1>1 DEF parsed
  <2>2. i \in DOMAIN whole
    BY <1>4, <2>1 DEF parsed
  <2>3. parsed[i] = [key |-> whole[i].key, value |-> Get(whole[i], "value", ""),
                     effect |-> whole[i].effect]
    BY <1>4, <2>2 DEF parsed
  <2> DEFINE k == whole[i].key
             v == Get(whole[i], "value", "")
             f == whole[i].effect
  <2>4. w.taints[i] = [key |-> k, value |-> v, effect |-> f]
    BY <2>1, <2>3
  <2> HIDE DEF k, v, f
  <2>5. w.taints[i].key = k
    BY <2>4
  <2> QED
    BY <2>2, <2>5 DEF k
<1>6. Get(whole[i], "key", "") # ""
  <2>1. whole[i] \in Range(taints)
    BY <1>3, <1>5 DEF good
  <2>2. \A t \in Range(taints) : Get(t, "key", "") # ""
    BY DEF AdmittedWorkerSpecs, validate_taints, taints, Range
  <2> QED
    BY <2>1, <2>2
<1>7. Get(whole[i], "key", "") = whole[i].key
  <2>1. Get(whole[i], "key", NotAString) # NotAString
    BY <1>3, <1>5 DEF good
  <2> QED
    BY <2>1 DEF Get
<1> QED
  BY <1>5, <1>6, <1>7

\* The filter lets through only what the document allows.
LEMMA AdmittedIsAllowed ==
  ASSUME NEW spec \in AdmittedSpecs, NEW w \in Views, NEW j \in Nat \ {0}, NEW used \in Usage,
         admits(container_placement_request(spec), w, j, used)
  PROVE  Allows(spec, j, w)
<1> DEFINE req == container_placement_request(spec)
           selector == Get(spec, "nodeSelector", NoObject)
           required == Get(Get(spec, "affinity", NoObject), "required", {})
           cpu == Get(Get(spec, "resources", NoObject), "cpu", DEFAULT_CPU)
<1>1. /\ w.ready /\ ~w.unschedulable
      /\ free_cpu(w, used) >= req.cpu
      /\ req.nodeName \in {NoPin, j}
      /\ node_selector_matches(req.nodeSelector, w.labels)
      /\ required_matches(req.required, w.labels)
      /\ untolerated(req, w, "NoSchedule") = {}
  <2>1. \A i \in {1, 2, 3, 5, 6, 7, 8} : checks(req, w, j, used)[i][2]
    BY DEF admits
  <2> HIDE DEF req
  <2> QED
    BY <2>1 DEF checks
<1>2. /\ req.nodeName = Get(spec, "nodeName", NoPin)
      /\ req.nodeSelector = parse_node_selector(spec)
      /\ req.tolerations = parse_tolerations(spec)
      /\ req.required = parse_affinity(spec).required
      /\ req.cpu = container_request(spec).cpu
  BY DEF container_placement_request
<1> HIDE DEF req
<1>3. Get(spec, "nodeName", j) = j
  <2>1. "nodeName" \in DOMAIN spec /\ spec.nodeName # NotAString => spec.nodeName # NoPin
    BY AdmittedIsValid DEF Get
  <2> QED
    BY <1>1, <1>2, <2>1 DEF Get
<1>4. \A k \in DOMAIN selector :
        selector[k] # NotAString => k \in DOMAIN w.labels /\ w.labels[k] = selector[k]
  BY <1>1, <1>2 DEF parse_node_selector, node_selector_matches
<1>5. required # {} =>
        \E term \in required : \A e \in Get(term, "matchExpressions", {}) : Met(e, w.labels)
  <2> SUFFICES ASSUME required # {}
               PROVE  \E term \in required :
                        \A e \in Get(term, "matchExpressions", {}) : Met(e, w.labels)
    OBVIOUS
  <2>1. req.required = {parse_term(t) : t \in required}
    BY <1>2 DEF parse_affinity
  <2>2. PICK term \in required : term_matches(parse_term(term), w.labels)
    <3>1. req.required # {}
      BY <2>1
    <3> HIDE DEF required
    <3> QED
      BY <1>1, <2>1, <3>1 DEF required_matches
  <2>3. validate_term(term)
    BY AdmittedIsValid DEF validate_placement
  <2>4. ASSUME NEW e \in Get(term, "matchExpressions", {}) PROVE Met(e, w.labels)
    <3>1. CASE Get(e, "key", "none") = "none"
      BY <3>1 DEF Met
    <3>2. CASE Get(e, "key", "none") # "none"
      <4>1. Get(e, "values", << >>) \in Array
        BY AdmittedIsValid
      <4>2. \A k \in DOMAIN w.labels : w.labels[k] # NotAString
        BY ViewsAssumption
      <4>3. LET op == Get(e, "operator", "none")
                values == Get(e, "values", << >>)
            IN \/ op \in {"In", "NotIn", "Exists", "DoesNotExist"}
               \/ op \in {"Gt", "Lt"} /\ values # << >>
                    /\ Head(values) \notin {NotANumber, NotAString}
        BY <2>3 DEF validate_term
      <4>4. /\ Parses(e)
            /\ requirement_matches(parse_requirement(e), w.labels) => Met(e, w.labels)
        BY <3>2, <4>1, <4>2, <4>3, ParsedDemandsTheSame
      <4>5. parse_requirement(e) \in parse_term(term)
        BY <4>4 DEF parse_term
      <4> QED
        BY <2>2, <4>4, <4>5 DEF term_matches
    <3> QED
      BY <3>1, <3>2
  <2> QED
    BY <2>4
<1>6. \A i \in DOMAIN w.taints : w.taints[i].effect = "NoSchedule" =>
        \E t \in Get(spec, "tolerations", {}) : Covers(t, w.taints[i])
  <2> SUFFICES ASSUME NEW i \in DOMAIN w.taints, w.taints[i].effect = "NoSchedule"
               PROVE  \E t \in Get(spec, "tolerations", {}) : Covers(t, w.taints[i])
    OBVIOUS
  <2>1. Tolerated(req, w.taints[i])
    BY <1>1 DEF untolerated
  <2>2. PICK t \in Get(spec, "tolerations", {}) :
          /\ Get(t, "operator", "Equal") \in {"Equal", "Exists"}
          /\ tolerates(parse_toleration(t), w.taints[i])
    BY <1>2, <2>1 DEF Tolerated, parse_tolerations
  <2> QED
    BY <2>2, TaintsHaveKeys, ToleratedIsCovered
<1>7. cpu < U32 => cpu <= w.cpu
  <2>1. cpu \in Nat /\ U32 \in Nat \ {0}
    BY AdmittedIsValid, U32Assumption
  <2>2. req.cpu = cpu % U32
    BY <1>2 DEF container_request
  <2>3. w.cpu \in Nat /\ used.cpu \in Nat
    BY AmountsAssumption DEF Usage
  <2> DEFINE c == cpu
  <2>4. c \in Nat /\ free_cpu(w, used) >= c % U32
    BY <1>1, <2>1, <2>2
  <2> HIDE DEF c
  <2>5. c < U32 => c <= w.cpu
    BY <2>1, <2>3, <2>4 DEF free_cpu, saturating_sub
  <2> QED
    BY <2>5 DEF c
<1> QED
  BY <1>1, <1>3, <1>4, <1>5, <1>6, <1>7 DEF Allows

\* Where a container is put, its own document allows it: the worker is ready
\* and not cordoned, its pin, its selector, one of its terms and its ask for
\* cpus are met, and it tolerates every NoSchedule taint.  Admission, parser
\* and filter are separate code (server lib.rs:158-269, controllers.rs:113-279,
\* scheduler lib.rs), and what one of them leaves out no other relies on.
THEOREM DocumentsAreObeyed == Spec => []HardConstraintsHold
<1>1. TypeOK /\ PlacedWhereAdmitted => HardConstraintsHold
  <2> SUFFICES ASSUME TypeOK, PlacedWhereAdmitted,
                      NEW k \in DOMAIN out, out[k].worker # 0,
                      NEW spec \in AdmittedSpecs, container_placement_request(spec) = pending[k]
               PROVE  Allows(spec, out[k].worker, workers[out[k].worker])
    BY DEF HardConstraintsHold
  <2> DEFINE j == out[k].worker
  <2>1. PICK used \in Usage : admits(pending[k], workers[j], j, used)
    BY DEF PlacedWhereAdmitted, Admissible
  <2>2. j \in DOMAIN workers /\ workers \in Seq(Views)
    BY DEF PlacedWhereAdmitted, TypeOK
  <2>3. j \in Nat \ {0} /\ workers[j] \in Views
    BY <2>2
  <2>4. admits(container_placement_request(spec), workers[j], j, used)
    BY <2>1
  <2> HIDE DEF j
  <2>5. Allows(spec, j, workers[j])
    BY <2>3, <2>4, AdmittedIsAllowed
  <2> QED
    BY <2>5 DEF j
<1> QED
  BY <1>1, PlacementsWereAdmitted, PTL
==============================================================================
