--------------------------- MODULE PipelineProofs ---------------------------
(***************************************************************************)
(* Theorems about module Pipeline, for any descriptors, sizes of groups,   *)
(* planner inputs, buffers and widths of the integers: what plan() selects *)
(* is the best that the hard constraints leave, what it announces is exact *)
(* or saturated, and what the reference engine returns is the collective.  *)
(***************************************************************************)
EXTENDS Pipeline, InductionLemmas

-----------------------------------------------------------------------------
(* Checked and saturating products *)

\* Euclid: what \div returns.
LEMMA Quotient ==
  ASSUME NEW a \in Nat, NEW b \in Nat, b # 0
  PROVE  /\ a \div b \in Nat
         /\ (a \div b) * b <= a /\ a < (a \div b) * b + b
<1>1. a \div b \in Nat
  OBVIOUS
<1>2. (a \div b) * b <= a /\ a < (a \div b) * b + b
  OBVIOUS
<1> QED BY <1>1, <1>2

LEMMA Larger ==
  ASSUME NEW a \in Nat, NEW b \in Nat, NEW c \in Nat, a <= b
  PROVE  a * c <= b * c
OBVIOUS

\* The test of checked_mul, which divides, lets the products through that fit.
LEMMA CheckedProduct ==
  ASSUME NEW a \in Nat, NEW b \in Nat
  PROVE  /\ a * b \in Nat
         /\ CheckedMul(a, b) = IF a * b <= MaxU64 THEN {a * b} ELSE {}
<1>1. a * b \in Nat /\ MaxU64 \in Nat
  BY MaxU64Assumption
<1>2. CASE a = 0 \/ b = 0
  <2>1. a * b = 0
    BY <1>2
  <2> QED BY <1>1, <1>2, <2>1 DEF CheckedMul
<1>3. CASE a # 0 /\ b # 0
  <2> DEFINE q == MaxU64 \div b
  <2>1. q \in Nat /\ q * b <= MaxU64 /\ MaxU64 < q * b + b
    BY <1>1, <1>3, Quotient
  <2> HIDE DEF q
  <2>2. ASSUME a > q PROVE a * b > MaxU64
    <3>1. q + 1 \in Nat /\ q + 1 <= a
      BY <2>1, <2>2
    <3>2. (q + 1) * b <= a * b
      BY <3>1, Larger
    <3>3. (q + 1) * b = q * b + b
      BY <2>1
    <3>4. q * b \in Nat
      BY <2>1
    <3> QED BY <3>2, <3>3, <3>4, <2>1, <1>1
  <2>3. ASSUME ~ (a > q) PROVE a * b <= MaxU64
    <3>1. a <= q
      BY <2>1, <2>3
    <3>2. a * b <= q * b
      BY <3>1, <2>1, Larger
    <3>4. q * b \in Nat
      BY <2>1
    <3> QED BY <3>2, <3>4, <2>1, <1>1
  <2>4. CheckedMul(a, b) = IF a > q THEN {} ELSE {a * b}
    BY <1>3 DEF CheckedMul, q
  <2> QED BY <2>2, <2>3, <2>4, <1>1
<1> QED BY <1>1, <1>2, <1>3

\* sat_mul returns the product, or the largest uint64 if that does not fit.
LEMMA SaturatedProduct ==
  ASSUME NEW a \in Nat, NEW b \in Nat
  PROVE  /\ SatMul(a, b) \in 0 .. MaxU64
         /\ SatMul(a, b) = IF a * b <= MaxU64 THEN a * b ELSE MaxU64
<1> DEFINE product == a * b
<1>1. MaxU64 \in Nat /\ product \in Nat
  BY MaxU64Assumption
<1>2. CheckedMul(a, b) = IF product <= MaxU64 THEN {product} ELSE {}
  BY CheckedProduct
<1>3. SatMul(a, b) = IF CheckedMul(a, b) = {} THEN MaxU64 ELSE product
  BY DEF SatMul
<1> HIDE DEF product
<1>4. /\ SatMul(a, b) \in 0 .. MaxU64
      /\ SatMul(a, b) = IF product <= MaxU64 THEN product ELSE MaxU64
  BY <1>1, <1>2, <1>3
<1> QED BY <1>4 DEF product

\* Min returns the member that no other is below.
LEMMA LeastMember ==
  ASSUME NEW S \in SUBSET Nat, S # {}
  PROVE  Min(S) \in S /\ \A x \in S : Min(S) <= x
<1>1. \E m \in S : \A x \in S : m <= x
  BY Least
<1> QED BY <1>1 DEF Min

LEMMA LesserOfTwo ==
  ASSUME NEW a \in Nat, NEW b \in Nat
  PROVE  Min({a, b}) = IF a <= b THEN a ELSE b
<1>1. {a, b} \in SUBSET Nat /\ {a, b} # {}
  OBVIOUS
<1> DEFINE m == Min({a, b})
<1>2. m \in {a, b} /\ m <= a /\ m <= b
  BY <1>1, LeastMember
<1> HIDE DEF m
<1>3. m = IF a <= b THEN a ELSE b
  BY <1>2
<1> QED BY <1>3 DEF m

\* ceil_log2 ends, and after no more rounds than there are ranks.
LEMMA Logarithm ==
  ASSUME NEW ranks \in Nat
  PROVE  CeilLog2(ranks) \in 0 .. ranks
<1> DEFINE step == [k \in 1 .. ranks |-> [x \in Nat |-> 2 * x]]
           F == CHOOSE f : f = [s \in 0 .. ranks |-> IF s = 0 THEN 1 ELSE 2 * f[s - 1]]
<1>1. step \in StepFunctions(ranks, Nat)
  BY DEF StepFunctions
<1>2. PICK g : Iterates(g, ranks, Nat, 1, step)
  BY <1>1, Recursion
<1>3. g \in [0 .. ranks -> Nat] /\ g[0] = 1 /\ \A k \in 1 .. ranks : g[k] = step[k][g[k - 1]]
  BY <1>2 DEF Iterates
<1>4. ASSUME NEW k \in 1 .. ranks PROVE g[k] = 2 * g[k - 1]
  <2>1. k - 1 \in 0 .. ranks
    OBVIOUS
  <2>2. g[k - 1] \in Nat
    BY <2>1, <1>3
  <2> QED BY <2>2, <1>3
<1>5. g = [s \in 0 .. ranks |-> IF s = 0 THEN 1 ELSE 2 * g[s - 1]]
  <2>1. ASSUME NEW s \in 0 .. ranks PROVE g[s] = IF s = 0 THEN 1 ELSE 2 * g[s - 1]
    <3>1. CASE s = 0
      BY <3>1, <1>3
    <3>2. CASE s # 0
      <4>1. s \in 1 .. ranks
        BY <3>2
      <4> QED BY <4>1, <3>2, <1>4
    <3> QED BY <3>1, <3>2
  <2> QED BY <2>1, <1>3
<1>6. F = [s \in 0 .. ranks |-> IF s = 0 THEN 1 ELSE 2 * F[s - 1]]
  BY <1>5
<1>7. CeilLog2(ranks) = Min({s \in 0 .. ranks : ranks <= F[s]})
  BY DEF CeilLog2
<1> HIDE DEF F
<1> DEFINE G == {s \in 0 .. ranks : F[s] \in Nat /\ s < F[s]}
<1>8. 0 .. ranks \subseteq G
  <2>1. 0 \in G
    BY <1>6
  <2>2. ASSUME NEW k \in 0 .. ranks, k < ranks, k \in G PROVE k + 1 \in G
    <3>1. k + 1 \in 0 .. ranks /\ k + 1 # 0 /\ (k + 1) - 1 = k
      BY <2>2
    <3>2. F[k + 1] = 2 * F[k]
      BY <3>1, <1>6
    <3> QED BY <3>1, <3>2, <2>2
  <2> HIDE DEF G
  <2>3. \A k \in 0 .. ranks : k < ranks /\ k \in G => k + 1 \in G
    BY <2>2
  <2> QED BY <2>1, <2>3, UpTo
<1> DEFINE S == {s \in 0 .. ranks : ranks <= F[s]}
<1>9. ranks \in S /\ S \in SUBSET Nat
  BY <1>8
<1>10. Min(S) \in S
  BY <1>9, LeastMember
<1> QED BY <1>7, <1>10


-----------------------------------------------------------------------------
(* What a candidate is expected to cost *)

Names == {"DIRECT", "RING", "TREE", "RECURSIVE_DOUBLING", "REDUCE_BROADCAST",
          "HIERARCHICAL", "BACKEND_DEFAULT", "UNKNOWN"}

LEMMA AlgorithmNames ==
  /\ DOMAIN Algorithm = 1 .. 8 /\ Len(Algorithm) = 8
  /\ \A i \in 1 .. 8 : Algorithm[i] \in Names
  /\ Range(Algorithm) = Names
  /\ \A i \in 1 .. 8 : Algorithm[i] = "BACKEND_DEFAULT" <=> i = 7
<1>1. DOMAIN Algorithm = 1 .. 8 /\ Len(Algorithm) = 8
  BY DEF Algorithm
<1>2. /\ Algorithm[1] = "DIRECT" /\ Algorithm[2] = "RING" /\ Algorithm[3] = "TREE"
      /\ Algorithm[4] = "RECURSIVE_DOUBLING" /\ Algorithm[5] = "REDUCE_BROADCAST"
      /\ Algorithm[6] = "HIERARCHICAL" /\ Algorithm[7] = "BACKEND_DEFAULT"
      /\ Algorithm[8] = "UNKNOWN"
  BY DEF Algorithm
<1>3. \A i \in 1 .. 8 : i \in {1, 2, 3, 4, 5, 6, 7, 8}
  OBVIOUS
<1>4. \A i \in 1 .. 8 : Algorithm[i] \in Names
  BY <1>2, <1>3 DEF Names
<1>5. Range(Algorithm) = Names
  BY <1>1, <1>2, <1>3 DEF Range, Names
<1>6. \A i \in 1 .. 8 : Algorithm[i] = "BACKEND_DEFAULT" <=> i = 7
  BY <1>2, <1>3
<1> QED BY <1>1, <1>4, <1>5, <1>6

\* The rounds that model_path expects are a uint64 for any group.
LEMMA RoundsFit ==
  ASSUME NEW ranks \in 1 .. MaxU64, NEW kind, NEW algo \in Names
  PROVE  Steps(kind, algo, ranks) \in 0 .. MaxU64
<1>1. MaxU64 \in Nat /\ MaxU64 # 0
  BY MaxU64Assumption
<1>2. CeilLog2(ranks) \in 0 .. ranks
  BY <1>1, Logarithm
<1>3. CeilLog2(ranks) \in 0 .. MaxU64
  BY <1>1, <1>2
<1>4. SatMul(2, ranks - 1) \in 0 .. MaxU64
  <2>1. 2 \in Nat /\ ranks - 1 \in Nat
    BY <1>1
  <2> QED BY <2>1, SaturatedProduct
<1>5. SatMul(2, CeilLog2(ranks)) \in 0 .. MaxU64
  <2>1. 2 \in Nat /\ CeilLog2(ranks) \in Nat
    BY <1>2
  <2> QED BY <2>1, SaturatedProduct
<1>6. ranks - 1 \in 0 .. MaxU64 /\ 1 \in 0 .. MaxU64 /\ 0 \in 0 .. MaxU64
  BY <1>1
<1> QED BY <1>3, <1>4, <1>5, <1>6 DEF Steps, Names

\* How often model_path lets the payload cross a link.
Crossings(algo, steps, ranks) ==
  IF algo = "DIRECT" THEN ranks - 1
  ELSE IF algo = "RECURSIVE_DOUBLING" THEN 2 * steps ELSE steps

\* The bytes that model_path expects to move are exact or saturated, also
\* where a product of a saturated product is taken.
LEMMA MovementSaturates ==
  ASSUME NEW ranks \in 1 .. MaxU64, NEW kind, NEW algo \in Names, NEW p \in 0 .. MaxU64
  PROVE  LET rounds == Crossings(algo, Steps(kind, algo, ranks), ranks)
         IN /\ Movement(kind, algo, ranks, p) \in 0 .. MaxU64
            /\ Movement(kind, algo, ranks, p) = Min({p * rounds, MaxU64})
<1> DEFINE steps == Steps(kind, algo, ranks)
           rounds == Crossings(algo, steps, ranks)
<1> SUFFICES /\ Movement(kind, algo, ranks, p) \in 0 .. MaxU64
             /\ Movement(kind, algo, ranks, p) = Min({p * rounds, MaxU64})
  OBVIOUS
<1>1. MaxU64 \in Nat /\ MaxU64 # 0 /\ ranks \in Nat /\ p \in Nat
  BY MaxU64Assumption
<1>2. steps \in Nat
  BY <1>1, RoundsFit
<1>3. ASSUME NEW r \in Nat, Movement(kind, algo, ranks, p) = SatMul(p, r), rounds = r
      PROVE  /\ Movement(kind, algo, ranks, p) \in 0 .. MaxU64
             /\ Movement(kind, algo, ranks, p) = Min({p * rounds, MaxU64})
  <2>1. p * r \in Nat
    BY <1>1, CheckedProduct
  <2>2. Min({p * r, MaxU64}) = IF p * r <= MaxU64 THEN p * r ELSE MaxU64
    BY <1>1, <2>1, LesserOfTwo
  <2>3. /\ SatMul(p, r) \in 0 .. MaxU64
        /\ SatMul(p, r) = IF p * r <= MaxU64 THEN p * r ELSE MaxU64
    BY <1>1, SaturatedProduct
  <2> HIDE DEF rounds
  <2> QED BY <1>3, <2>2, <2>3
<1>4. CASE algo = "DIRECT"
  <2>1. Movement(kind, algo, ranks, p) = SatMul(p, ranks - 1)
    BY <1>4 DEF Movement
  <2>2. rounds = ranks - 1 /\ ranks - 1 \in Nat
    BY <1>4 DEF Crossings
  <2> HIDE DEF rounds
  <2> QED BY <2>1, <2>2, <1>3
<1>5. CASE algo = "RECURSIVE_DOUBLING"
  <2> DEFINE l == CeilLog2(ranks)
             once == SatMul(p, l)
  <2>1. l \in Nat
    BY <1>1, Logarithm
  <2>2. steps = l /\ rounds = 2 * l /\ Movement(kind, algo, ranks, p) = SatMul(once, 2)
    BY <1>5 DEF Steps, Crossings, Movement
  <2> HIDE DEF l, rounds, steps
  <2>3. p * l \in Nat /\ p * (2 * l) \in Nat
    BY <1>1, <2>1, CheckedProduct
  <2>4. p * (2 * l) = 2 * (p * l)
    BY <1>1, <2>1
  <2>5. once \in 0 .. MaxU64 /\ once = IF p * l <= MaxU64 THEN p * l ELSE MaxU64
    BY <1>1, <2>1, SaturatedProduct
  <2> HIDE DEF once
  <2>6. /\ SatMul(once, 2) \in 0 .. MaxU64
        /\ SatMul(once, 2) = IF once * 2 <= MaxU64 THEN once * 2 ELSE MaxU64
    <3>1. once \in Nat /\ 2 \in Nat
      BY <2>5, <1>1
    <3> QED BY <3>1, SaturatedProduct
  <2>7. Min({p * (2 * l), MaxU64}) = IF p * (2 * l) <= MaxU64 THEN p * (2 * l) ELSE MaxU64
    BY <1>1, <2>3, LesserOfTwo
  <2> DEFINE once_ == p * l
             twice == p * (2 * l)
  <2>8. /\ twice \in Nat /\ once_ \in Nat /\ twice = 2 * once_
        /\ once = IF once_ <= MaxU64 THEN once_ ELSE MaxU64
        /\ Min({twice, MaxU64}) = IF twice <= MaxU64 THEN twice ELSE MaxU64
    BY <2>3, <2>4, <2>5, <2>7
  <2>9. p * rounds = twice
    BY <2>2
  <2> HIDE DEF once_, twice
  <2>10. SatMul(once, 2) = IF twice <= MaxU64 THEN twice ELSE MaxU64
    BY <2>5, <2>6, <2>8, <1>1
  <2> QED BY <2>2, <2>6, <2>8, <2>9, <2>10
<1>6. CASE algo \notin {"DIRECT", "RECURSIVE_DOUBLING"}
  <2>1. Movement(kind, algo, ranks, p) = SatMul(p, steps)
    BY <1>6 DEF Movement
  <2>2. rounds = steps
    BY <1>6 DEF Crossings
  <2> HIDE DEF rounds, steps
  <2> QED BY <2>1, <2>2, <1>2, <1>3
<1> QED BY <1>4, <1>5, <1>6

\* A size in bytes is a uint64, and there is at most one.
LEMMA PayloadFits ==
  ASSUME NEW d \in Descriptors, NEW ranks \in RankCounts
  PROVE  /\ ranks \in 1 .. MaxU64 /\ Payload(d, ranks) \subseteq 0 .. MaxU64
         /\ \A p, q \in Payload(d, ranks) : p = q
<1>1. MaxU64 \in Nat /\ ranks \in 1 .. MaxU64 /\ d.count \in Nat /\ d.datatype \in Datatype
  BY MaxU64Assumption, PipelineAssumption
<1>2. DatatypeSize[d.datatype] \in Nat
  BY <1>1 DEF DatatypeSize, Datatype
<1> DEFINE s == d.count * DatatypeSize[d.datatype]
<1>3. s \in Nat /\ ElementByteCount(d) = IF s <= MaxU64 THEN {s} ELSE {}
  BY <1>1, <1>2, CheckedProduct DEF ElementByteCount
<1>4. CASE d.kind \in {"BROADCAST", "REDUCE", "ALL_REDUCE"}
  <2>1. Payload(d, ranks) = ElementByteCount(d)
    BY <1>4 DEF Payload
  <2> HIDE DEF s
  <2> QED BY <2>1, <1>1, <1>3
<1>5. CASE d.kind \notin {"BROADCAST", "REDUCE", "ALL_REDUCE"}
  <2>1. Payload(d, ranks) = UNION {CheckedMul(per, ranks) : per \in ElementByteCount(d)}
    BY <1>5 DEF Payload, AggregateByteCount
  <2>2. CASE s <= MaxU64
    <3>1. Payload(d, ranks) = CheckedMul(s, ranks)
      BY <2>1, <2>2, <1>3
    <3>2. /\ s * ranks \in Nat
          /\ CheckedMul(s, ranks) = IF s * ranks <= MaxU64 THEN {s * ranks} ELSE {}
      <4> HIDE DEF s
      <4>1. ranks \in Nat
        BY <1>1
      <4> QED BY <4>1, <1>3, CheckedProduct
    <3> DEFINE total == s * ranks
    <3>3. total \in Nat /\ Payload(d, ranks) = IF total <= MaxU64 THEN {total} ELSE {}
      BY <3>1, <3>2
    <3> HIDE DEF total
    <3> QED BY <3>3, <1>1
  <2>3. CASE ~ (s <= MaxU64)
    BY <2>1, <2>3, <1>1, <1>3
  <2> QED BY <2>2, <2>3
<1> QED BY <1>4, <1>5

Costed == [order : Nat, algorithm : Names, feasible : BOOLEAN,
           steps : 0 .. MaxU64, movement : 0 .. MaxU64]

\* The candidates are one for each algorithm, in the order of the enumeration.
IsCandidate(c, i, d, ranks, p, in) ==
  /\ c \in Costed
  /\ c.order = i /\ c.algorithm = Algorithm[i]
  /\ c.feasible <=> Feasible(d, ranks, in, Algorithm[i])
  /\ c.steps = Steps(d.kind, Algorithm[i], ranks)
  /\ c.movement = Movement(d.kind, Algorithm[i], ranks, p)

LEMMA CandidatesOfEach ==
  ASSUME NEW d \in Descriptors, NEW ranks \in RankCounts, NEW p \in Payload(d, ranks), NEW in
  PROVE  /\ Candidates(d, ranks, p, in) \in Seq(Costed) /\ Len(Candidates(d, ranks, p, in)) = 8
         /\ \A i \in 1 .. 8 : IsCandidate(Candidates(d, ranks, p, in)[i], i, d, ranks, p, in)
<1> DEFINE cands == Candidates(d, ranks, p, in)
<1>1. ranks \in 1 .. MaxU64 /\ p \in 0 .. MaxU64
  BY PayloadFits
<1>2. DOMAIN Algorithm = 1 .. 8 /\ \A i \in 1 .. 8 : Algorithm[i] \in Names
  BY AlgorithmNames
<1>3. ASSUME NEW i \in 1 .. 8 PROVE IsCandidate(cands[i], i, d, ranks, p, in)
  <2> DEFINE a == Algorithm[i]
             f == Feasible(d, ranks, in, a)
             s == Steps(d.kind, a, ranks)
             m == Movement(d.kind, a, ranks, p)
  <2>1. a \in Names /\ i \in Nat
    BY <1>2
  <2>2. s \in 0 .. MaxU64
    BY <2>1, <1>1, RoundsFit
  <2>3. m \in 0 .. MaxU64
    BY <2>1, <1>1, MovementSaturates
  <2>4. f \in BOOLEAN
    BY DEF Feasible
  <2>5. cands[i] = [order |-> i, algorithm |-> a, feasible |-> f, steps |-> s, movement |-> m]
    BY <1>2 DEF Candidates
  <2> HIDE DEF a, f, s, m, cands
  <2>6. cands[i] \in Costed
    BY <2>1, <2>2, <2>3, <2>4, <2>5 DEF Costed
  <2>7. /\ cands[i].order = i /\ cands[i].algorithm = a /\ cands[i].feasible = f
        /\ cands[i].steps = s /\ cands[i].movement = m
    BY <2>5
  <2> QED BY <2>6, <2>7 DEF IsCandidate, a, f, s, m
<1>4. cands \in [1 .. 8 -> Costed]
  <2>1. \A i \in 1 .. 8 : cands[i] \in Costed
    BY <1>3 DEF IsCandidate
  <2>2. cands = [i \in 1 .. 8 |-> cands[i]]
    BY <1>2 DEF Candidates
  <2> HIDE DEF cands
  <2> QED BY <2>1, <2>2
<1> HIDE DEF cands
<1>5. cands \in Seq(Costed) /\ Len(cands) = 8
  <2>1. cands \in Seq(Costed)
    <3>1. 8 \in Nat
      OBVIOUS
    <3>2. cands \in UNION {[1 .. k -> Costed] : k \in Nat}
      BY <1>4, <3>1
    <3> QED BY <3>2, SeqDef
  <2>2. DOMAIN cands = 1 .. Len(cands) /\ Len(cands) \in Nat /\ DOMAIN cands = 1 .. 8
    BY <1>4, <2>1, LenProperties
  <2>3. 1 .. Len(cands) = 1 .. 8 /\ Len(cands) \in Nat
    BY <2>2
  <2> DEFINE l == Len(cands)
  <2> HIDE DEF l
  <2>4. l \in Nat /\ 1 .. l = 1 .. 8
    BY <2>3 DEF l
  <2>5. 8 \in 1 .. l /\ (l >= 9 => 9 \in 1 .. l)
    BY <2>4
  <2>6. l = 8
    BY <2>4, <2>5
  <2> QED BY <2>1, <2>6 DEF l
<1> QED BY <1>3, <1>5 DEF cands

-----------------------------------------------------------------------------
(* The two scans of plan() *)

\* Estimates are numbers.
LEMMA TimesAreNumbers ==
  ASSUME NEW in \in PlannerInputs, NEW c \in Costed
  PROVE  EstTime(in, c) \in Nat
<1> DEFINE l == The(in.latency)
           u == Unit(in)
           moving == IF Bandwidth(in) = {} THEN 0 ELSE c.movement * Second
           waiting == IF in.latency = {} THEN 0 ELSE c.steps * l * u
<1>1. in.bandwidth \subseteq Nat /\ in.latency \subseteq Nat
  BY PipelineAssumption
<1>2. c.movement \in Nat /\ c.steps \in Nat
  BY MaxU64Assumption DEF Costed
<1>3. moving \in Nat
  <2>1. c.movement * Second \in Nat
    BY <1>2, SecondAssumption, CheckedProduct
  <2> QED BY <2>1
<1>4. waiting \in Nat
  <2>1. u \in Nat
    <3>1. CASE Bandwidth(in) = {}
      BY <3>1 DEF Unit
    <3>2. CASE Bandwidth(in) # {}
      <4>1. The(Bandwidth(in)) \in Bandwidth(in)
        BY <3>2 DEF The
      <4> QED BY <4>1, <3>2, <1>1 DEF Bandwidth, Unit
    <3> QED BY <3>1, <3>2
  <2>2. CASE in.latency = {}
    BY <2>2
  <2>3. CASE in.latency # {}
    <3>1. l \in Nat
      BY <2>3, <1>1 DEF The
    <3> HIDE DEF l, u
    <3>2. c.steps * l \in Nat
      BY <3>1, <1>2, CheckedProduct
    <3>3. c.steps * l * u \in Nat
      BY <3>2, <2>1, CheckedProduct
    <3> QED BY <2>3, <3>3
  <2> QED BY <2>2, <2>3
<1>5. EstTime(in, c) = moving + waiting
  BY DEF EstTime
<1> HIDE DEF moving, waiting
<1> QED BY <1>3, <1>4, <1>5

\* The comparison of plan() is a strict order: whatever is better than a
\* better candidate is better.
LEMMA BetterIsAnOrder ==
  ASSUME NEW in \in PlannerInputs, NEW a \in Costed, NEW b \in Costed, NEW c \in Costed
  PROVE  ~ Better(in, a, a) /\ (Better(in, a, b) /\ Better(in, b, c) => Better(in, a, c))
<1>1. EstTime(in, a) \in Nat /\ EstTime(in, b) \in Nat /\ EstTime(in, c) \in Nat
  BY TimesAreNumbers
<1>2. /\ a.order \in Nat /\ b.order \in Nat /\ c.order \in Nat
      /\ a.steps \in Nat /\ b.steps \in Nat /\ c.steps \in Nat
      /\ a.movement \in Nat /\ b.movement \in Nat /\ c.movement \in Nat
  BY MaxU64Assumption DEF Costed
<1>3. ~ TieBreak(a, a)
  BY <1>2 DEF TieBreak
<1>4. TieBreak(a, b) /\ TieBreak(b, c) => TieBreak(a, c)
  BY <1>2 DEF TieBreak
<1> QED BY <1>1, <1>3, <1>4 DEF Better

Real(cands, k) ==
  {j \in 1 .. k : cands[j].feasible /\ cands[j].algorithm # "BACKEND_DEFAULT"}

\* What the first scan has found after k candidates.
BestOfFirst(in, cands, k, best) ==
  /\ Real(cands, k) = {} => best = NoCandidate
  /\ Real(cands, k) # {} =>
       \E j \in Real(cands, k) :
         /\ best = cands[j]
         /\ \A i \in Real(cands, k) : ~ Better(in, cands[i], cands[j])

LEMMA BestOfNext ==
  ASSUME NEW in \in PlannerInputs, NEW cands \in Seq(Costed), NEW k \in Nat, k < Len(cands),
         NEW best, BestOfFirst(in, cands, k, best), NEW next,
         next = IF /\ cands[k + 1].feasible /\ cands[k + 1].algorithm # "BACKEND_DEFAULT"
                   /\ ~ best.feasible \/ Better(in, cands[k + 1], best)
                THEN cands[k + 1] ELSE best
  PROVE  BestOfFirst(in, cands, k + 1, next)
<1> DEFINE c == cands[k + 1]
           R == Real(cands, k)
           Q == Real(cands, k + 1)
<1>1. k + 1 \in 1 .. Len(cands) /\ \A j \in 1 .. k + 1 : j \in 1 .. Len(cands)
  BY LenProperties
<1>2. \A j \in 1 .. k + 1 : cands[j] \in Costed
  BY <1>1, ElementOfSeq
<1>3. c \in Costed
  BY <1>1, <1>2
<1>4. \A j \in R : j \in 1 .. k /\ cands[j] \in Costed /\ cands[j].feasible
  BY <1>2 DEF Real
<1>5. CASE ~ (c.feasible /\ c.algorithm # "BACKEND_DEFAULT")
  <2>1. Q = R
    BY <1>5 DEF Real
  <2>2. next = best
    BY <1>5
  <2> QED BY <2>1, <2>2 DEF BestOfFirst
<1>6. CASE c.feasible /\ c.algorithm # "BACKEND_DEFAULT"
  <2>1. Q = R \cup {k + 1}
    BY <1>6 DEF Real
  <2>2. CASE R = {}
    <3>1. best = NoCandidate
      BY <2>2 DEF BestOfFirst
    <3>2. next = c
      BY <3>1, <1>6 DEF NoCandidate
    <3>3. ~ Better(in, c, c)
      BY <1>3, BetterIsAnOrder
    <3> QED BY <2>1, <2>2, <3>2, <3>3 DEF BestOfFirst
  <2>3. CASE R # {}
    <3>1. PICK j \in R : best = cands[j] /\ \A i \in R : ~ Better(in, cands[i], cands[j])
      BY <2>3 DEF BestOfFirst
    <3>2. cands[j] \in Costed /\ cands[j].feasible
      BY <1>4
    <3>3. CASE Better(in, c, best)
      <4>1. next = c
        BY <3>3, <1>6
      <4>2. ~ Better(in, c, c)
        BY <1>3, BetterIsAnOrder
      <4>3. ASSUME NEW i \in R PROVE ~ Better(in, cands[i], c)
        <5>1. cands[i] \in Costed /\ ~ Better(in, cands[i], cands[j])
          BY <1>4, <3>1
        <5> QED BY <5>1, <3>1, <3>2, <3>3, <1>3, BetterIsAnOrder
      <4>4. \A i \in Q : ~ Better(in, cands[i], cands[k + 1])
        BY <2>1, <4>2, <4>3
      <4> QED BY <2>1, <4>1, <4>4 DEF BestOfFirst
    <3>4. CASE ~ Better(in, c, best)
      <4>1. next = best
        BY <3>1, <3>2, <3>4
      <4>2. \A i \in Q : ~ Better(in, cands[i], cands[j])
        BY <2>1, <3>1, <3>4
      <4>3. j \in Q
        BY <2>1, <3>1
      <4> QED BY <3>1, <4>1, <4>2, <4>3 DEF BestOfFirst
    <3> QED BY <3>3, <3>4
  <2> QED BY <2>2, <2>3
<1> QED BY <1>5, <1>6

\* The first scan ends with the best of the real algorithms.
LEMMA FirstScan ==
  ASSUME NEW in \in PlannerInputs, NEW cands \in Seq(Costed)
  PROVE  BestOfFirst(in, cands, Len(cands), SelectReal(in, cands))
<1> DEFINE len == Len(cands)
           X == Costed \cup {NoCandidate}
           Next1(k, b) == IF /\ cands[k].feasible /\ cands[k].algorithm # "BACKEND_DEFAULT"
                             /\ ~ b.feasible \/ Better(in, cands[k], b)
                          THEN cands[k] ELSE b
           step == [k \in 1 .. len |-> [b \in X |-> Next1(k, b)]]
           Body(f, k) == IF k = 0 THEN NoCandidate ELSE Next1(k, f[k - 1])
           F == CHOOSE f : f = [k \in 0 .. len |-> Body(f, k)]
<1>1. len \in Nat /\ \A k \in 1 .. len : cands[k] \in X
  BY LenProperties, ElementOfSeq
<1>2. NoCandidate \in X
  OBVIOUS
<1>3. SelectReal(in, cands) = F[len]
  BY DEF SelectReal
<1> HIDE DEF len, X
<1>4. ASSUME NEW k \in 1 .. len, NEW b \in X PROVE Next1(k, b) \in X
  BY <1>1
<1> HIDE DEF Next1
<1>5. step \in StepFunctions(len, X)
  BY <1>4 DEF StepFunctions
<1>6. \A k \in 1 .. len : \A b \in X : step[k][b] = Next1(k, b)
  OBVIOUS
<1> HIDE DEF step
<1>7. PICK g : Iterates(g, len, X, NoCandidate, step)
  BY <1>1, <1>2, <1>5, Recursion
<1>8. g \in [0 .. len -> X] /\ g[0] = NoCandidate /\ \A k \in 1 .. len : g[k] = step[k][g[k - 1]]
  BY <1>7 DEF Iterates
<1>9. ASSUME NEW k \in 0 .. len PROVE g[k] = Body(g, k)
  <2>1. CASE k = 0
    BY <2>1, <1>8
  <2>2. CASE k # 0
    <3>1. k \in 1 .. len /\ k - 1 \in 0 .. len
      BY <2>2, <1>1
    <3>2. g[k - 1] \in X
      BY <3>1, <1>8
    <3>3. g[k] = Next1(k, g[k - 1])
      BY <3>1, <3>2, <1>6, <1>8
    <3> QED BY <3>3, <2>2
  <2> QED BY <2>1, <2>2
<1>10. g = [k \in 0 .. len |-> Body(g, k)]
  <2> HIDE DEF Body
  <2> QED BY <1>8, <1>9
<1>11. F = [k \in 0 .. len |-> Body(F, k)]
  BY <1>10
<1> HIDE DEF F
<1>12. F[0] = NoCandidate /\ \A k \in 1 .. len : F[k] = Next1(k, F[k - 1])
  BY <1>1, <1>11
<1> DEFINE G == {k \in 0 .. len : BestOfFirst(in, cands, k, F[k])}
<1>13. 0 \in G
  <2>1. Real(cands, 0) = {}
    BY DEF Real
  <2>2. BestOfFirst(in, cands, 0, F[0])
    BY <2>1, <1>12 DEF BestOfFirst
  <2> QED BY <2>2, <1>1
<1>14. ASSUME NEW k \in 0 .. len, k < len, k \in G PROVE k + 1 \in G
  <2>1. k + 1 \in 1 .. len /\ (k + 1) - 1 = k /\ k \in Nat
    BY <1>1, <1>14
  <2>2. F[k + 1] = Next1(k + 1, F[k])
    BY <2>1, <1>12
  <2>3. BestOfFirst(in, cands, k, F[k]) /\ k < Len(cands)
    BY <1>14 DEF len
  <2>4. BestOfFirst(in, cands, k + 1, F[k + 1])
    BY <2>1, <2>2, <2>3, BestOfNext DEF Next1
  <2> QED BY <2>1, <2>4
<1> HIDE DEF G
<1>15. 0 .. len \subseteq G
  BY <1>1, <1>13, <1>14, UpTo
<1>16. len \in G
  BY <1>1, <1>15
<1> QED BY <1>3, <1>16 DEF G, len

\* The second scan finds one of the feasible candidates if there are any.
SomeOfFirst(cands, k, best) ==
  LET feasible == {j \in 1 .. k : cands[j].feasible}
  IN /\ feasible = {} => best = NoCandidate
     /\ feasible # {} => \E j \in feasible : best = cands[j]

LEMMA SecondScan ==
  ASSUME NEW cands \in Seq(Costed)
  PROVE  SomeOfFirst(cands, Len(cands), SelectAny(cands))
<1> DEFINE len == Len(cands)
           X == Costed \cup {NoCandidate}
           Next1(k, b) == IF /\ cands[k].feasible
                             /\ \/ ~ b.feasible
                                \/ cands[k].steps < b.steps
                                \/ cands[k].steps = b.steps /\ cands[k].movement < b.movement
                          THEN cands[k] ELSE b
           step == [k \in 1 .. len |-> [b \in X |-> Next1(k, b)]]
           Body(f, k) == IF k = 0 THEN NoCandidate ELSE Next1(k, f[k - 1])
           F == CHOOSE f : f = [k \in 0 .. len |-> Body(f, k)]
<1>1. len \in Nat /\ \A k \in 1 .. len : cands[k] \in X
  BY LenProperties, ElementOfSeq
<1>2. NoCandidate \in X
  OBVIOUS
<1>3. SelectAny(cands) = F[len]
  BY DEF SelectAny
<1> HIDE DEF len, X
<1>4. ASSUME NEW k \in 1 .. len, NEW b \in X PROVE Next1(k, b) \in X
  BY <1>1
<1>5. ASSUME NEW k \in 1 .. len, NEW b, ~ b.feasible
      PROVE Next1(k, b) = IF cands[k].feasible THEN cands[k] ELSE b
  BY <1>5
<1>6. ASSUME NEW k \in 1 .. len, NEW b
      PROVE /\ Next1(k, b) = b \/ Next1(k, b) = cands[k]
            /\ ~ cands[k].feasible => Next1(k, b) = b
  OBVIOUS
<1> HIDE DEF Next1
<1>7. step \in StepFunctions(len, X)
  BY <1>4 DEF StepFunctions
<1>8. \A k \in 1 .. len : \A b \in X : step[k][b] = Next1(k, b)
  OBVIOUS
<1> HIDE DEF step
<1>9. PICK g : Iterates(g, len, X, NoCandidate, step)
  BY <1>1, <1>2, <1>7, Recursion
<1>10. g \in [0 .. len -> X] /\ g[0] = NoCandidate /\ \A k \in 1 .. len : g[k] = step[k][g[k - 1]]
  BY <1>9 DEF Iterates
<1>11. ASSUME NEW k \in 0 .. len PROVE g[k] = Body(g, k)
  <2>1. CASE k = 0
    BY <2>1, <1>10
  <2>2. CASE k # 0
    <3>1. k \in 1 .. len /\ k - 1 \in 0 .. len
      BY <2>2, <1>1
    <3>2. g[k - 1] \in X
      BY <3>1, <1>10
    <3>3. g[k] = Next1(k, g[k - 1])
      BY <3>1, <3>2, <1>8, <1>10
    <3> QED BY <3>3, <2>2
  <2> QED BY <2>1, <2>2
<1>12. g = [k \in 0 .. len |-> Body(g, k)]
  <2> HIDE DEF Body
  <2> QED BY <1>10, <1>11
<1>13. F = [k \in 0 .. len |-> Body(F, k)]
  BY <1>12
<1> HIDE DEF F
<1>14. F[0] = NoCandidate /\ \A k \in 1 .. len : F[k] = Next1(k, F[k - 1])
  BY <1>1, <1>13
<1> DEFINE Feas(k) == {j \in 1 .. k : cands[j].feasible}
           G == {k \in 0 .. len : SomeOfFirst(cands, k, F[k])}
<1>15. 0 \in G
  BY <1>1, <1>14 DEF SomeOfFirst
<1>16. ASSUME NEW k \in 0 .. len, k < len, k \in G PROVE k + 1 \in G
  <2>1. k + 1 \in 1 .. len /\ (k + 1) - 1 = k /\ k \in Nat
    BY <1>1, <1>16
  <2>2. F[k + 1] = Next1(k + 1, F[k])
    BY <2>1, <1>14
  <2>3. /\ Feas(k) = {} => F[k] = NoCandidate
        /\ Feas(k) # {} => \E j \in Feas(k) : F[k] = cands[j]
    BY <1>16 DEF SomeOfFirst
  <2>4. CASE ~ cands[k + 1].feasible
    <3>1. Feas(k + 1) = Feas(k)
      BY <2>1, <2>4
    <3>2. F[k + 1] = F[k]
      BY <2>1, <2>2, <2>4, <1>6
    <3>3. SomeOfFirst(cands, k + 1, F[k + 1])
      BY <2>3, <3>1, <3>2 DEF SomeOfFirst
    <3> QED BY <2>1, <3>3
  <2>5. CASE cands[k + 1].feasible
    <3>1. Feas(k + 1) = Feas(k) \cup {k + 1}
      BY <2>1, <2>5
    <3>2. \E j \in Feas(k + 1) : F[k + 1] = cands[j]
      <4>1. CASE Feas(k) = {}
        <5>1. ~ F[k].feasible
          BY <4>1, <2>3 DEF NoCandidate
        <5>2. F[k + 1] = cands[k + 1]
          BY <5>1, <2>1, <2>2, <2>5, <1>5
        <5> QED BY <5>2, <3>1
      <4>2. CASE Feas(k) # {}
        <5>1. PICK j \in Feas(k) : F[k] = cands[j]
          BY <4>2, <2>3
        <5>2. F[k + 1] = cands[j] \/ F[k + 1] = cands[k + 1]
          BY <5>1, <2>1, <2>2, <1>6
        <5> QED BY <5>1, <5>2, <3>1
      <4> QED BY <4>1, <4>2
    <3>3. SomeOfFirst(cands, k + 1, F[k + 1])
      BY <3>2 DEF SomeOfFirst
    <3> QED BY <2>1, <3>3
  <2> QED BY <2>4, <2>5
<1> HIDE DEF G
<1>17. 0 .. len \subseteq G
  BY <1>1, <1>15, <1>16, UpTo
<1>18. len \in G
  BY <1>1, <1>17
<1> QED BY <1>3, <1>18 DEF G, len

\* What plan() returns is one of the candidates, feasible, and the best of the
\* real ones if any of those is; and it returns nothing only if there is none.
RealOnes(d, ranks, in) ==
  {i \in 1 .. 8 : Algorithm[i] # "BACKEND_DEFAULT" /\ Feasible(d, ranks, in, Algorithm[i])}

Chosen(c, d, ranks, p, in) ==
  LET cands == Candidates(d, ranks, p, in)
  IN \E j \in 1 .. 8 :
       /\ c = cands[j] /\ Feasible(d, ranks, in, Algorithm[j])
       /\ RealOnes(d, ranks, in) # {} =>
            /\ j \in RealOnes(d, ranks, in)
            /\ \A i \in RealOnes(d, ranks, in) : ~ Better(in, cands[i], cands[j])

LEMMA Selected ==
  ASSUME NEW d \in Descriptors, NEW ranks \in RankCounts, NEW in \in PlannerInputs,
         NEW p \in Payload(d, ranks)
  PROVE  LET c == Select(in, Candidates(d, ranks, p, in))
         IN /\ c.feasible => Chosen(c, d, ranks, p, in)
            /\ ~ c.feasible <=>
                 RealOnes(d, ranks, in) = {} /\ ~ Feasible(d, ranks, in, "BACKEND_DEFAULT")
<1> DEFINE cands == Candidates(d, ranks, p, in)
           R == RealOnes(d, ranks, in)
           real == SelectReal(in, cands)
           any == SelectAny(cands)
           c == Select(in, cands)
<1> SUFFICES /\ c.feasible => Chosen(c, d, ranks, p, in)
             /\ ~ c.feasible <=> R = {} /\ ~ Feasible(d, ranks, in, "BACKEND_DEFAULT")
  OBVIOUS
<1>1. /\ cands \in Seq(Costed) /\ Len(cands) = 8
      /\ \A i \in 1 .. 8 : IsCandidate(cands[i], i, d, ranks, p, in)
  BY CandidatesOfEach
<1>2. BestOfFirst(in, cands, Len(cands), real)
  BY <1>1, FirstScan
<1>3. SomeOfFirst(cands, Len(cands), any)
  BY <1>1, SecondScan
<1>4. c = IF real.feasible THEN real ELSE any
  BY DEF Select
<1>5. \A j \in 1 .. 8 : Algorithm[j] = "BACKEND_DEFAULT" <=> j = 7
  BY AlgorithmNames
<1>6. \A j \in 1 .. 8 : /\ cands[j].feasible <=> Feasible(d, ranks, in, Algorithm[j])
                        /\ cands[j].algorithm = Algorithm[j]
  BY <1>1 DEF IsCandidate
<1>7. Chosen(c, d, ranks, p, in) <=>
        \E j \in 1 .. 8 :
          /\ c = cands[j] /\ Feasible(d, ranks, in, Algorithm[j])
          /\ R # {} => j \in R /\ \A i \in R : ~ Better(in, cands[i], cands[j])
  BY DEF Chosen
<1> HIDE DEF cands, real, any, c
<1>8. Real(cands, 8) = R
  BY <1>6 DEF Real, RealOnes
<1>9. NoCandidate.feasible = FALSE
  BY DEF NoCandidate
<1> DEFINE feasible == {j \in 1 .. 8 : cands[j].feasible}
<1>10. /\ feasible = {} => any = NoCandidate
       /\ feasible # {} => \E j \in feasible : any = cands[j]
  BY <1>1, <1>3 DEF SomeOfFirst
<1>11. CASE R # {}
  <2>1. PICK j \in R : real = cands[j] /\ \A i \in R : ~ Better(in, cands[i], cands[j])
    BY <1>1, <1>2, <1>8, <1>11 DEF BestOfFirst
  <2>2. j \in 1 .. 8 /\ Feasible(d, ranks, in, Algorithm[j])
    BY <2>1 DEF RealOnes
  <2>3. c = cands[j] /\ c.feasible
    BY <2>1, <2>2, <1>4, <1>6
  <2> HIDE DEF R
  <2> QED BY <2>1, <2>2, <2>3, <1>7, <1>11
<1>12. CASE R = {}
  <2>1. c = any
    BY <1>1, <1>2, <1>4, <1>8, <1>9, <1>12 DEF BestOfFirst
  <2>2. \A j \in feasible : j = 7 /\ Feasible(d, ranks, in, Algorithm[j])
    BY <1>5, <1>6, <1>12 DEF RealOnes
  <2>3. Algorithm[7] = "BACKEND_DEFAULT"
    BY <1>5
  <2>4. CASE feasible = {}
    <3>1. ~ c.feasible
      BY <2>1, <2>4, <1>9, <1>10
    <3>2. ~ Feasible(d, ranks, in, "BACKEND_DEFAULT")
      BY <2>3, <2>4, <1>6
    <3> QED BY <3>1, <3>2, <1>12
  <2>5. CASE feasible # {}
    <3>1. PICK j \in feasible : c = cands[j]
      BY <2>1, <2>5, <1>10
    <3>2. j \in 1 .. 8 /\ c.feasible /\ Feasible(d, ranks, in, Algorithm[j])
      BY <3>1, <2>2
    <3>3. Feasible(d, ranks, in, "BACKEND_DEFAULT")
      BY <3>1, <3>2, <2>2, <2>3
    <3> HIDE DEF R, feasible
    <3> QED BY <3>1, <3>2, <3>3, <1>7, <1>12
  <2> QED BY <2>4, <2>5
<1> QED BY <1>11, <1>12

LEMMA Planned ==
  ASSUME NEW d \in Descriptors, NEW ranks \in RankCounts, NEW in \in PlannerInputs
  PROVE  /\ \A c \in PlanFor(d, ranks, in) :
              \E p \in Payload(d, ranks) : c.feasible /\ Chosen(c, d, ranks, p, in)
         /\ PlanFor(d, ranks, in) = {} <=>
              \/ Payload(d, ranks) = {}
              \/ RealOnes(d, ranks, in) = {} /\ ~ Feasible(d, ranks, in, "BACKEND_DEFAULT")
<1> DEFINE c(p) == Select(in, Candidates(d, ranks, p, in))
           none == RealOnes(d, ranks, in) = {} /\ ~ Feasible(d, ranks, in, "BACKEND_DEFAULT")
<1>1. \A p \in Payload(d, ranks) : /\ c(p).feasible => Chosen(c(p), d, ranks, p, in)
                                   /\ ~ c(p).feasible <=> none
  BY Selected
<1>2. PlanFor(d, ranks, in) = {b \in {c(p) : p \in Payload(d, ranks)} : b.feasible}
  BY DEF PlanFor
<1> HIDE DEF c, none
<1>3. \A b \in PlanFor(d, ranks, in) :
        \E p \in Payload(d, ranks) : b.feasible /\ Chosen(b, d, ranks, p, in)
  BY <1>1, <1>2
<1>4. PlanFor(d, ranks, in) = {} <=> Payload(d, ranks) = {} \/ none
  BY <1>1, <1>2
<1> QED BY <1>3, <1>4 DEF none

\* A feasible candidate names an algorithm, and its costs are uint64s.
LEMMA ChosenType ==
  ASSUME NEW d \in Descriptors, NEW ranks \in RankCounts, NEW in \in PlannerInputs,
         NEW c \in PlanFor(d, ranks, in)
  PROVE  /\ c.algorithm \in Range(Algorithm) \ {"UNKNOWN"}
         /\ c.steps \in 0 .. MaxU64 /\ c.movement \in 0 .. MaxU64
<1>1. PICK p \in Payload(d, ranks) : Chosen(c, d, ranks, p, in)
  BY Planned
<1>2. PICK j \in 1 .. 8 : c = Candidates(d, ranks, p, in)[j] /\ Feasible(d, ranks, in, Algorithm[j])
  BY <1>1 DEF Chosen
<1>3. IsCandidate(c, j, d, ranks, p, in)
  BY <1>2, CandidatesOfEach
<1>4. c \in Costed /\ c.algorithm = Algorithm[j]
  BY <1>3 DEF IsCandidate
<1>5. Algorithm[j] # "UNKNOWN"
  <2>1. ~ Feasible(d, ranks, in, "UNKNOWN")
    BY DEF Feasible, Serves
  <2> QED BY <1>2, <2>1
<1>6. c.algorithm \in Names /\ c.steps \in 0 .. MaxU64 /\ c.movement \in 0 .. MaxU64
  BY <1>4 DEF Costed
<1> QED BY <1>4, <1>5, <1>6, AlgorithmNames

-----------------------------------------------------------------------------
(* The reference engine *)

\* Whatever the kind, the engine returns a buffer for every rank.
LEMMA OneBufferEach ==
  ASSUME NEW d \in Descriptors, NEW ranks, NEW bufs, NEW out \in Execute(d, ranks, bufs)
  PROVE  DOMAIN out = 1 .. ranks
<1>1. d.kind \in Kind
  BY PipelineAssumption
<1>2. CASE AggregateByteCount(d, ranks) = {}
  BY <1>2 DEF Execute
<1>3. CASE AggregateByteCount(d, ranks) # {}
  <2>1. CASE d.kind = "BARRIER"
    BY <1>3, <2>1 DEF Execute, Barrier
  <2>2. CASE d.kind = "BROADCAST"
    BY <1>3, <2>2 DEF Execute, Broadcast
  <2>3. CASE d.kind = "REDUCE"
    BY <1>3, <2>3 DEF Execute, Reduce
  <2>4. CASE d.kind = "ALL_REDUCE"
    BY <1>3, <2>4 DEF Execute, AllReduce
  <2>5. CASE d.kind = "ALL_GATHER"
    BY <1>3, <2>5 DEF Execute, AllGather
  <2>6. CASE d.kind = "REDUCE_SCATTER"
    BY <1>3, <2>6 DEF Execute, ReduceScatter
  <2> QED BY <1>1, <2>1, <2>2, <2>3, <2>4, <2>5, <2>6 DEF Kind
<1> QED BY <1>2, <1>3

-----------------------------------------------------------------------------
(* The invariant *)

\* The plan is the one made for the argument of plan_collective.
PlanMade == \A in \in input : plan = PlanFor(desc, n, in)

IInv == TypeOK /\ PlanMade

LEMMA InitIInv == Init => IInv
BY DEF Init, IInv, TypeOK, PlanMade

LEMMA NextIInv == IInv /\ [Next]_vars => IInv'
<1> SUFFICES ASSUME IInv, [Next]_vars PROVE IInv'
  OBVIOUS
<1> USE DEF IInv
<1>1. CASE CreateCollective
  BY <1>1 DEF CreateCollective, TypeOK, PlanMade
<1>2. ASSUME NEW in \in PlannerInputs, PlanCollective(in) PROVE IInv'
  <2>1. /\ desc \in Descriptors /\ n \in RankCounts
        /\ desc' = desc /\ n' = n /\ input' = {in} /\ plan' = PlanFor(desc, n, in)
        /\ stage' = "planned" /\ outputs' = outputs
    BY <1>2 DEF PlanCollective, TypeOK
  <2>2. \A p \in plan' : /\ p.algorithm \in Range(Algorithm) \ {"UNKNOWN"}
                         /\ p.steps \in 0 .. MaxU64 /\ p.movement \in 0 .. MaxU64
    BY <2>1, ChosenType
  <2>3. TypeOK'
    BY <2>1, <2>2 DEF TypeOK
  <2>4. PlanMade'
    BY <2>1 DEF PlanMade
  <2> QED BY <2>3, <2>4
<1>3. ASSUME NEW bufs, ExecuteCollective(bufs) PROVE IInv'
  <2>1. /\ desc \in Descriptors /\ desc' = desc /\ n' = n /\ input' = {} /\ plan' = plan
        /\ stage' \in {"executed", "undefined"}
        /\ outputs' = {} \/ outputs' = Execute(desc, n, bufs)
    BY <1>3 DEF ExecuteCollective, TypeOK
  <2>2. \A out \in outputs' : DOMAIN out = 1 .. n
    BY <2>1, OneBufferEach
  <2> QED BY <2>1, <2>2 DEF TypeOK, PlanMade
<1>4. ASSUME NEW bufs, CallEngine(bufs) PROVE IInv'
  <2>1. /\ desc \in Descriptors /\ desc' = desc /\ n' = n /\ input' = input /\ plan' = plan
        /\ stage' = "called" /\ outputs' = Execute(desc, n, bufs)
    BY <1>4 DEF CallEngine, TypeOK
  <2>2. \A out \in outputs' : DOMAIN out = 1 .. n
    BY <2>1, OneBufferEach
  <2> QED BY <2>1, <2>2 DEF TypeOK, PlanMade
<1>5. CASE UNCHANGED vars
  BY <1>5 DEF vars, TypeOK, PlanMade
<1> QED BY <1>1, <1>2, <1>3, <1>4, <1>5 DEF Next

\* In every state the variables have their types and the plan is the one that
\* the planner makes for what it was asked.
THEOREM Invariant == Spec => []IInv
<1> QED BY InitIInv, NextIInv, PTL DEF Spec

\* An estimate is a uint64, a plan names an algorithm, and every rank has an
\* output buffer, for any width of the integers and any size of the group.
THEOREM TypeCorrect == Spec => []TypeOK
<1>1. IInv => TypeOK
  BY DEF IInv
<1> QED BY <1>1, Invariant, PTL

-----------------------------------------------------------------------------
(* What a plan promises *)

\* A better rating is what the comparison of plan() calls better.
LEMMA RatingIsTheOrder ==
  ASSUME desc \in Descriptors, n \in RankCounts, NEW in \in PlannerInputs,
         NEW p \in Payload(desc, n), NEW i \in 1 .. 8, NEW j \in 1 .. 8,
         LexLess(Rating(in, p, i), Rating(in, p, j))
  PROVE  Better(in, Candidates(desc, n, p, in)[i], Candidates(desc, n, p, in)[j])
<1> DEFINE a == Candidates(desc, n, p, in)[i]
           b == Candidates(desc, n, p, in)[j]
           s == Rating(in, p, i)
           t == Rating(in, p, j)
<1>1. /\ IsCandidate(a, i, desc, n, p, in) /\ IsCandidate(b, j, desc, n, p, in)
  BY CandidatesOfEach
<1>2. a.order = i /\ b.order = j /\ a \in Costed /\ b \in Costed
  BY <1>1 DEF IsCandidate
<1>3. /\ s = <<IF Timed(in) THEN EstTime(in, a) ELSE 0, a.steps, a.movement, i>>
      /\ t = <<IF Timed(in) THEN EstTime(in, b) ELSE 0, b.steps, b.movement, j>>
  BY DEF Rating
<1> HIDE DEF a, b, s, t
<1>4. EstTime(in, a) \in Nat /\ EstTime(in, b) \in Nat
  BY <1>2, TimesAreNumbers
<1>5. DOMAIN s = 1 .. 4
  BY <1>3
<1>6. PICK k \in 1 .. 4 : s[k] < t[k] /\ \A l \in 1 .. k - 1 : s[l] = t[l]
  BY <1>5 DEF LexLess, s, t
<1>7. /\ s[1] = (IF Timed(in) THEN EstTime(in, a) ELSE 0) /\ s[2] = a.steps
      /\ s[3] = a.movement /\ s[4] = i
      /\ t[1] = (IF Timed(in) THEN EstTime(in, b) ELSE 0) /\ t[2] = b.steps
      /\ t[3] = b.movement /\ t[4] = j
  BY <1>3
<1>8. /\ a.steps \in Nat /\ b.steps \in Nat /\ a.movement \in Nat /\ b.movement \in Nat
  BY <1>2, MaxU64Assumption DEF Costed
<1>9. Better(in, a, b)
  <2>1. CASE k = 1
    <3>1. s[1] < t[1]
      BY <1>6, <2>1
    <3>2. Timed(in) /\ EstTime(in, a) < EstTime(in, b)
      BY <3>1, <1>7, <1>4
    <3> QED BY <3>2 DEF Better
  <2>2. CASE k # 1
    <3>1. 1 \in 1 .. k - 1
      BY <2>2
    <3>2. s[1] = t[1]
      BY <3>1, <1>6
    <3>3. Timed(in) => EstTime(in, a) = EstTime(in, b)
      BY <3>2, <1>7
    <3>4. TieBreak(a, b)
      <4>1. CASE k = 2
        BY <4>1, <1>6, <1>7, <1>8 DEF TieBreak
      <4>2. CASE k = 3
        <5>1. s[2] = t[2]
          BY <4>2, <1>6
        <5> QED BY <5>1, <4>2, <1>6, <1>7, <1>8 DEF TieBreak
      <4>3. CASE k = 4
        <5>1. s[2] = t[2] /\ s[3] = t[3]
          BY <4>3, <1>6
        <5> QED BY <5>1, <4>3, <1>2, <1>6, <1>7, <1>8 DEF TieBreak
      <4> QED BY <2>2, <4>1, <4>2, <4>3
    <3> QED BY <3>3, <3>4 DEF Better
  <2> QED BY <2>1, <2>2
<1> QED BY <1>9 DEF a, b

\* The two scans of plan() return the best of the real algorithms that the hard
\* constraints leave, fall back on the backend's only where they leave none,
\* and refuse only where that is not left either or the payload overflows.
THEOREM PlansAreBest == Spec => []PlanIsBest
<1>1. IInv => PlanIsBest
  <2> SUFFICES ASSUME IInv, NEW in \in input
               PROVE /\ plan = {} <=>
                          \/ Payload(desc, n) = {}
                          \/ RealChoices(in) = {} /\ ~ Feasible(desc, n, in, "BACKEND_DEFAULT")
                     /\ \A p \in Payload(desc, n), c \in plan :
                          /\ RealChoices(in) # {} => c.order \in RealChoices(in)
                          /\ \A i \in RealChoices(in) :
                               ~ LexLess(Rating(in, p, i), Rating(in, p, c.order))
    BY DEF PlanIsBest
  <2>1. /\ desc \in Descriptors /\ n \in RankCounts /\ in \in PlannerInputs
        /\ plan = PlanFor(desc, n, in)
    BY DEF IInv, TypeOK, PlanMade
  <2>2. RealChoices(in) = RealOnes(desc, n, in)
    BY AlgorithmNames DEF RealChoices, RealOnes
  <2>3. plan = {} <=>
          \/ Payload(desc, n) = {}
          \/ RealChoices(in) = {} /\ ~ Feasible(desc, n, in, "BACKEND_DEFAULT")
    BY <2>1, <2>2, Planned
  <2>4. ASSUME NEW p \in Payload(desc, n), NEW c \in plan
        PROVE /\ RealChoices(in) # {} => c.order \in RealChoices(in)
              /\ \A i \in RealChoices(in) : ~ LexLess(Rating(in, p, i), Rating(in, p, c.order))
    <3>1. PICK q \in Payload(desc, n) : Chosen(c, desc, n, q, in)
      BY <2>1, Planned
    <3>2. p = q
      BY <2>1, PayloadFits
    <3>3. PICK j \in 1 .. 8 :
            /\ c = Candidates(desc, n, p, in)[j]
            /\ RealChoices(in) # {} =>
                 /\ j \in RealChoices(in)
                 /\ \A i \in RealChoices(in) :
                      ~ Better(in, Candidates(desc, n, p, in)[i], Candidates(desc, n, p, in)[j])
      BY <2>2, <3>1, <3>2 DEF Chosen
    <3>4. IsCandidate(Candidates(desc, n, p, in)[j], j, desc, n, p, in)
      BY <2>1, CandidatesOfEach
    <3>5. c.order = j
      BY <3>3, <3>4 DEF IsCandidate
    <3>6. ASSUME NEW i \in RealChoices(in) PROVE ~ LexLess(Rating(in, p, i), Rating(in, p, j))
      <4>1. i \in 1 .. 8
        BY <2>2 DEF RealOnes
      <4>2. ~ Better(in, Candidates(desc, n, p, in)[i], Candidates(desc, n, p, in)[j])
        BY <3>3
      <4> QED BY <4>1, <4>2, <2>1, RatingIsTheOrder
    <3> QED BY <3>3, <3>5, <3>6
  <2> QED BY <2>3, <2>4
<1> QED BY <1>1, Invariant, PTL

\* "No silent wraparound" (checked.hpp): the bytes that a plan announces are
\* the exact number, or the largest uint64 where that does not fit, also where
\* it is the product of products.
THEOREM EstimatesAreExact == Spec => []EstimatesSaturate
<1>1. IInv => EstimatesSaturate
  <2> SUFFICES ASSUME IInv, NEW in \in input, NEW c \in plan, NEW p \in Payload(desc, n)
               PROVE c.movement = Min({p * Crossings(c.algorithm, c.steps, n), MaxU64})
    BY DEF EstimatesSaturate, Crossings
  <2>1. /\ desc \in Descriptors /\ n \in RankCounts /\ in \in PlannerInputs
        /\ plan = PlanFor(desc, n, in)
    BY DEF IInv, TypeOK, PlanMade
  <2>2. PICK q \in Payload(desc, n) : Chosen(c, desc, n, q, in)
    BY <2>1, Planned
  <2>3. PICK j \in 1 .. 8 : c = Candidates(desc, n, q, in)[j]
    BY <2>2 DEF Chosen
  <2>4. IsCandidate(c, j, desc, n, q, in)
    BY <2>1, <2>3, CandidatesOfEach
  <2>5. /\ p = q /\ n \in 1 .. MaxU64 /\ p \in 0 .. MaxU64
    BY <2>1, PayloadFits
  <2>6. Algorithm[j] \in Names
    BY AlgorithmNames
  <2> DEFINE a == Algorithm[j]
             s == Steps(desc.kind, a, n)
             m == Movement(desc.kind, a, n, p)
  <2>7. c.algorithm = a /\ c.steps = s /\ c.movement = m
    BY <2>4, <2>5 DEF IsCandidate
  <2>8. m = Min({p * Crossings(a, s, n), MaxU64})
    BY <2>5, <2>6, MovementSaturates
  <2> HIDE DEF a, s, m
  <2> QED BY <2>7, <2>8
<1> QED BY <1>1, Invariant, PTL

\* The second loop of plan() has nothing to find: TREE serves every kind under
\* the constraints of BACKEND_DEFAULT, so no plan delegates to the backend.
NoDelegation == \A in \in input, c \in plan : c.algorithm # "BACKEND_DEFAULT"

THEOREM FallbackIsNeverTaken == Spec => []NoDelegation
<1>1. IInv => NoDelegation
  <2> SUFFICES ASSUME IInv, NEW in \in input, NEW c \in plan
               PROVE c.algorithm # "BACKEND_DEFAULT"
    BY DEF NoDelegation
  <2>1. /\ desc \in Descriptors /\ n \in RankCounts /\ in \in PlannerInputs
        /\ plan = PlanFor(desc, n, in)
    BY DEF IInv, TypeOK, PlanMade
  <2>2. PICK q \in Payload(desc, n) : Chosen(c, desc, n, q, in)
    BY <2>1, Planned
  <2>3. PICK j \in 1 .. 8 :
          /\ c = Candidates(desc, n, q, in)[j] /\ Feasible(desc, n, in, Algorithm[j])
          /\ RealOnes(desc, n, in) # {} => j \in RealOnes(desc, n, in)
    BY <2>2 DEF Chosen
  <2>4. c.algorithm = Algorithm[j]
    BY <2>1, <2>3, CandidatesOfEach DEF IsCandidate
  <2>5. ASSUME Algorithm[j] = "BACKEND_DEFAULT" PROVE FALSE
    <3>1. desc.kind \in Kind
      BY <2>1, PipelineAssumption
    <3>2. Feasible(desc, n, in, "BACKEND_DEFAULT")
      BY <2>3, <2>5
    <3>3. Feasible(desc, n, in, "TREE")
      BY <3>1, <3>2 DEF Feasible, Serves
    <3>4. Algorithm[3] = "TREE"
      BY DEF Algorithm
    <3>5. 3 \in RealOnes(desc, n, in)
      BY <3>3, <3>4 DEF RealOnes
    <3> QED BY <2>3, <2>5, <3>5 DEF RealOnes
  <2> QED BY <2>4, <2>5
<1> QED BY <1>1, Invariant, PTL

-----------------------------------------------------------------------------
(* Folds: of a set in any order, and of a sequence from its first member *)

\* The members of a set that CHOOSE and Max take.
LEMMA SomeMember ==
  ASSUME NEW D
  PROVE  [s \in (SUBSET D) \ {{}} |-> CHOOSE x \in s : TRUE] \in ChoicesFrom(D)
<1>1. ASSUME NEW s \in (SUBSET D) \ {{}} PROVE (CHOOSE x \in s : TRUE) \in s
  OBVIOUS
<1> QED BY <1>1 DEF ChoicesFrom

\* The sum of a function over 1 .. ranks, member by member.
LEMMA Sums ==
  ASSUME NEW ranks \in Nat, NEW vals \in [1 .. ranks -> Int]
  PROVE  \E q \in [0 .. ranks -> Int] :
           /\ q[0] = 0 /\ \A k \in 1 .. ranks : q[k] = vals[k] + q[k - 1]
           /\ SumFunction(vals) = q[ranks]
<1> DEFINE D == 1 .. ranks
           c == [s \in (SUBSET D) \ {{}} |-> CHOOSE x \in s : TRUE]
           step == [k \in D |-> [v \in Int |-> vals[k] + v]]
           Body(h, s) == IF s = {} THEN 0
                         ELSE vals[CHOOSE x \in s : TRUE] + h[s \ {CHOOSE x \in s : TRUE}]
           F == CHOOSE h : h = [s \in SUBSET D |-> Body(h, s)]
<1>1. SumFunction(vals) = F[D]
  BY DEF SumFunction, SumFunctionOnSet, FoldFunctionOnSet, MapThenFoldSet
<1> HIDE DEF F
<1>2. ranks \in Nat /\ IsFiniteSet(D) /\ 0 \in Int
  BY FS_Interval
<1>3. c \in ChoicesFrom(D)
  <2> HIDE DEF D
  <2> QED BY SomeMember
<1>4. \A s \in (SUBSET D) \ {{}} : c[s] = (CHOOSE x \in s : TRUE) /\ c[s] \in s /\ c[s] \in D
  <2> HIDE DEF D
  <2>1. \A s \in (SUBSET D) \ {{}} : c[s] \in s
    <3> HIDE DEF c
    <3> QED BY <1>3 DEF ChoicesFrom
  <2> QED BY <2>1
<1>5. step \in FoldSteps(D, Int) /\ \A k \in D, v \in Int : step[k][v] = vals[k] + v
  BY DEF FoldSteps
<1>6. \A h, s : s = {} => Body(h, s) = 0
  OBVIOUS
<1>7. ASSUME NEW h, NEW s \in (SUBSET D) \ {{}}
      PROVE  /\ Body(h, s) = vals[c[s]] + h[s \ {c[s]}]
             /\ h[s \ {c[s]}] \in Int => Body(h, s) = step[c[s]][h[s \ {c[s]}]]
  <2>1. Body(h, s) = vals[c[s]] + h[s \ {c[s]}]
    <3> HIDE DEF D, c
    <3> QED BY <1>4
  <2>2. c[s] \in D
    BY <1>4
  <2> HIDE DEF Body, step, c, D
  <2> QED BY <2>1, <2>2, <1>5
<1> HIDE DEF c, step, D
<1>8. PICK g : SetFold(g, D, Int, 0, step, c)
  <2> HIDE DEF Body
  <2> QED BY <1>2, <1>3, <1>5, SetRecursion
<1>9. g = [s \in SUBSET D |-> Body(g, s)]
  <2> HIDE DEF Body
  <2>1. /\ g \in [SUBSET D -> Int]
        /\ \A s \in SUBSET D : g[s] = IF s = {} THEN 0 ELSE step[c[s]][g[s \ {c[s]}]]
    BY <1>8 DEF SetFold
  <2>2. ASSUME NEW s \in SUBSET D PROVE g[s] = Body(g, s)
    <3>1. CASE s = {}
      BY <3>1, <2>1, <1>6
    <3>2. CASE s # {}
      BY <3>2, <2>1, <1>7
    <3> QED BY <3>1, <3>2
  <2> QED BY <2>1, <2>2
<1>10. F = [s \in SUBSET D |-> Body(F, s)]
  <2> HIDE DEF Body
  <2> QED BY <1>9 DEF F
<1> HIDE DEF Body
<1>11. Commute(D, Int, step)
  <2> USE DEF Commute
  <2> TAKE i \in D, j \in D, v \in Int
  <2>1. vals[i] \in Int /\ vals[j] \in Int
    BY DEF D
  <2>2. vals[i] + v \in Int /\ vals[j] + v \in Int /\ vals[i] + (vals[j] + v) = vals[j] + (vals[i] + v)
    <3> DEFINE x == vals[i]
               y == vals[j]
    <3>1. x \in Int /\ y \in Int
      BY <2>1
    <3> HIDE DEF x, y
    <3>2. x + v \in Int /\ y + v \in Int /\ x + (y + v) = y + (x + v)
      BY <3>1
    <3> QED BY <3>2 DEF x, y
  <2>3. step[i][v] = vals[i] + v /\ step[j][v] = vals[j] + v
    BY <1>5
  <2>4. step[i][vals[j] + v] = vals[i] + (vals[j] + v) /\ step[j][vals[i] + v] = vals[j] + (vals[i] + v)
    BY <2>2, <1>5
  <2> QED BY <2>2, <2>3, <2>4
<1>12. GoesOn(F, D, Int, 0, step, c)
  <2>1. \A s \in SUBSET D : F[s] = Body(F, s)
    BY <1>10
  <2>2. F = [s \in SUBSET D |-> F[s]]
    BY <1>10
  <2>3. F[{}] = 0
    BY <2>1, <1>6
  <2>4. ASSUME NEW s \in (SUBSET D) \ {{}}, F[s \ {c[s]}] \in Int
        PROVE  F[s] = step[c[s]][F[s \ {c[s]}]]
    BY <2>1, <2>4, <1>7
  <2> QED BY <2>2, <2>3, <2>4 DEF GoesOn
<1>13. PICK q : Iterates(q, ranks, Int, 0, step) /\ q[ranks] = F[D]
  <2> DEFINE X == Int
             zero == 0
  <2>1. D = 1 .. ranks
    BY DEF D
  <2>2. zero \in X /\ step \in FoldSteps(D, X) /\ c \in ChoicesFrom(D)
    BY <1>3, <1>5
  <2>3. GoesOn(F, D, X, zero, step, c) /\ Commute(D, X, step)
    BY <1>11, <1>12
  <2> HIDE DEF X, zero
  <2>4. \E q : Iterates(q, ranks, X, zero, step) /\ q[ranks] = F[D]
    BY <2>1, <2>2, <2>3, OrderDoesNotMatter
  <2> QED BY <2>4 DEF X, zero
<1>14. q \in [0 .. ranks -> Int] /\ q[0] = 0 /\ \A k \in 1 .. ranks : q[k] = step[k][q[k - 1]]
  BY <1>13 DEF Iterates
<1>15. ASSUME NEW k \in 1 .. ranks PROVE q[k] = vals[k] + q[k - 1]
  <2>1. k - 1 \in 0 .. ranks /\ k \in D
    BY DEF D
  <2> QED BY <2>1, <1>5, <1>14
<1> QED BY <1>1, <1>13, <1>14, <1>15

\* The product of a function over 1 .. ranks, member by member.
LEMMA Products ==
  ASSUME NEW ranks \in Nat, NEW vals \in [1 .. ranks -> Int]
  PROVE  \E q \in [0 .. ranks -> Int] :
           /\ q[0] = 1 /\ \A k \in 1 .. ranks : q[k] = vals[k] * q[k - 1]
           /\ FoldFunction(LAMBDA x, y : x * y, 1, vals) = q[ranks]
<1> DEFINE D == 1 .. ranks
           c == [s \in (SUBSET D) \ {{}} |-> CHOOSE x \in s : TRUE]
           step == [k \in D |-> [v \in Int |-> vals[k] * v]]
           Body(h, s) == IF s = {} THEN 1
                         ELSE vals[CHOOSE x \in s : TRUE] * h[s \ {CHOOSE x \in s : TRUE}]
           F == CHOOSE h : h = [s \in SUBSET D |-> Body(h, s)]
<1>1. FoldFunction(LAMBDA x, y : x * y, 1, vals) = F[D]
  BY DEF FoldFunction, FoldFunctionOnSet, MapThenFoldSet
<1> HIDE DEF F
<1>2. ranks \in Nat /\ IsFiniteSet(D) /\ 1 \in Int
  BY FS_Interval
<1>3. c \in ChoicesFrom(D)
  <2> HIDE DEF D
  <2> QED BY SomeMember
<1>4. \A s \in (SUBSET D) \ {{}} : c[s] = (CHOOSE x \in s : TRUE) /\ c[s] \in s /\ c[s] \in D
  <2> HIDE DEF D
  <2>1. \A s \in (SUBSET D) \ {{}} : c[s] \in s
    <3> HIDE DEF c
    <3> QED BY <1>3 DEF ChoicesFrom
  <2> QED BY <2>1
<1>5. step \in FoldSteps(D, Int) /\ \A k \in D, v \in Int : step[k][v] = vals[k] * v
  BY DEF FoldSteps
<1>6. \A h, s : s = {} => Body(h, s) = 1
  OBVIOUS
<1>7. ASSUME NEW h, NEW s \in (SUBSET D) \ {{}}
      PROVE  /\ Body(h, s) = vals[c[s]] * h[s \ {c[s]}]
             /\ h[s \ {c[s]}] \in Int => Body(h, s) = step[c[s]][h[s \ {c[s]}]]
  <2>1. Body(h, s) = vals[c[s]] * h[s \ {c[s]}]
    <3> HIDE DEF D, c
    <3> QED BY <1>4
  <2>2. c[s] \in D
    BY <1>4
  <2> HIDE DEF Body, step, c, D
  <2> QED BY <2>1, <2>2, <1>5
<1> HIDE DEF c, step, D
<1>8. PICK g : SetFold(g, D, Int, 1, step, c)
  <2> HIDE DEF Body
  <2> QED BY <1>2, <1>3, <1>5, SetRecursion
<1>9. g = [s \in SUBSET D |-> Body(g, s)]
  <2> HIDE DEF Body
  <2>1. /\ g \in [SUBSET D -> Int]
        /\ \A s \in SUBSET D : g[s] = IF s = {} THEN 1 ELSE step[c[s]][g[s \ {c[s]}]]
    BY <1>8 DEF SetFold
  <2>2. ASSUME NEW s \in SUBSET D PROVE g[s] = Body(g, s)
    <3>1. CASE s = {}
      BY <3>1, <2>1, <1>6
    <3>2. CASE s # {}
      BY <3>2, <2>1, <1>7
    <3> QED BY <3>1, <3>2
  <2> QED BY <2>1, <2>2
<1>10. F = [s \in SUBSET D |-> Body(F, s)]
  <2> HIDE DEF Body
  <2> QED BY <1>9 DEF F
<1> HIDE DEF Body
<1>11. Commute(D, Int, step)
  <2> USE DEF Commute
  <2> TAKE i \in D, j \in D, v \in Int
  <2>1. vals[i] \in Int /\ vals[j] \in Int
    BY DEF D
  <2>2. vals[i] * v \in Int /\ vals[j] * v \in Int /\ vals[i] * (vals[j] * v) = vals[j] * (vals[i] * v)
    <3> DEFINE x == vals[i]
               y == vals[j]
    <3>1. x \in Int /\ y \in Int
      BY <2>1
    <3> HIDE DEF x, y
    <3>2. x * v \in Int /\ y * v \in Int
      BY <3>1
    <3>3. x * (y * v) = y * (x * v)
      BY <3>1
    <3> QED BY <3>2, <3>3 DEF x, y
  <2>3. step[i][v] = vals[i] * v /\ step[j][v] = vals[j] * v
    BY <1>5
  <2>4. step[i][vals[j] * v] = vals[i] * (vals[j] * v) /\ step[j][vals[i] * v] = vals[j] * (vals[i] * v)
    BY <2>2, <1>5
  <2> QED BY <2>2, <2>3, <2>4
<1>12. GoesOn(F, D, Int, 1, step, c)
  <2>1. \A s \in SUBSET D : F[s] = Body(F, s)
    BY <1>10
  <2>2. F = [s \in SUBSET D |-> F[s]]
    BY <1>10
  <2>3. F[{}] = 1
    BY <2>1, <1>6
  <2>4. ASSUME NEW s \in (SUBSET D) \ {{}}, F[s \ {c[s]}] \in Int
        PROVE  F[s] = step[c[s]][F[s \ {c[s]}]]
    BY <2>1, <2>4, <1>7
  <2> QED BY <2>2, <2>3, <2>4 DEF GoesOn
<1>13. PICK q : Iterates(q, ranks, Int, 1, step) /\ q[ranks] = F[D]
  <2> DEFINE X == Int
             one == 1
  <2>1. D = 1 .. ranks
    BY DEF D
  <2>2. one \in X /\ step \in FoldSteps(D, X) /\ c \in ChoicesFrom(D)
    BY <1>3, <1>5
  <2>3. GoesOn(F, D, X, one, step, c) /\ Commute(D, X, step)
    BY <1>11, <1>12
  <2> HIDE DEF X, one
  <2>4. \E q : Iterates(q, ranks, X, one, step) /\ q[ranks] = F[D]
    BY <2>1, <2>2, <2>3, OrderDoesNotMatter
  <2> QED BY <2>4 DEF X, one
<1>14. q \in [0 .. ranks -> Int] /\ q[0] = 1 /\ \A k \in 1 .. ranks : q[k] = step[k][q[k - 1]]
  BY <1>13 DEF Iterates
<1>15. ASSUME NEW k \in 1 .. ranks PROVE q[k] = vals[k] * q[k - 1]
  <2>1. k - 1 \in 0 .. ranks /\ k \in D
    BY DEF D
  <2> QED BY <2>1, <1>5, <1>14
<1> QED BY <1>1, <1>13, <1>14, <1>15

\* Max returns the member that no other is above.
LEMMA GreatestMember ==
  ASSUME NEW m \in Nat, NEW S \in SUBSET (0 .. m), S # {}
  PROVE  Max(S) \in S /\ \A x \in S : x <= Max(S)
<1> DEFINE T == {m - x : x \in S}
<1>1. T \in SUBSET Nat /\ T # {}
  <2>1. \A x \in S : m - x \in Nat
    OBVIOUS
  <2> QED BY <2>1
<1> HIDE DEF T
<1>2. PICK y \in T : \A k \in T : y <= k
  BY <1>1, Least
<1>3. PICK z \in S : y = m - z
  BY <1>2 DEF T
<1>4. ASSUME NEW x \in S PROVE x <= z
  <2>1. m - x \in T
    BY DEF T
  <2>2. m - z <= m - x /\ x \in Nat /\ z \in Nat
    BY <1>2, <1>3, <2>1
  <2> QED BY <2>2
<1> QED BY <1>4 DEF Max

MaxIsTheLast(D) ==
  /\ [s \in (SUBSET D) \ {{}} |-> Max(s)] \in ChoicesFrom(D)
  /\ \A s \in (SUBSET D) \ {{}} : Max(s) \in s
  /\ \A k \in D : Max(1 .. k) = k

\* Max chooses a member, of 1 .. k the last.
LEMMA LastMember ==
  ASSUME NEW m \in Nat, NEW D, D = 1 .. m
  PROVE  MaxIsTheLast(D)
<1>1. ASSUME NEW s \in (SUBSET D) \ {{}} PROVE Max(s) \in s /\ \A x \in s : x <= Max(s)
  <2>1. s \in SUBSET (0 .. m) /\ s # {}
    OBVIOUS
  <2> QED BY <2>1, GreatestMember
<1>2. ASSUME NEW k \in D PROVE Max(1 .. k) = k
  <2>1. 1 .. k \in (SUBSET D) \ {{}} /\ k \in 1 .. k
    OBVIOUS
  <2>2. Max(1 .. k) \in 1 .. k /\ k <= Max(1 .. k)
    BY <2>1, <1>1
  <2> QED BY <2>2
<1>3. [s \in (SUBSET D) \ {{}} |-> Max(s)] \in ChoicesFrom(D)
  <2>1. \A s \in (SUBSET D) \ {{}} : Max(s) \in s /\ Max(s) \in D
    BY <1>1
  <2> HIDE DEF Max
  <2> QED BY <2>1 DEF ChoicesFrom
<1> QED BY <1>1, <1>2, <1>3 DEF MaxIsTheLast

\* do_reduce on the elements at i, first aside, which are those of tail.
Folded(dt, op, i, first, tail) ==
  FoldLeft(LAMBDA acc, buf : Combine(dt, op, acc, buf[i]), first, tail)

KeepsNumbers(dt, op, i, tail) ==
  \A k \in DOMAIN tail, v \in Int : Combine(dt, op, v, tail[k][i]) \in Int

\* f goes from the first member to the last.
GoesThrough(f, m, dt, op, i, first, tail) ==
  /\ f \in [0 .. m -> Int] /\ f[0] = first
  /\ \A k \in 1 .. m : f[k] = Combine(dt, op, f[k - 1], tail[k][i])

\* FoldLeft goes from the first member to the last.
LEMMA LeftFold ==
  ASSUME NEW m \in Nat, NEW tail, DOMAIN tail = 1 .. m, NEW i, NEW dt, NEW op, NEW first \in Int,
         KeepsNumbers(dt, op, i, tail)
  PROVE  \E f : GoesThrough(f, m, dt, op, i, first, tail) /\ Folded(dt, op, i, first, tail) = f[m]
<1> DEFINE D == DOMAIN tail
           c == [s \in (SUBSET D) \ {{}} |-> Max(s)]
           step == [k \in D |-> [v \in Int |-> Combine(dt, op, v, tail[k][i])]]
           Body(h, s) == IF s = {} THEN first
                         ELSE Combine(dt, op, h[s \ {Max(s)}], tail[Max(s)][i])
           F == CHOOSE h : h = [s \in SUBSET D |-> Body(h, s)]
<1>1. Folded(dt, op, i, first, tail) = F[D]
  BY DEF Folded, FoldLeft, MapThenFoldSet
<1> HIDE DEF F
<1>2. D = 1 .. m /\ IsFiniteSet(D)
  BY FS_Interval
<1> HIDE DEF D
<1>3. /\ c \in ChoicesFrom(D) /\ \A s \in (SUBSET D) \ {{}} : c[s] = Max(s) /\ c[s] \in D
      /\ \A k \in D : Max(1 .. k) = k
  <2>1. MaxIsTheLast(D)
    BY <1>2, LastMember
  <2>2. /\ c \in ChoicesFrom(D) /\ \A k \in D : Max(1 .. k) = k
        /\ \A s \in (SUBSET D) \ {{}} : Max(s) \in s
    BY <2>1 DEF MaxIsTheLast
  <2> QED BY <2>2
<1>4. step \in FoldSteps(D, Int) /\ \A k \in D, v \in Int : step[k][v] = Combine(dt, op, v, tail[k][i])
  <2>1. \A k \in D, v \in Int : Combine(dt, op, v, tail[k][i]) \in Int
    BY DEF KeepsNumbers, D
  <2> QED BY <2>1 DEF FoldSteps
<1>6. \A h, s : s = {} => Body(h, s) = first
  OBVIOUS
<1>7. ASSUME NEW h, NEW s \in (SUBSET D) \ {{}}
      PROVE  /\ Body(h, s) = Combine(dt, op, h[s \ {c[s]}], tail[c[s]][i])
             /\ h[s \ {c[s]}] \in Int => Body(h, s) = step[c[s]][h[s \ {c[s]}]]
  <2>1. Body(h, s) = Combine(dt, op, h[s \ {c[s]}], tail[c[s]][i])
    <3> HIDE DEF c
    <3> QED BY <1>3
  <2>2. c[s] \in D
    BY <1>3
  <2> HIDE DEF Body, step, c
  <2> QED BY <2>1, <2>2, <1>4
<1> HIDE DEF c, step
<1>8. PICK g : SetFold(g, D, Int, first, step, c)
  <2> HIDE DEF Body
  <2> QED BY <1>2, <1>3, <1>4, SetRecursion
<1>9. g = [s \in SUBSET D |-> Body(g, s)]
  <2> HIDE DEF Body
  <2>1. /\ g \in [SUBSET D -> Int]
        /\ \A s \in SUBSET D : g[s] = IF s = {} THEN first ELSE step[c[s]][g[s \ {c[s]}]]
    BY <1>8 DEF SetFold
  <2>2. ASSUME NEW s \in SUBSET D PROVE g[s] = Body(g, s)
    <3>1. CASE s = {}
      BY <3>1, <2>1, <1>6
    <3>2. CASE s # {}
      BY <3>2, <2>1, <1>7
    <3> QED BY <3>1, <3>2
  <2> QED BY <2>1, <2>2
<1>10. F = [s \in SUBSET D |-> Body(F, s)]
  <2> HIDE DEF Body
  <2> QED BY <1>9 DEF F
<1> HIDE DEF Body
<1>11. GoesOn(F, D, Int, first, step, c)
  <2>1. \A s \in SUBSET D : F[s] = Body(F, s)
    BY <1>10
  <2>2. F = [s \in SUBSET D |-> F[s]]
    BY <1>10
  <2>3. F[{}] = first
    BY <2>1, <1>6
  <2>4. ASSUME NEW s \in (SUBSET D) \ {{}}, F[s \ {c[s]}] \in Int
        PROVE  F[s] = step[c[s]][F[s \ {c[s]}]]
    BY <2>1, <2>4, <1>7
  <2> QED BY <2>2, <2>3, <2>4 DEF GoesOn
<1>12. SetFold(F, D, Int, first, step, c)
  BY <1>2, <1>3, <1>4, <1>11, ThatFold
<1>13. PICK f : Iterates(f, m, Int, first, step) /\ f[m] = F[D]
  <2> DEFINE X == Int
             base == first
  <2>1. ASSUME NEW k \in 1 .. m PROVE F[1 .. k] = step[k][F[(1 .. k) \ {k}]]
    <3>1. k \in D /\ 1 .. k \in (SUBSET D) \ {{}}
      <4>1. k \in D /\ k \in 1 .. k /\ 1 .. k \in SUBSET D
        BY <1>2
      <4> QED BY <4>1
    <3>2. Max(1 .. k) = k
      BY <1>3, <3>1
    <3>3. c[1 .. k] = Max(1 .. k)
      BY <1>3, <3>1
    <3>4. F[1 .. k] = step[c[1 .. k]][F[(1 .. k) \ {c[1 .. k]}]]
      BY <1>12, <3>1 DEF SetFold
    <3> QED BY <3>2, <3>3, <3>4
  <2>2. StartsLast(F, m, step)
    BY <2>1 DEF StartsLast
  <2>3. step \in StepFunctions(m, X) /\ base \in X /\ SetFold(F, D, X, base, step, c)
    BY <1>2, <1>4, <1>12 DEF StepFunctions, FoldSteps
  <2> HIDE DEF X, base
  <2>4. D = 1 .. m
    BY <1>2
  <2>5. \E f : Iterates(f, m, X, base, step) /\ f[m] = F[D]
    BY <2>2, <2>3, <2>4, InOrder
  <2> QED BY <2>5 DEF X, base
<1>14. f \in [0 .. m -> Int] /\ f[0] = first /\ \A k \in 1 .. m : f[k] = step[k][f[k - 1]]
  BY <1>13 DEF Iterates
<1>15. ASSUME NEW k \in 1 .. m PROVE f[k] = Combine(dt, op, f[k - 1], tail[k][i])
  <2>1. k - 1 \in 0 .. m /\ k \in D
    BY <1>2
  <2> QED BY <2>1, <1>4, <1>14
<1> QED BY <1>1, <1>13, <1>14, <1>15 DEF GoesThrough

-----------------------------------------------------------------------------
(* The elements of a reduction *)

\* Euclid: what % returns.
LEMMA Remainder ==
  ASSUME NEW a \in Int, NEW b \in Nat, b # 0
  PROVE  a % b \in 0 .. b - 1 /\ a \div b \in Int /\ a = (a \div b) * b + (a % b)
OBVIOUS

\* Multiples of the divisor do not change the remainder.
LEMMA SameRemainder ==
  ASSUME NEW b \in Nat, b # 0, NEW x \in Int, NEW y \in Int, NEW k \in Int, x = y + k * b
  PROVE  x % b = y % b
<1> DEFINE rx == x % b
           ry == y % b
           e == (y \div b + k) - x \div b
<1>1. rx \in 0 .. b - 1 /\ ry \in 0 .. b - 1 /\ e \in Int
  BY Remainder
<1>2. rx - ry = e * b
  <2>1. x = (x \div b) * b + rx /\ y = (y \div b) * b + ry
    BY Remainder
  <2>2. x \div b \in Int /\ y \div b \in Int
    BY Remainder
  <2> DEFINE p == x \div b
             q == y \div b
  <2>3. /\ p \in Int /\ q \in Int /\ rx \in Int /\ ry \in Int
        /\ p * b + rx = (q * b + ry) + k * b /\ e = (q + k) - p
    BY <2>1, <2>2, <1>1
  <2> HIDE DEF p, q, rx, ry, e
  <2>4. p * b \in Int /\ q * b \in Int /\ k * b \in Int
    BY <2>3
  <2>5. ((q + k) - p) * b = (q * b + k * b) - p * b
    BY <2>3
  <2> QED BY <2>3, <2>4, <2>5
<1> HIDE DEF rx, ry, e
<1>3. CASE e >= 1
  <2>1. e * b >= b
    BY <1>1, <1>3
  <2> QED BY <2>1, <1>1, <1>2
<1>4. CASE e <= -1
  <2>1. e * b <= - b
    BY <1>1, <1>4
  <2> QED BY <2>1, <1>1, <1>2
<1>5. CASE e = 0
  BY <1>1, <1>2, <1>5 DEF rx, ry
<1> QED BY <1>1, <1>3, <1>4, <1>5

\* Whether each step wraps or the result does is the same.
LEMMA WrapsOnce ==
  ASSUME NEW dt, NEW a \in Int, NEW b \in Int
  PROVE  /\ Wrap(dt, a) \in Int
         /\ Wrap(dt, Wrap(dt, a) + b) = Wrap(dt, a + b)
         /\ Wrap(dt, Wrap(dt, a) * b) = Wrap(dt, a * b)
         /\ a \in Elements(dt) => Wrap(dt, a) = a
<1> DEFINE M == Modulus
           r == a % M
           q == a \div M
<1>1. M \in Nat /\ M # 0
  BY ModulusAssumption
<1>2. r \in Int /\ q \in Int /\ a = r + q * M
  BY <1>1, Remainder
<1>3. (a + b) % M = (r + b) % M
  <2> HIDE DEF M, q, r
  <2>1. a + b = (r + b) + q * M /\ a + b \in Int /\ r + b \in Int
    BY <1>1, <1>2
  <2> DEFINE x == a + b
             y == r + b
  <2>2. x \in Int /\ y \in Int /\ q \in Int /\ x = y + q * M
    BY <1>2, <2>1
  <2> HIDE DEF x, y
  <2>3. x % M = y % M
    BY <2>2, <1>1, SameRemainder
  <2> QED BY <2>3 DEF x, y
<1>4. (a * b) % M = (r * b) % M
  <2> HIDE DEF M, q, r
  <2>1. a * b = r * b + (q * b) * M
    <3>1. (r + q * M) * b = r * b + (q * b) * M
      BY <1>1, <1>2
    <3> QED BY <3>1, <1>2
  <2>2. a * b \in Int /\ r * b \in Int /\ q * b \in Int
    BY <1>2
  <2> DEFINE x == a * b
             y == r * b
             k == q * b
  <2>3. x \in Int /\ y \in Int /\ k \in Int /\ x = y + k * M
    BY <2>1, <2>2
  <2> HIDE DEF x, y, k
  <2>4. x % M = y % M
    BY <2>3, <1>1, SameRemainder
  <2> QED BY <2>4 DEF x, y
<1>5. a \in 0 .. M - 1 => r = a
  BY <1>1
<1>6. CASE dt = "UINT32"
  BY <1>2, <1>3, <1>4, <1>5, <1>6 DEF Wrap, Elements
<1>7. CASE dt # "UINT32"
  BY <1>7 DEF Wrap
<1> QED BY <1>6, <1>7

\* f folds the values from the first to the last.
Partial(f, m, dt, op, vals) ==
  /\ f \in [0 .. m -> Int] /\ f[0] = vals[1]
  /\ \A k \in 1 .. m : f[k] = Combine(dt, op, f[k - 1], vals[k + 1])

Values(dt, m) == [1 .. m + 1 -> Elements(dt)]

\* The elements are numbers, and those of UINT32 fit.
LEMMA ValuesAreNumbers ==
  ASSUME NEW m \in Nat, NEW dt, NEW vals \in Values(dt, m)
  PROVE  /\ vals \in [1 .. m + 1 -> Int] /\ m + 1 \in Nat
         /\ \A k \in 1 .. m + 1 : vals[k] \in Int /\ vals[k] \in Elements(dt)
<1>1. \A k \in 1 .. m + 1 : vals[k] \in Int /\ vals[k] \in Elements(dt)
  BY ModulusAssumption DEF Values, Elements
<1> QED BY <1>1 DEF Values

\* The elements are added with a wrap at every step; the sum wraps once.
LEMMA SumReduced ==
  ASSUME NEW m \in Nat, NEW dt, NEW vals \in Values(dt, m), NEW f, Partial(f, m, dt, "SUM", vals)
  PROVE  f[m] = Wrap(dt, SumFunction(vals))
<1>1. /\ f \in [0 .. m -> Int] /\ f[0] = vals[1]
      /\ \A k \in 1 .. m : f[k] = Wrap(dt, f[k - 1] + vals[k + 1])
  BY DEF Partial, Combine
<1>2. PICK q \in [0 .. m + 1 -> Int] :
        /\ q[0] = 0 /\ \A k \in 1 .. m + 1 : q[k] = vals[k] + q[k - 1]
        /\ SumFunction(vals) = q[m + 1]
  BY ValuesAreNumbers, Sums
<1> DEFINE G == {k \in 0 .. m : f[k] = Wrap(dt, q[k + 1])}
<1>3. 0 \in G
  <2>1. 1 \in 1 .. m + 1 /\ 1 - 1 = 0 /\ 0 + 1 = 1
    OBVIOUS
  <2>2. q[1] = vals[1] + 0 /\ vals[1] \in Int /\ vals[1] \in Elements(dt)
    BY <2>1, <1>2, ValuesAreNumbers
  <2>3. q[1] = vals[1]
    BY <2>2
  <2>4. Wrap(dt, vals[1]) = vals[1]
    BY <2>2, WrapsOnce
  <2> QED BY <2>1, <2>3, <2>4, <1>1
<1>4. ASSUME NEW k \in 0 .. m, k < m, k \in G PROVE k + 1 \in G
  <2>1. /\ k + 1 \in 1 .. m /\ (k + 1) - 1 = k /\ (k + 1) + 1 \in 1 .. m + 1
        /\ ((k + 1) + 1) - 1 = k + 1 /\ k + 1 \in 0 .. m /\ k + 1 \in 0 .. m + 1
    BY <1>4
  <2> DEFINE a == q[k + 1]
             b == vals[(k + 1) + 1]
  <2>2. a \in Int /\ b \in Int
    BY <2>1, <1>2, ValuesAreNumbers
  <2>3. f[k + 1] = Wrap(dt, Wrap(dt, a) + b)
    BY <2>1, <1>1, <1>4
  <2>4. q[(k + 1) + 1] = b + a
    BY <2>1, <1>2
  <2> HIDE DEF a, b
  <2>5. Wrap(dt, Wrap(dt, a) + b) = Wrap(dt, a + b) /\ a + b = b + a
    BY <2>2, WrapsOnce
  <2> QED BY <2>1, <2>3, <2>4, <2>5
<1> HIDE DEF G
<1>5. 0 .. m \subseteq G
  BY <1>3, <1>4, UpTo
<1>6. m \in G
  BY <1>5
<1> QED BY <1>2, <1>6 DEF G

\* The product of the ranks' values.
Product(vals) == FoldFunction(LAMBDA x, y : x * y, 1, vals)

\* The same of their product.
LEMMA ProductReduced ==
  ASSUME NEW m \in Nat, NEW dt, NEW vals \in Values(dt, m), NEW f, Partial(f, m, dt, "PRODUCT", vals)
  PROVE  f[m] = Wrap(dt, Product(vals))
<1>1. /\ f \in [0 .. m -> Int] /\ f[0] = vals[1]
      /\ \A k \in 1 .. m : f[k] = Wrap(dt, f[k - 1] * vals[k + 1])
  BY DEF Partial, Combine
<1>2. PICK q \in [0 .. m + 1 -> Int] :
        /\ q[0] = 1 /\ \A k \in 1 .. m + 1 : q[k] = vals[k] * q[k - 1]
        /\ Product(vals) = q[m + 1]
  <2>1. vals \in [1 .. m + 1 -> Int] /\ m + 1 \in Nat
    BY ValuesAreNumbers
  <2> QED BY <2>1, Products DEF Product
<1> DEFINE G == {k \in 0 .. m : f[k] = Wrap(dt, q[k + 1])}
<1>3. 0 \in G
  <2>1. 1 \in 1 .. m + 1 /\ 1 - 1 = 0 /\ 0 + 1 = 1
    OBVIOUS
  <2>2. q[1] = vals[1] * 1 /\ vals[1] \in Int /\ vals[1] \in Elements(dt)
    BY <2>1, <1>2, ValuesAreNumbers
  <2>3. q[1] = vals[1]
    BY <2>2
  <2>4. Wrap(dt, vals[1]) = vals[1]
    BY <2>2, WrapsOnce
  <2> QED BY <2>1, <2>3, <2>4, <1>1
<1>4. ASSUME NEW k \in 0 .. m, k < m, k \in G PROVE k + 1 \in G
  <2>1. /\ k + 1 \in 1 .. m /\ (k + 1) - 1 = k /\ (k + 1) + 1 \in 1 .. m + 1
        /\ ((k + 1) + 1) - 1 = k + 1 /\ k + 1 \in 0 .. m /\ k + 1 \in 0 .. m + 1
    BY <1>4
  <2> DEFINE a == q[k + 1]
             b == vals[(k + 1) + 1]
  <2>2. a \in Int /\ b \in Int
    BY <2>1, <1>2, ValuesAreNumbers
  <2>3. f[k + 1] = Wrap(dt, Wrap(dt, a) * b)
    BY <2>1, <1>1, <1>4
  <2>4. q[(k + 1) + 1] = b * a
    BY <2>1, <1>2
  <2> HIDE DEF a, b
  <2>5. Wrap(dt, Wrap(dt, a) * b) = Wrap(dt, a * b) /\ a * b = b * a
    BY <2>2, WrapsOnce
  <2> QED BY <2>1, <2>3, <2>4, <2>5
<1> HIDE DEF G
<1>5. 0 .. m \subseteq G
  BY <1>3, <1>4, UpTo
<1>6. m \in G
  BY <1>5
<1> QED BY <1>2, <1>6 DEF G

\* The smaller of two at every step is the smallest.
LEMMA MinReduced ==
  ASSUME NEW m \in Nat, NEW dt, NEW vals \in Values(dt, m), NEW f, Partial(f, m, dt, "MIN", vals)
  PROVE  f[m] = Min(Range(vals))
<1>1. /\ f \in [0 .. m -> Int] /\ f[0] = vals[1]
      /\ \A k \in 1 .. m : f[k] = IF f[k - 1] < vals[k + 1] THEN f[k - 1] ELSE vals[k + 1]
  BY DEF Partial, Combine
<1>2. DOMAIN vals = 1 .. m + 1 /\ \A k \in 1 .. m + 1 : vals[k] \in Int
  BY ValuesAreNumbers DEF Values
<1> DEFINE IsLeast(k) == /\ \E j \in 1 .. k + 1 : f[k] = vals[j]
                       /\ \A j \in 1 .. k + 1 : f[k] <= vals[j]
           G == {k \in 0 .. m : IsLeast(k)}
<1>3. 0 \in G
  <2>1. 1 \in 1 .. 0 + 1 /\ \A j \in 1 .. 0 + 1 : j = 1
    OBVIOUS
  <2>2. f[0] = vals[1] /\ vals[1] \in Int
    BY <1>1, <1>2
  <2>3. IsLeast(0)
    BY <2>1, <2>2
  <2> QED BY <2>3
<1>4. ASSUME NEW k \in 0 .. m, k < m, k \in G PROVE k + 1 \in G
  <2>1. k + 1 \in 1 .. m /\ (k + 1) - 1 = k /\ (k + 1) + 1 \in 1 .. m + 1 /\ k + 1 \in 0 .. m
    BY <1>4
  <2> DEFINE b == vals[(k + 1) + 1]
  <2>2. f[k + 1] = IF f[k] < b THEN f[k] ELSE b
    BY <2>1, <1>1
  <2>3. f[k] \in Int /\ b \in Int /\ IsLeast(k)
    BY <2>1, <1>1, <1>2, <1>4
  <2>4. \A j \in 1 .. (k + 1) + 1 : j \in 1 .. k + 1 \/ j = (k + 1) + 1
    OBVIOUS
  <2>5. \A j \in 1 .. k + 1 : j \in 1 .. (k + 1) + 1 /\ vals[j] \in Int
    BY <2>1, <1>2
  <2>6. \E j \in 1 .. (k + 1) + 1 : f[k + 1] = vals[j]
    <3>1. CASE f[k] < b
      BY <3>1, <2>2, <2>3, <2>5
    <3>2. CASE ~ (f[k] < b)
      <4>1. (k + 1) + 1 \in 1 .. (k + 1) + 1 /\ f[k + 1] = vals[(k + 1) + 1]
        BY <3>2, <2>1, <2>2
      <4> QED BY <4>1
    <3> QED BY <3>1, <3>2
  <2>7. f[k + 1] \in Int /\ f[k + 1] <= f[k] /\ f[k + 1] <= b
    BY <2>2, <2>3
  <2>8. ASSUME NEW j \in 1 .. (k + 1) + 1 PROVE f[k + 1] <= vals[j]
    <3>1. CASE j \in 1 .. k + 1
      <4>1. f[k] <= vals[j] /\ vals[j] \in Int
        BY <3>1, <2>3, <2>5
      <4> QED BY <4>1, <2>3, <2>7
    <3>2. CASE j = (k + 1) + 1
      BY <3>2, <2>7
    <3> QED BY <3>1, <3>2, <2>4
  <2> QED BY <2>1, <2>6, <2>8
<1> HIDE DEF G
<1>5. 0 .. m \subseteq G
  BY <1>3, <1>4, UpTo
<1>6. IsLeast(m)
  <2>1. m \in G
    BY <1>5
  <2> QED BY <2>1 DEF G
<1> DEFINE S == Range(vals)
<1>7. S \in SUBSET Int /\ f[m] \in S /\ \A x \in S : f[m] <= x
  <2> HIDE DEF IsLeast
  <2>1. \A x \in S : \E j \in 1 .. m + 1 : x = vals[j]
    BY <1>2 DEF Range
  <2>2. \A j \in 1 .. m + 1 : vals[j] \in S
    BY <1>2 DEF Range
  <2> HIDE DEF S
  <2> QED BY <2>1, <2>2, <1>2, <1>6 DEF IsLeast
<1> HIDE DEF S
<1>8. Min(S) \in S /\ \A x \in S : Min(S) <= x
  BY <1>7 DEF Min
<1>9. Min(S) <= f[m] /\ f[m] <= Min(S) /\ Min(S) \in Int /\ f[m] \in Int
  BY <1>7, <1>8
<1> QED BY <1>9 DEF S

\* The larger of two at every step is the largest.
LEMMA MaxReduced ==
  ASSUME NEW m \in Nat, NEW dt, NEW vals \in Values(dt, m), NEW f, Partial(f, m, dt, "MAX", vals)
  PROVE  f[m] = Max(Range(vals))
<1>1. /\ f \in [0 .. m -> Int] /\ f[0] = vals[1]
      /\ \A k \in 1 .. m : f[k] = IF f[k - 1] > vals[k + 1] THEN f[k - 1] ELSE vals[k + 1]
  BY DEF Partial, Combine
<1>2. DOMAIN vals = 1 .. m + 1 /\ \A k \in 1 .. m + 1 : vals[k] \in Int
  BY ValuesAreNumbers DEF Values
<1> DEFINE IsGreatest(k) == /\ \E j \in 1 .. k + 1 : f[k] = vals[j]
                       /\ \A j \in 1 .. k + 1 : f[k] >= vals[j]
           G == {k \in 0 .. m : IsGreatest(k)}
<1>3. 0 \in G
  <2>1. 1 \in 1 .. 0 + 1 /\ \A j \in 1 .. 0 + 1 : j = 1
    OBVIOUS
  <2>2. f[0] = vals[1] /\ vals[1] \in Int
    BY <1>1, <1>2
  <2>3. IsGreatest(0)
    BY <2>1, <2>2
  <2> QED BY <2>3
<1>4. ASSUME NEW k \in 0 .. m, k < m, k \in G PROVE k + 1 \in G
  <2>1. k + 1 \in 1 .. m /\ (k + 1) - 1 = k /\ (k + 1) + 1 \in 1 .. m + 1 /\ k + 1 \in 0 .. m
    BY <1>4
  <2> DEFINE b == vals[(k + 1) + 1]
  <2>2. f[k + 1] = IF f[k] > b THEN f[k] ELSE b
    BY <2>1, <1>1
  <2>3. f[k] \in Int /\ b \in Int /\ IsGreatest(k)
    BY <2>1, <1>1, <1>2, <1>4
  <2>4. \A j \in 1 .. (k + 1) + 1 : j \in 1 .. k + 1 \/ j = (k + 1) + 1
    OBVIOUS
  <2>5. \A j \in 1 .. k + 1 : j \in 1 .. (k + 1) + 1 /\ vals[j] \in Int
    BY <2>1, <1>2
  <2>6. \E j \in 1 .. (k + 1) + 1 : f[k + 1] = vals[j]
    <3>1. CASE f[k] > b
      BY <3>1, <2>2, <2>3, <2>5
    <3>2. CASE ~ (f[k] > b)
      <4>1. (k + 1) + 1 \in 1 .. (k + 1) + 1 /\ f[k + 1] = vals[(k + 1) + 1]
        BY <3>2, <2>1, <2>2
      <4> QED BY <4>1
    <3> QED BY <3>1, <3>2
  <2>7. f[k + 1] \in Int /\ f[k + 1] >= f[k] /\ f[k + 1] >= b
    BY <2>2, <2>3
  <2>8. ASSUME NEW j \in 1 .. (k + 1) + 1 PROVE f[k + 1] >= vals[j]
    <3>1. CASE j \in 1 .. k + 1
      <4>1. f[k] >= vals[j] /\ vals[j] \in Int
        BY <3>1, <2>3, <2>5
      <4> QED BY <4>1, <2>3, <2>7
    <3>2. CASE j = (k + 1) + 1
      BY <3>2, <2>7
    <3> QED BY <3>1, <3>2, <2>4
  <2> QED BY <2>1, <2>6, <2>8
<1> HIDE DEF G
<1>5. 0 .. m \subseteq G
  BY <1>3, <1>4, UpTo
<1>6. IsGreatest(m)
  <2>1. m \in G
    BY <1>5
  <2> QED BY <2>1 DEF G
<1> DEFINE S == Range(vals)
<1>7. S \in SUBSET Int /\ f[m] \in S /\ \A x \in S : x <= f[m]
  <2> HIDE DEF IsGreatest
  <2>1. \A x \in S : \E j \in 1 .. m + 1 : x = vals[j]
    BY <1>2 DEF Range
  <2>2. \A j \in 1 .. m + 1 : vals[j] \in S
    BY <1>2 DEF Range
  <2> HIDE DEF S
  <2> QED BY <2>1, <2>2, <1>2, <1>6 DEF IsGreatest
<1> HIDE DEF S
<1>8. Max(S) \in S /\ \A x \in S : x <= Max(S)
  <2>1. \A x \in S : f[m] >= x
    BY <1>7
  <2> QED BY <2>1, <1>7 DEF Max
<1>9. Max(S) <= f[m] /\ f[m] <= Max(S) /\ Max(S) \in Int /\ f[m] \in Int
  BY <1>7, <1>8
<1> QED BY <1>9 DEF S

-----------------------------------------------------------------------------
(* The blocks and buffers of a collective *)

Element == Elements(desc.datatype)

\* An element of what do_reduce returns is the reduction of the ranks' elements.
LEMMA ElementReduced ==
  ASSUME NEW ranks \in Nat, ranks # 0, NEW count \in Nat, NEW i \in 1 .. count,
         NEW S, NEW bufs \in Seq(S), Len(bufs) = ranks,
         NEW vals \in [1 .. ranks -> Element], \A r \in 1 .. ranks : bufs[r][i] = vals[r],
         desc.reduction \in ReductionOp \ {"NONE"}
  PROVE  ReduceInto(desc.datatype, desc.reduction, bufs, count)[i] = Reduced(vals)
<1> DEFINE m == ranks - 1
           dt == desc.datatype
           op == desc.reduction
           first == Head(bufs)[i]
           tail == Tail(bufs)
<1>1. m \in Nat /\ m + 1 = ranks /\ vals \in Values(dt, m)
  BY DEF Values, Element, dt
<1>2. bufs # <<>> /\ DOMAIN bufs = 1 .. ranks
  BY EmptySeq, LenProperties
<1>3. /\ Head(bufs) = bufs[1] /\ tail \in Seq(S) /\ Len(tail) = m
      /\ \A k \in 1 .. m : tail[k] = bufs[k + 1]
  BY <1>2, HeadTailProperties
<1>4. DOMAIN tail = 1 .. m
  BY <1>3, LenProperties
<1>5. first = vals[1] /\ first \in Int
  BY <1>1, <1>3, ValuesAreNumbers
<1>6. \A k \in 1 .. m : tail[k][i] = vals[k + 1] /\ vals[k + 1] \in Int
  <2> TAKE k \in 1 .. m
  <2>1. k + 1 \in 1 .. ranks /\ k + 1 \in 1 .. m + 1
    BY <1>1
  <2> QED BY <2>1, <1>1, <1>3, ValuesAreNumbers
<1>7. ReduceInto(dt, op, bufs, count)[i] = Folded(dt, op, i, first, tail)
  BY DEF ReduceInto, Folded
<1> HIDE DEF m, dt, op, first, tail
<1>8. ASSUME NEW k \in 1 .. m, NEW v \in Int PROVE Combine(dt, op, v, tail[k][i]) \in Int
  <2> DEFINE b == tail[k][i]
  <2>1. b \in Int
    BY <1>6
  <2> HIDE DEF b
  <2>2. v + b \in Int /\ v * b \in Int
    BY <2>1
  <2>3. Wrap(dt, v + b) \in Int /\ Wrap(dt, v * b) \in Int
    BY <2>2, <2>1, WrapsOnce
  <2>4. Combine(dt, op, v, b) \in Int
    BY <2>1, <2>3 DEF Combine
  <2> QED BY <2>4 DEF b
<1>9. PICK f : GoesThrough(f, m, dt, op, i, first, tail) /\ Folded(dt, op, i, first, tail) = f[m]
  <2>1. KeepsNumbers(dt, op, i, tail)
    BY <1>4, <1>8 DEF KeepsNumbers
  <2> QED BY <2>1, <1>1, <1>4, <1>5, LeftFold
<1>10. Partial(f, m, dt, op, vals)
  BY <1>5, <1>6, <1>9 DEF Partial, GoesThrough
<1>11. ReduceInto(dt, op, bufs, count)[i] = f[m]
  BY <1>7, <1>9
<1>12. f[m] = Reduced(vals)
  <2>1. CASE op = "SUM"
    <3>1. f[m] = Wrap(dt, SumFunction(vals))
      BY <1>1, <1>10, <2>1, SumReduced
    <3>2. Reduced(vals) = Wrap(dt, SumFunction(vals))
      BY <2>1 DEF Reduced, dt, op
    <3> QED BY <3>1, <3>2
  <2>2. CASE op = "PRODUCT"
    <3>1. f[m] = Wrap(dt, Product(vals))
      <4>1. m \in Nat /\ vals \in Values(dt, m) /\ Partial(f, m, dt, "PRODUCT", vals)
        BY <1>1, <1>10, <2>2
      <4> QED BY ONLY <4>1, ProductReduced, Zenon
    <3>2. Reduced(vals) = Wrap(dt, Product(vals))
      BY <2>2 DEF Reduced, Product, dt, op
    <3> QED BY <3>1, <3>2
  <2>3. CASE op = "MIN"
    BY <1>1, <1>10, <2>3, MinReduced DEF Reduced, op
  <2>4. CASE op = "MAX"
    BY <1>1, <1>10, <2>4, MaxReduced DEF Reduced, op
  <2> QED BY <2>1, <2>2, <2>3, <2>4 DEF ReductionOp, op
<1> QED BY <1>11, <1>12 DEF dt, op

\* The sizes of the datatypes are numbers, and none is zero.
LEMMA BytesTell ==
  ASSUME NEW t \in Datatype, NEW a \in Nat, NEW b \in Nat
  PROVE  /\ DatatypeSize[t] \in Nat
         /\ a * DatatypeSize[t] = b * DatatypeSize[t] => a = b
<1> DEFINE size == DatatypeSize[t]
<1>1. size \in {1, 4, 8}
  BY DEF Datatype, DatatypeSize
<1> HIDE DEF size
<1>2. size \in Nat /\ (a * size = b * size => a = b)
  BY <1>1
<1> QED BY <1>2 DEF size

Buffered(bufs) == bufs \in Seq(Seq(Element))

\* What the engine checks in bytes are elements.
LEMMA OneBlockEach ==
  ASSUME NEW d \in Descriptors, NEW ranks \in Nat, NEW bufs, Buffered(bufs),
         RanksHave(d, ranks, bufs, ElementByteCount(d))
  PROVE  /\ Len(bufs) >= ranks
         /\ \A r \in 1 .. ranks : bufs[r] \in Seq(Element) /\ Len(bufs[r]) = d.count
<1> DEFINE size == DatatypeSize[d.datatype]
<1>1. d.datatype \in Datatype /\ d.count \in Nat
  BY PipelineAssumption
<1>2. size \in Nat
  BY <1>1, BytesTell
<1>3. Len(bufs) >= ranks /\ Len(bufs) \in Nat /\ \A r \in 1 .. Len(bufs) : bufs[r] \in Seq(Element)
  BY LenProperties DEF RanksHave, Buffered
<1>4. ASSUME NEW r \in 1 .. ranks PROVE bufs[r] \in Seq(Element) /\ Len(bufs[r]) = d.count
  <2>1. bufs[r] \in Seq(Element) /\ Len(bufs[r]) \in Nat
    <3>1. r \in 1 .. Len(bufs)
      BY <1>3
    <3> QED BY <1>3, <3>1, LenProperties
  <2>2. {Len(bufs[r]) * size} = CheckedMul(d.count, size)
    BY DEF RanksHave, Bytes, ElementByteCount
  <2> HIDE DEF size
  <2>3. CheckedMul(d.count, size) \subseteq {d.count * size}
    BY <1>1, <1>2, CheckedProduct
  <2>4. Len(bufs[r]) * size = d.count * size
    BY <2>2, <2>3
  <2> QED BY <2>1, <2>4, <1>1, BytesTell DEF size
<1> QED BY <1>3, <1>4

\* The same where every rank has a block for every rank.
LEMMA OneBlockForEach ==
  ASSUME NEW d \in Descriptors, NEW ranks \in Nat, NEW bufs, Buffered(bufs),
         RanksHave(d, ranks, bufs, AggregateByteCount(d, ranks))
  PROVE  /\ Len(bufs) >= ranks
         /\ \A r \in 1 .. ranks : bufs[r] \in Seq(Element) /\ Len(bufs[r]) = ranks * d.count
<1> DEFINE size == DatatypeSize[d.datatype]
<1>1. d.datatype \in Datatype /\ d.count \in Nat
  BY PipelineAssumption
<1>2. size \in Nat
  BY <1>1, BytesTell
<1>3. Len(bufs) >= ranks /\ Len(bufs) \in Nat /\ \A r \in 1 .. Len(bufs) : bufs[r] \in Seq(Element)
  BY LenProperties DEF RanksHave, Buffered
<1>4. ASSUME NEW r \in 1 .. ranks PROVE bufs[r] \in Seq(Element) /\ Len(bufs[r]) = ranks * d.count
  <2>1. bufs[r] \in Seq(Element) /\ Len(bufs[r]) \in Nat
    <3>1. r \in 1 .. Len(bufs)
      BY <1>3
    <3> QED BY <1>3, <3>1, LenProperties
  <2>2. {Len(bufs[r]) * size} = AggregateByteCount(d, ranks)
    BY DEF RanksHave, Bytes
  <2>3. PICK per \in CheckedMul(d.count, size) : Len(bufs[r]) * size \in CheckedMul(per, ranks)
    BY <2>2 DEF AggregateByteCount, ElementByteCount
  <2> HIDE DEF size
  <2>4. per = d.count * size /\ d.count * size \in Nat
    <3>1. CheckedMul(d.count, size) \subseteq {d.count * size} /\ d.count * size \in Nat
      BY <1>1, <1>2, CheckedProduct
    <3> QED BY <3>1
  <2>5. Len(bufs[r]) * size = per * ranks
    <3>1. CheckedMul(per, ranks) \subseteq {per * ranks}
      BY <2>4, CheckedProduct
    <3> QED BY <2>3, <3>1
  <2>6. (d.count * size) * ranks = (ranks * d.count) * size /\ ranks * d.count \in Nat
    BY <1>1, <1>2
  <2>7. Len(bufs[r]) * size = (ranks * d.count) * size
    BY <2>4, <2>5, <2>6
  <2> DEFINE whole == ranks * d.count
  <2>8. whole \in Nat /\ Len(bufs[r]) * size = whole * size
    BY <2>6, <2>7
  <2> HIDE DEF whole
  <2>9. Len(bufs[r]) = whole
    BY <2>1, <2>8, <1>1, BytesTell DEF size
  <2> QED BY <2>1, <2>9 DEF whole
<1> QED BY <1>3, <1>4

\* The members of bufs, count of each, one after the other.
OneAfterTheOther(all, bufs, count) ==
  /\ Len(all) = Len(bufs) * count
  /\ \A r \in 1 .. Len(bufs), i \in 1 .. count : all[(r - 1) * count + i] = bufs[r][i]

\* One after the other, sequences of one length have their members at
\* multiples of it.
LEMMA Gathered ==
  ASSUME NEW S, NEW bufs \in Seq(Seq(S)), NEW count \in Nat,
         \A r \in 1 .. Len(bufs) : Len(bufs[r]) = count
  PROVE  OneAfterTheOther(FlattenSeq(bufs), bufs, count)
<1> DEFINE ranks == Len(bufs)
<1>1. PICK f : Joins(f, S, bufs)
  BY Flattened
<1>2. ranks \in Nat /\ \A r \in 1 .. ranks : bufs[r] \in Seq(S)
  BY LenProperties
<1>3. /\ f \in [0 .. ranks -> Seq(S)] /\ f[0] = <<>> /\ FlattenSeq(bufs) = f[ranks]
      /\ \A k \in 1 .. ranks : f[k] = f[k - 1] \o bufs[k]
  BY <1>1 DEF Joins
<1>4. \A r \in 1 .. ranks : Len(bufs[r]) = count
  OBVIOUS
<1> HIDE DEF ranks
<1> DEFINE InPlace(k) ==
             /\ Len(f[k]) = k * count
             /\ \A r \in 1 .. k, i \in 1 .. count : f[k][(r - 1) * count + i] = bufs[r][i]
           G == {k \in 0 .. ranks : InPlace(k)}
<1>5. 0 \in G
  <2>1. Len(f[0]) = 0 /\ 0 * count = 0 /\ 1 .. 0 = {}
    BY <1>3
  <2>2. InPlace(0)
    BY <2>1
  <2> QED BY <2>2, <1>2
<1>6. ASSUME NEW k \in 0 .. ranks, k < ranks, k \in G PROVE k + 1 \in G
  <2>1. k + 1 \in 1 .. ranks /\ (k + 1) - 1 = k /\ k + 1 \in 0 .. ranks /\ k \in Nat
    BY <1>2, <1>6
  <2> DEFINE s == f[k]
             t == bufs[k + 1]
             before == k * count
  <2>2. s \in Seq(S) /\ t \in Seq(S) /\ f[k + 1] = s \o t /\ Len(t) = count
    BY <2>1, <1>2, <1>3, <1>4
  <2>3. Len(s) = before /\ before \in Nat
    BY <2>1, <1>6
  <2> HIDE DEF s, t
  <2>4. /\ Len(s \o t) = before + count
        /\ \A i \in 1 .. before : (s \o t)[i] = s[i]
        /\ \A i \in 1 .. count : (s \o t)[before + i] = t[i]
    <3>1. /\ Len(s \o t) = Len(s) + Len(t)
          /\ \A i \in 1 .. Len(s) : (s \o t)[i] = s[i]
          /\ \A i \in 1 .. Len(t) : (s \o t)[Len(s) + i] = t[i]
      <4>1. s \in Seq(S) /\ t \in Seq(S)
        BY <2>2
      <4> QED BY <4>1, Joined
    <3> HIDE DEF before
    <3> QED BY <3>1, <2>2, <2>3
  <2>5. Len(f[k + 1]) = (k + 1) * count
    <3>1. (k + 1) * count = before + count
      BY <2>1
    <3> QED BY <3>1, <2>2, <2>4
  <2>6. ASSUME NEW r \in 1 .. k + 1, NEW i \in 1 .. count
        PROVE  f[k + 1][(r - 1) * count + i] = bufs[r][i]
    <3>1. CASE r = k + 1
      <4>1. (r - 1) * count = before
        BY <3>1, <2>1
      <4>2. (s \o t)[before + i] = t[i]
        BY <2>4
      <4> QED BY <3>1, <4>1, <4>2, <2>2 DEF t
    <3>2. CASE r # k + 1
      <4>1. r \in 1 .. k /\ r - 1 \in Nat /\ r <= k /\ r \in Nat
        BY <3>2, <2>1
      <4>2. r * count <= before
        BY <4>1, <2>1, Larger
      <4>3. r * count = (r - 1) * count + count /\ (r - 1) * count \in Nat
        BY <4>1
      <4> DEFINE p == (r - 1) * count
      <4>4. p \in Nat /\ p + count <= before
        BY <4>2, <4>3, <2>3, <4>1
      <4>5. s[p + i] = bufs[r][i]
        BY <4>1, <1>6 DEF s
      <4> HIDE DEF p
      <4>6. p + i \in 1 .. before
        BY <4>4, <2>3
      <4>7. (s \o t)[p + i] = s[p + i]
        BY <4>6, <2>4
      <4> QED BY <4>5, <4>7, <2>2 DEF p
    <3> QED BY <3>1, <3>2
  <2> QED BY <2>1, <2>5, <2>6
<1> HIDE DEF G
<1>7. 0 .. ranks \subseteq G
  BY <1>2, <1>5, <1>6, UpTo
<1>8. ranks \in G /\ f[ranks] \in Seq(S)
  BY <1>2, <1>3, <1>7
<1>9. InPlace(ranks)
  BY <1>8 DEF G
<1> QED BY <1>3, <1>9 DEF OneAfterTheOther, ranks

\* The buffers hold what the ranks' inputs hold from place on.
From(bufs, count, place) ==
  \A i \in 1 .. count, r \in 1 .. n :
    bufs[r][i] = inputs[r][place + i] /\ inputs[r][place + i] \in Element

IsReductionFrom(buf, count, place) ==
  /\ Len(buf) = count /\ buf = [i \in 1 .. count |-> buf[i]]
  /\ \A i \in 1 .. count : buf[i] = Reduced([r \in 1 .. n |-> inputs[r][place + i]])

\* What do_reduce returns is a reduction where its elements are.
LEMMA ReductionOfBlocks ==
  ASSUME NEW count \in Nat, n \in Nat, n # 0, NEW S, NEW bufs \in Seq(S), Len(bufs) = n,
         NEW place, From(bufs, count, place),
         desc.reduction \in ReductionOp \ {"NONE"}
  PROVE  IsReductionFrom(ReduceInto(desc.datatype, desc.reduction, bufs, count), count, place)
<1> DEFINE buf == ReduceInto(desc.datatype, desc.reduction, bufs, count)
<1>1. Len(buf) = count /\ buf = [i \in 1 .. count |-> buf[i]]
  <2>1. buf = [i \in 1 .. count |-> buf[i]]
    BY DEF ReduceInto
  <2> HIDE DEF buf
  <2> QED BY <2>1
<1>2. ASSUME NEW i \in 1 .. count
      PROVE  buf[i] = Reduced([r \in 1 .. n |-> inputs[r][place + i]])
  <2> DEFINE vals == [r \in 1 .. n |-> inputs[r][place + i]]
  <2>1. vals \in [1 .. n -> Element] /\ \A r \in 1 .. n : bufs[r][i] = vals[r]
    BY DEF From
  <2> HIDE DEF vals
  <2>2. buf[i] = Reduced(vals)
    BY <2>1, ElementReduced
  <2> QED BY <2>2 DEF vals
<1> HIDE DEF buf
<1>3. IsReductionFrom(buf, count, place)
  BY <1>1, <1>2 DEF IsReductionFrom
<1> QED BY <1>3 DEF buf

IsInput == Buffered(inputs)

\* REDUCE and ALL_REDUCE.
LEMMA ReductionOfAll ==
  ASSUME n \in Nat, n # 0, desc \in Descriptors, IsInput,
         RanksHave(desc, n, inputs, ElementByteCount(desc)),
         desc.reduction \in ReductionOp \ {"NONE"}
  PROVE  IsReduction(ReduceInto(desc.datatype, desc.reduction, SubSeq(inputs, 1, n), desc.count),
                     desc.count)
<1> DEFINE bufs == SubSeq(inputs, 1, n)
           count == desc.count
           buf == ReduceInto(desc.datatype, desc.reduction, bufs, count)
<1>1. count \in Nat
  BY PipelineAssumption
<1>2. /\ Len(inputs) >= n
      /\ \A r \in 1 .. n : inputs[r] \in Seq(Element) /\ Len(inputs[r]) = count
  BY OneBlockEach DEF IsInput
<1>3. bufs \in Seq(Seq(Element)) /\ Len(bufs) = n /\ \A r \in 1 .. n : bufs[r] = inputs[r]
  <2>1. \A r \in 1 .. n : inputs[r] \in Seq(Element)
    BY <1>2
  <2>2. /\ bufs \in Seq(Seq(Element)) /\ Len(bufs) = IF 1 <= n THEN n - 1 + 1 ELSE 0
        /\ \A r \in 1 .. n - 1 + 1 : bufs[r] = inputs[1 + r - 1]
    BY <2>1, SubSeqProperties
  <2>3. n - 1 + 1 = n /\ 1 <= n /\ \A r \in 1 .. n : 1 + r - 1 = r
    OBVIOUS
  <2> QED BY <2>2, <2>3
<1> DEFINE start == 0
<1>4. \A i \in 1 .. count : start + i = i
  OBVIOUS
<1>5. From(bufs, count, start)
  <2> USE DEF From
  <2> TAKE i \in 1 .. count, r \in 1 .. n
  <2>1. inputs[r] \in Seq(Element) /\ i \in 1 .. Len(inputs[r])
    BY <1>2
  <2>2. inputs[r][i] \in Element
    BY <2>1, LenProperties
  <2> QED BY <2>2, <1>3, <1>4
<1> HIDE DEF start
<1>7. IsReductionFrom(buf, count, start)
  <2> HIDE DEF bufs, count
  <2> QED BY <1>1, <1>3, <1>5, ReductionOfBlocks
<1>8. \A i \in 1 .. count :
        [r \in 1 .. n |-> inputs[r][start + i]] = [r \in 1 .. n |-> inputs[r][i]]
  BY <1>4
<1> HIDE DEF buf, count
<1>9. IsReduction(buf, count)
  BY <1>7, <1>8 DEF IsReduction, IsReductionFrom
<1> QED BY <1>9 DEF buf, count

\* Where block b of a buffer is.
LEMMA BlockOf ==
  ASSUME NEW count \in Nat, desc.count = count, n \in Nat, NEW b \in 1 .. n,
         NEW buf \in Seq(Element), Len(buf) = n * count
  PROVE  /\ Block(desc, buf, b) \in Seq(Element)
         /\ \A j \in 1 .. count : /\ Block(desc, buf, b)[j] = buf[(b - 1) * count + j]
                                  /\ buf[(b - 1) * count + j] \in Element
<1> DEFINE place == (b - 1) * count
           total == n * count
           e == b * count
<1>1. b \in Nat /\ b - 1 \in Nat /\ b <= n
  OBVIOUS
<1>2. place \in Nat /\ e = place + count /\ total \in Nat /\ e <= total
  <2>1. b * count <= n * count
    BY <1>1, Larger
  <2>2. b * count = (b - 1) * count + count /\ (b - 1) * count \in Nat /\ n * count \in Nat
    BY <1>1
  <2> QED BY <2>1, <2>2
<1>3. Block(desc, buf, b) = SubSeq(buf, place + 1, e) /\ Len(buf) = total
  BY DEF Block
<1> HIDE DEF place, total, e
<1>4. \A i \in place + 1 .. e : buf[i] \in Element
  <2> TAKE i \in place + 1 .. e
  <2>1. i \in 1 .. Len(buf)
    BY <1>2, <1>3
  <2> QED BY <2>1, LenProperties
<1>5. place + 1 \in Int /\ e \in Int
  BY <1>2
<1>6. /\ SubSeq(buf, place + 1, e) \in Seq(Element)
      /\ \A j \in 1 .. e - (place + 1) + 1 :
           SubSeq(buf, place + 1, e)[j] = buf[(place + 1) + j - 1]
  <2> DEFINE s == place + 1
  <2>1. s \in Int /\ e \in Int /\ \A i \in s .. e : buf[i] \in Element
    BY <1>4, <1>5
  <2> HIDE DEF s
  <2>2. /\ SubSeq(buf, s, e) \in Seq(Element)
        /\ \A j \in 1 .. e - s + 1 : SubSeq(buf, s, e)[j] = buf[s + j - 1]
    BY <2>1, SubSeqProperties
  <2> QED BY <2>2 DEF s
<1>7. ASSUME NEW j \in 1 .. count
      PROVE  Block(desc, buf, b)[j] = buf[place + j] /\ buf[place + j] \in Element
  <2>1. j \in 1 .. e - (place + 1) + 1 /\ (place + 1) + j - 1 = place + j
        /\ place + j \in place + 1 .. e
    BY <1>2
  <2> QED BY <2>1, <1>3, <1>4, <1>6
<1> QED BY <1>3, <1>6, <1>7 DEF place

\* A place in count-sized blocks is one of a block.
LEMMA Places ==
  ASSUME NEW ranks \in Nat, NEW count \in Nat, count # 0, NEW i \in 1 .. ranks * count
  PROVE  \E b \in 1 .. ranks, j \in 1 .. count : i = (b - 1) * count + j
<1> DEFINE total == ranks * count
           a == i - 1
           q == a \div count
           x == a % count
<1>1. total \in Nat /\ i \in 1 .. total
  OBVIOUS
<1>2. a \in Nat /\ i = a + 1 /\ a < total
  <2> HIDE DEF total
  <2> QED BY <1>1
<1>3. x \in 0 .. count - 1 /\ q \in Nat /\ a = q * count + x
  <2> HIDE DEF a
  <2>1. x \in 0 .. count - 1 /\ q \in Nat
    <3>1. a % count \in 0 .. count - 1
      BY <1>2, Remainder
    <3>2. a \div count \in Nat
      BY <1>2
    <3> QED BY <3>1, <3>2
  <2>2. a = (a \div count) * count + (a % count)
    BY <1>2, Remainder
  <2> QED BY <2>1, <2>2
<1> HIDE DEF q, x, a
<1>4. q < ranks
  <2>1. ASSUME q >= ranks PROVE FALSE
    <3>1. ranks * count <= q * count
      BY <2>1, <1>3, Larger
    <3> DEFINE s == q * count
    <3>2. s \in Nat /\ total <= s /\ a = s + x
      BY <3>1, <1>3
    <3> HIDE DEF s, total
    <3> QED BY <3>2, <1>1, <1>2, <1>3
  <2> QED BY <2>1, <1>3
<1>5. q + 1 \in 1 .. ranks /\ x + 1 \in 1 .. count /\ (q + 1) - 1 = q
  BY <1>3, <1>4
<1> HIDE DEF total
<1> DEFINE s == q * count
<1>6. s \in Nat /\ a = s + x
  BY <1>3
<1>7. i = s + (x + 1)
  <2> HIDE DEF s
  <2> QED BY <1>2, <1>3, <1>6
<1>8. i = ((q + 1) - 1) * count + (x + 1)
  BY <1>5, <1>7
<1> QED BY <1>5, <1>8

\* REDUCE_SCATTER: the blocks are the parts of a reduction of the whole.
Scattered == [b \in 1 .. n |->
                ReduceInto(desc.datatype, desc.reduction,
                           [r \in 1 .. n |-> Block(desc, inputs[r], b)], desc.count)]

LEMMA ReductionOfEachBlock ==
  ASSUME n \in Nat, n # 0, desc \in Descriptors, IsInput, desc.count # 0,
         RanksHave(desc, n, inputs, AggregateByteCount(desc, n)),
         desc.reduction \in ReductionOp \ {"NONE"}
  PROVE  /\ \A r \in 1 .. n : Len(Scattered[r]) = desc.count
         /\ IsReduction(FlattenSeq(Scattered), n * desc.count)
<1> DEFINE count == desc.count
           blocks(b) == [r \in 1 .. n |-> Block(desc, inputs[r], b)]
           buf(b) == ReduceInto(desc.datatype, desc.reduction, blocks(b), count)
<1>1. count \in Nat /\ count # 0
  BY PipelineAssumption
<1>2. \A r \in 1 .. n : inputs[r] \in Seq(Element) /\ Len(inputs[r]) = n * count
  BY OneBlockForEach DEF IsInput
<1>3. \A b \in 1 .. n : Scattered[b] = buf(b)
  BY DEF Scattered
<1>4. ASSUME NEW b \in 1 .. n PROVE IsReductionFrom(Scattered[b], count, (b - 1) * count)
  <2> DEFINE bufs == blocks(b)
             place == (b - 1) * count
  <2>1. \A r \in 1 .. n : /\ Block(desc, inputs[r], b) \in Seq(Element)
                          /\ \A j \in 1 .. count :
                               /\ Block(desc, inputs[r], b)[j] = inputs[r][(b - 1) * count + j]
                               /\ inputs[r][(b - 1) * count + j] \in Element
    <3> TAKE r \in 1 .. n
    <3>1. inputs[r] \in Seq(Element) /\ Len(inputs[r]) = n * count /\ desc.count = count
      BY <1>2
    <3> DEFINE mine == inputs[r]
    <3>2. mine \in Seq(Element) /\ Len(mine) = n * count
      BY <3>1
    <3> HIDE DEF count, mine
    <3>3. /\ Block(desc, mine, b) \in Seq(Element)
          /\ \A j \in 1 .. count : /\ Block(desc, mine, b)[j] = mine[(b - 1) * count + j]
                                   /\ mine[(b - 1) * count + j] \in Element
      BY <3>1, <3>2, <1>1, BlockOf
    <3> QED BY <3>3 DEF mine
  <2>2. bufs \in Seq(Seq(Element)) /\ Len(bufs) = n /\ \A r \in 1 .. n : bufs[r] = Block(desc, inputs[r], b)
    <3>1. \A r \in 1 .. n : Block(desc, inputs[r], b) \in Seq(Element)
      BY <2>1
    <3> QED BY <3>1
  <2>3. From(bufs, count, place)
    <3> HIDE DEF bufs
    <3> QED BY <2>1, <2>2 DEF From
  <2>4. Scattered[b] = ReduceInto(desc.datatype, desc.reduction, bufs, count)
    BY <1>3
  <2> HIDE DEF bufs, count, place
  <2>5. IsReductionFrom(ReduceInto(desc.datatype, desc.reduction, bufs, count), count, place)
    BY <1>1, <2>2, <2>3, ReductionOfBlocks
  <2> QED BY <2>4, <2>5 DEF place
<1> DEFINE all == FlattenSeq(Scattered)
           S == {Scattered[r][i] : r \in 1 .. n, i \in 1 .. count}
<1> HIDE DEF count, buf
<1>5. ASSUME NEW b \in 1 .. n PROVE Scattered[b] \in Seq(S) /\ Len(Scattered[b]) = count
  <2>1. Scattered[b] = [j \in 1 .. count |-> Scattered[b][j]] /\ Len(Scattered[b]) = count
    BY <1>4 DEF IsReductionFrom
  <2>2. \A j \in 1 .. count : Scattered[b][j] \in S
    OBVIOUS
  <2> HIDE DEF S
  <2>3. [j \in 1 .. count |-> Scattered[b][j]] \in Seq(S)
    BY <2>2, <1>1
  <2> QED BY <2>1, <2>3
<1> HIDE DEF S
<1>6. Scattered \in Seq(Seq(S)) /\ Len(Scattered) = n
  <2>1. Scattered \in [1 .. n -> Seq(S)]
    BY <1>5 DEF Scattered
  <2> QED BY <2>1
<1>7. /\ Len(all) = n * count
      /\ \A r \in 1 .. n, j \in 1 .. count : all[(r - 1) * count + j] = Scattered[r][j]
  <2>1. \A r \in 1 .. Len(Scattered) : Len(Scattered[r]) = count
    BY <1>5, <1>6
  <2>2. OneAfterTheOther(all, Scattered, count)
    BY <2>1, <1>1, <1>6, Gathered
  <2> HIDE DEF all
  <2> QED BY <2>2, <1>6 DEF OneAfterTheOther
<1> HIDE DEF all
<1>8. ASSUME NEW i \in 1 .. n * count
      PROVE  all[i] = Reduced([r \in 1 .. n |-> inputs[r][i]])
  <2>1. PICK b \in 1 .. n, j \in 1 .. count : i = (b - 1) * count + j
    BY <1>1, Places
  <2> DEFINE place == (b - 1) * count
  <2>2. i = place + j /\ all[place + j] = Scattered[b][j]
    BY <2>1, <1>7
  <2>3. IsReductionFrom(Scattered[b], count, place)
    BY <1>4
  <2> HIDE DEF place
  <2>4. Scattered[b][j] = Reduced([r \in 1 .. n |-> inputs[r][place + j]])
    BY <2>3 DEF IsReductionFrom
  <2> QED BY <2>2, <2>4
<1>9. IsReduction(all, n * count)
  BY <1>7, <1>8 DEF IsReduction
<1> QED BY <1>5, <1>9 DEF all, count

\* ALL_GATHER: everybody's data in rank order.
LEMMA AllGathered ==
  ASSUME n \in Nat, n # 0, desc \in Descriptors, IsInput,
         RanksHave(desc, n, inputs, ElementByteCount(desc))
  PROVE  \A s \in 1 .. n, i \in 1 .. desc.count :
           FlattenSeq(SubSeq(inputs, 1, n))[(s - 1) * desc.count + i] = inputs[s][i]
<1> DEFINE bufs == SubSeq(inputs, 1, n)
           count == desc.count
<1>1. count \in Nat
  BY PipelineAssumption
<1>2. \A r \in 1 .. n : inputs[r] \in Seq(Element) /\ Len(inputs[r]) = count
  BY OneBlockEach DEF IsInput
<1>3. bufs \in Seq(Seq(Element)) /\ Len(bufs) = n /\ \A r \in 1 .. n : bufs[r] = inputs[r]
  <2>1. \A r \in 1 .. n : inputs[r] \in Seq(Element)
    BY <1>2
  <2>2. /\ bufs \in Seq(Seq(Element)) /\ Len(bufs) = IF 1 <= n THEN n - 1 + 1 ELSE 0
        /\ \A r \in 1 .. n - 1 + 1 : bufs[r] = inputs[1 + r - 1]
    BY <2>1, SubSeqProperties
  <2>3. n - 1 + 1 = n /\ 1 <= n /\ \A r \in 1 .. n : 1 + r - 1 = r
    OBVIOUS
  <2> QED BY <2>2, <2>3
<1> HIDE DEF bufs, count
<1>4. \A r \in 1 .. Len(bufs) : Len(bufs[r]) = count
  BY <1>2, <1>3
<1>5. \A r \in 1 .. Len(bufs), i \in 1 .. count : FlattenSeq(bufs)[(r - 1) * count + i] = bufs[r][i]
  <2>1. bufs \in Seq(Seq(Element))
    BY <1>3
  <2>2. OneAfterTheOther(FlattenSeq(bufs), bufs, count)
    BY <2>1, <1>1, <1>4, Gathered
  <2> QED BY <2>2 DEF OneAfterTheOther
<1> QED BY <1>3, <1>5 DEF bufs, count

-----------------------------------------------------------------------------
(* What a collective leaves at the ranks *)

\* What callers hand in are buffers of elements, also where one is too short.
LEMMA CallersHoldBuffers ==
  ASSUME desc \in Descriptors, n \in RankCounts, NEW bufs \in CallerInputs
  PROVE  Buffered(bufs)
<1> DEFINE lens == {desc.count, n * desc.count}
           sized == UNION {[1 .. m -> Buffers(desc.datatype, len)] :
                             m \in {n - 1, n, n + 1}, len \in {desc.count, n * desc.count}}
<1>1. n \in Nat /\ n # 0 /\ desc.count \in Nat
  BY PipelineAssumption, MaxU64Assumption
<1>2. lens \subseteq Nat
  BY <1>1
<1>3. ASSUME NEW len \in lens PROVE Buffers(desc.datatype, len) \subseteq Seq(Element)
  <2>1. Buffers(desc.datatype, len) \subseteq [1 .. len -> Element] /\ len \in Nat
    BY <1>2, PipelineAssumption DEF Element
  <2> HIDE DEF lens
  <2> QED BY <2>1
<1>4. ASSUME NEW b \in sized PROVE b \in Seq(Seq(Element))
  <2>1. PICK m \in {n - 1, n, n + 1}, len \in lens : b \in [1 .. m -> Buffers(desc.datatype, len)]
    OBVIOUS
  <2>2. m \in Nat /\ Buffers(desc.datatype, len) \subseteq Seq(Element)
    BY <1>1, <1>3
  <2> HIDE DEF lens, sized
  <2>3. b \in [1 .. m -> Seq(Element)]
    BY <2>1, <2>2
  <2> QED BY <2>2, <2>3
<1>5. bufs \in sized \/ \E b \in sized : /\ b # <<>> /\ Last(b) # <<>>
                                         /\ bufs = Append(Front(b), Front(Last(b)))
  BY DEF CallerInputs
<1> HIDE DEF sized, lens
<1>6. ASSUME NEW S, NEW s \in Seq(S), s # <<>> PROVE Front(s) \in Seq(S) /\ Last(s) \in S
  <2>1. Len(s) \in Nat /\ Len(s) # 0 /\ \A i \in 1 .. Len(s) : s[i] \in S
    BY <1>6, LenProperties, EmptySeq
  <2> DEFINE e == Len(s) - 1
  <2>2. e \in Int /\ 1 \in Int /\ \A i \in 1 .. e : s[i] \in S
    BY <2>1
  <2>3. Front(s) = SubSeq(s, 1, e)
    BY DEF Front
  <2> HIDE DEF e
  <2>4. SubSeq(s, 1, e) \in Seq(S)
    BY <2>2, SubSeqProperties
  <2> QED BY <2>1, <2>3, <2>4 DEF Last
<1>7. ASSUME NEW b \in sized, b # <<>>, Last(b) # <<>>
      PROVE  Append(Front(b), Front(Last(b))) \in Seq(Seq(Element))
  <2>1. b \in Seq(Seq(Element))
    BY <1>4
  <2>2. Front(b) \in Seq(Seq(Element)) /\ Last(b) \in Seq(Element)
    BY <2>1, <1>6, <1>7
  <2>3. Front(Last(b)) \in Seq(Element)
    BY <2>2, <1>6, <1>7
  <2> QED BY <2>2, <2>3, AppendProperties
<1> QED BY <1>4, <1>5, <1>7 DEF Buffered

\* The engine's outputs are those of the execution's inputs, and only a valid
\* descriptor gets that far.
Made == stage = "none" \/ Valid(desc)

Ran == /\ IsInput
       /\ outputs \subseteq Execute(desc, n, inputs)
       /\ stage = "none" => outputs = {}

\* Nothing has run yet.
LEMMA InitRan == Init => Made /\ Ran
BY DEF Init, Made, Ran, IsInput, Buffered

\* Every step leaves it so.
LEMMA NextRan == IInv /\ Made /\ Ran /\ [Next]_vars => (Made /\ Ran)'
<1> SUFFICES ASSUME IInv, Made, Ran, [Next]_vars PROVE Made' /\ Ran'
  OBVIOUS
<1>1. CASE CreateCollective
  BY <1>1 DEF CreateCollective, Made, Ran, IsInput, Buffered, Element
<1>2. ASSUME NEW in \in PlannerInputs, PlanCollective(in) PROVE Made' /\ Ran'
  BY <1>2 DEF PlanCollective, Made, Ran, IsInput, Buffered, Element
<1>3. ASSUME NEW bufs \in CallerInputs PROVE Buffered(bufs)
  BY <1>3, CallersHoldBuffers DEF IInv, TypeOK
<1>4. ASSUME NEW bufs \in CallerInputs, ExecuteCollective(bufs) PROVE Made' /\ Ran'
  <2>1. /\ stage = "planned" /\ stage' \in {"executed", "undefined"}
        /\ inputs' = bufs /\ desc' = desc /\ n' = n
        /\ outputs' = {} \/ outputs' = Execute(desc, n, bufs)
    BY <1>4 DEF ExecuteCollective
  <2>2. outputs' \subseteq Execute(desc', n', inputs')
    BY <2>1
  <2> QED BY <2>1, <2>2, <1>3 DEF Made, Ran, IsInput, Buffered, Element
<1>5. ASSUME NEW bufs \in CallerInputs, CallEngine(bufs) PROVE Made' /\ Ran'
  <2>1. /\ stage = "created" /\ stage' = "called"
        /\ inputs' = bufs /\ desc' = desc /\ n' = n /\ outputs' = Execute(desc, n, bufs)
    BY <1>5 DEF CallEngine
  <2>2. outputs' \subseteq Execute(desc', n', inputs')
    BY <2>1
  <2> QED BY <2>1, <2>2, <1>3 DEF Made, Ran, IsInput, Buffered, Element
<1>6. CASE UNCHANGED vars
  BY <1>6 DEF vars, Made, Ran, IsInput, Buffered, Element
<1> QED BY <1>1, <1>2, <1>4, <1>5, <1>6 DEF Next

\* One kind after the other.
LEMMA ResultOfEachKind ==
  ASSUME IInv, Made, Ran PROVE ResultIsTheCollective
<1> SUFFICES ASSUME NEW out \in outputs PROVE
      CASE desc.kind = "BARRIER" -> \A r \in 1 .. n : out[r] = <<>>
        [] desc.kind = "BROADCAST" -> \A r \in 1 .. n : out[r] = inputs[desc.root + 1]
        [] desc.kind = "REDUCE" ->
             \A r \in 1 .. n : IF r = desc.root + 1 THEN IsReduction(out[r], desc.count)
                                                    ELSE out[r] = <<>>
        [] desc.kind = "ALL_REDUCE" -> \A r \in 1 .. n : IsReduction(out[r], desc.count)
        [] desc.kind = "ALL_GATHER" ->
             \A r, s \in 1 .. n, i \in 1 .. desc.count :
               out[r][(s - 1) * desc.count + i] = inputs[s][i]
        [] desc.kind = "REDUCE_SCATTER" ->
             /\ \A r \in 1 .. n : Len(out[r]) = desc.count
             /\ IsReduction(FlattenSeq(out), n * desc.count)
  BY DEF ResultIsTheCollective
<1>1. out \in Execute(desc, n, inputs) /\ Valid(desc) /\ IsInput
  BY DEF Made, Ran
<1>2. desc \in Descriptors /\ n \in Nat /\ n # 0 /\ desc.kind \in Kind /\ desc.reduction \in ReductionOp
  BY PipelineAssumption, MaxU64Assumption DEF IInv, TypeOK
<1>3. AggregateByteCount(desc, n) # {}
  BY <1>1 DEF Execute
<1>4. CASE desc.kind = "BARRIER"
  <2>1. out \in Barrier(n)
    BY <1>1, <1>3, <1>4 DEF Execute
  <2> QED BY <2>1, <1>4 DEF Barrier
<1>5. CASE desc.kind = "BROADCAST"
  <2>1. out \in Broadcast(desc, n, inputs)
    BY <1>1, <1>3, <1>5 DEF Execute
  <2> QED BY <2>1, <1>5 DEF Broadcast
<1>6. CASE desc.kind = "REDUCE"
  <2> DEFINE buf == ReduceInto(desc.datatype, desc.reduction, SubSeq(inputs, 1, n), desc.count)
  <2>1. out \in Reduce(desc, n, inputs)
    BY <1>1, <1>3, <1>6 DEF Execute
  <2>2. RanksHave(desc, n, inputs, ElementByteCount(desc))
    BY <2>1 DEF Reduce
  <2>3. desc.reduction \in ReductionOp \ {"NONE"}
    BY <1>1, <1>2, <1>6 DEF Valid, ReduceFamily
  <2>4. IsReduction(buf, desc.count)
    BY <1>1, <1>2, <2>2, <2>3, ReductionOfAll
  <2>5. out = [r \in 1 .. n |-> IF r = desc.root + 1 THEN buf ELSE <<>>]
    BY <2>1 DEF Reduce
  <2> HIDE DEF buf
  <2> QED BY <1>6, <2>4, <2>5
<1>7. CASE desc.kind = "ALL_REDUCE"
  <2> DEFINE buf == ReduceInto(desc.datatype, desc.reduction, SubSeq(inputs, 1, n), desc.count)
  <2>1. out \in AllReduce(desc, n, inputs)
    BY <1>1, <1>3, <1>7 DEF Execute
  <2>2. RanksHave(desc, n, inputs, ElementByteCount(desc))
    BY <2>1 DEF AllReduce
  <2>3. desc.reduction \in ReductionOp \ {"NONE"}
    BY <1>1, <1>2, <1>7 DEF Valid, ReduceFamily
  <2>4. IsReduction(buf, desc.count)
    BY <1>1, <1>2, <2>2, <2>3, ReductionOfAll
  <2>5. out = [r \in 1 .. n |-> buf]
    BY <2>1 DEF AllReduce
  <2> HIDE DEF buf
  <2> QED BY <1>7, <2>4, <2>5
<1>8. CASE desc.kind = "ALL_GATHER"
  <2>1. out \in AllGather(desc, n, inputs)
    BY <1>1, <1>3, <1>8 DEF Execute
  <2>2. RanksHave(desc, n, inputs, ElementByteCount(desc))
    BY <2>1 DEF AllGather
  <2> DEFINE all == FlattenSeq(SubSeq(inputs, 1, n))
  <2>3. \A s \in 1 .. n, i \in 1 .. desc.count : all[(s - 1) * desc.count + i] = inputs[s][i]
    BY <1>1, <1>2, <2>2, AllGathered
  <2>4. out = [r \in 1 .. n |-> all]
    BY <2>1 DEF AllGather
  <2> HIDE DEF all
  <2> QED BY <1>8, <2>3, <2>4
<1>9. CASE desc.kind = "REDUCE_SCATTER"
  <2>1. out \in ReduceScatter(desc, n, inputs)
    BY <1>1, <1>3, <1>9 DEF Execute
  <2>2. RanksHave(desc, n, inputs, AggregateByteCount(desc, n)) /\ out = Scattered
    BY <2>1 DEF ReduceScatter, Scattered
  <2>3. desc.reduction \in ReductionOp \ {"NONE"} /\ desc.count # 0
    BY <1>1, <1>2, <1>9 DEF Valid, ReduceFamily
  <2>4. /\ \A r \in 1 .. n : Len(out[r]) = desc.count
        /\ IsReduction(FlattenSeq(out), n * desc.count)
    BY <1>1, <1>2, <2>2, <2>3, ReductionOfEachBlock
  <2> QED BY <1>9, <2>4
<1> QED BY <1>2, <1>4, <1>5, <1>6, <1>7, <1>8, <1>9 DEF Kind

\* Whatever the descriptor, the size of the group and the values: what the
\* engine leaves at the ranks is what the kind of the collective means, and
\* its left fold in rank order, wrapping at every step, is the reduction of
\* all ranks' values that knows no order and wraps once.
THEOREM ResultsAreTheCollectives == Spec => []ResultIsTheCollective
<1>1. Spec => [](Made /\ Ran)
  <2>1. IInv /\ (Made /\ Ran) /\ [Next]_vars => (Made /\ Ran)'
    BY NextRan
  <2> QED BY <2>1, InitRan, Invariant, PTL DEF Spec
<1>2. IInv /\ (Made /\ Ran) => ResultIsTheCollective
  BY ResultOfEachKind
<1> QED BY <1>1, <1>2, Invariant, PTL

=============================================================================
