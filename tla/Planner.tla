------------------------------ MODULE Planner ------------------------------
(***************************************************************************)
(* The planner (src/planner.cpp): which algorithms are candidates for a    *)
(* collective, what each is expected to cost, and which one is selected.   *)
(*                                                                         *)
(* A planner input holds the backend's capabilities, and optionally the    *)
(* number of nodes of the topology, the measured bandwidth and the         *)
(* measured latency.  Of the plan, the algorithm and its two estimates are *)
(* kept.  What is copied into it, the texts of factors and explanation,    *)
(* and the advice on overlap (whether the backend progresses by itself)    *)
(* are left out.                                                           *)
(*                                                                         *)
(* Estimated times are doubles in the code.  Here they are integers, in    *)
(* nanoseconds divided by the measured bandwidth, a unit that is the same  *)
(* for all candidates that are compared: nothing is rounded.               *)
(***************************************************************************)
EXTENDS Descriptor, FiniteSetsExt, SequencesExt

CONSTANT Second   \* nanoseconds in a second (1e9 in the code)

ASSUME SecondAssumption == Second \in Nat

\* In the order of the enumeration, which is the order of the candidates.
Algorithm == <<"DIRECT", "RING", "TREE", "RECURSIVE_DOUBLING", "REDUCE_BROADCAST",
               "HIERARCHICAL", "BACKEND_DEFAULT", "UNKNOWN">>

\* ceil_log2: the first power of two that reaches n.
CeilLog2(n) ==
  LET power[s \in 0 .. n] == IF s = 0 THEN 1 ELSE 2 * power[s - 1]
  IN Min({s \in 0 .. n : n <= power[s]})

\* Mutant: the product wraps around.
SatMulWraps(a, b) == (a * b) % (MaxU64 + 1)

SatMul(a, b) == IF CheckedMul(a, b) = {} THEN MaxU64 ELSE a * b

\* model_path: rounds on the critical path, and bytes moved, of n ranks with a
\* payload of p bytes.
Steps(kind, algo, n) ==
  CASE algo \in {"DIRECT", "BACKEND_DEFAULT"} -> 1
    [] algo = "RING" -> n - 1
    [] algo = "TREE" /\ kind \in Rooted -> CeilLog2(n)
    [] algo = "RECURSIVE_DOUBLING" -> CeilLog2(n)
    [] algo = "REDUCE_BROADCAST" -> SatMul(2, n - 1)
    [] algo = "UNKNOWN" -> 0
    [] OTHER -> SatMul(2, CeilLog2(n))

Movement(kind, algo, n, p) ==
  CASE algo = "DIRECT" -> SatMul(p, n - 1)
    [] algo = "RECURSIVE_DOUBLING" -> SatMul(SatMul(p, CeilLog2(n)), 2)
    [] OTHER -> SatMul(p, Steps(kind, algo, n))

\* algorithm_feasible: the kinds that an algorithm serves.
Serves ==
  [DIRECT |-> Rooted,
   RING |-> Kind \ {"BARRIER"},
   TREE |-> Kind,
   RECURSIVE_DOUBLING |-> {"ALL_REDUCE", "ALL_GATHER"},
   REDUCE_BROADCAST |-> {"ALL_REDUCE", "REDUCE"},
   HIERARCHICAL |-> {"ALL_REDUCE", "ALL_GATHER", "REDUCE_SCATTER"},
   BACKEND_DEFAULT |-> Kind,
   UNKNOWN |-> {}]

\* candidates(): the hard constraints.
Feasible(d, n, in, algo) ==
  /\ d.kind \in Serves[algo] \cap in.backend.kinds
  /\ d.datatype \in in.backend.datatypes
  /\ d.kind \in ReduceFamily => d.reduction \in in.backend.reductions
  /\ in.backend.hostTransport
  /\ \A most \in in.backend.maxRanks : n <= most
  /\ d.placement = "HOST" /\ in.backend.hostBuffers
  /\ algo = "HIERARCHICAL" => \A count \in in.nodes : count >= 2

\* The payload that the estimates are made for; {} if its size overflows.
Payload(d, n) ==
  IF d.kind \in {"BROADCAST", "REDUCE", "ALL_REDUCE"}
  THEN ElementByteCount(d) ELSE AggregateByteCount(d, n)

Candidates(d, n, p, in) ==
  [i \in DOMAIN Algorithm |->
     [order |-> i, algorithm |-> Algorithm[i],
      feasible |-> Feasible(d, n, in, Algorithm[i]),
      steps |-> Steps(d.kind, Algorithm[i], n),
      movement |-> Movement(d.kind, Algorithm[i], n, p)]]

\* The value of an optional that has one.
The(S) == CHOOSE x \in S : TRUE

\* est_time: a bandwidth of zero counts as not measured.
Bandwidth(in) == {b \in in.bandwidth : b > 0}
Timed(in) == Bandwidth(in) \cup in.latency # {}
Unit(in) == IF Bandwidth(in) = {} THEN 1 ELSE The(Bandwidth(in))
EstTime(in, c) ==
  (IF Bandwidth(in) = {} THEN 0 ELSE c.movement * Second)
  + (IF in.latency = {} THEN 0 ELSE c.steps * The(in.latency) * Unit(in))

\* Mutant: byte movement decides before the number of steps.
TieBreakMovementFirst(c, best) ==
  IF c.movement # best.movement THEN c.movement < best.movement
  ELSE IF c.steps # best.steps THEN c.steps < best.steps ELSE c.order < best.order

TieBreak(c, best) ==
  IF c.steps # best.steps THEN c.steps < best.steps
  ELSE IF c.movement # best.movement THEN c.movement < best.movement
  ELSE c.order < best.order

Better(in, c, best) ==
  \/ Timed(in) /\ EstTime(in, c) < EstTime(in, best)
  \/ (Timed(in) => EstTime(in, c) = EstTime(in, best)) /\ TieBreak(c, best)

\* The null pointer that best starts as.
NoCandidate == [order |-> 0, algorithm |-> "UNKNOWN", feasible |-> FALSE,
                steps |-> 0, movement |-> 0]

\* plan(): the first loop, over the algorithms other than BACKEND_DEFAULT ...
SelectReal(in, cands) ==
  LET best[k \in 0 .. Len(cands)] ==
        IF k = 0 THEN NoCandidate
        ELSE LET c == cands[k]
             IN IF /\ c.feasible /\ c.algorithm # "BACKEND_DEFAULT"
                   /\ ~ best[k - 1].feasible \/ Better(in, c, best[k - 1])
                THEN c ELSE best[k - 1]
  IN best[Len(cands)]

\* ... and the second one, over all, if that found nothing.
SelectAny(cands) ==
  LET best[k \in 0 .. Len(cands)] ==
        IF k = 0 THEN NoCandidate
        ELSE LET c == cands[k]
                 b == best[k - 1]
             IN IF /\ c.feasible
                   /\ \/ ~ b.feasible
                      \/ c.steps < b.steps
                      \/ c.steps = b.steps /\ c.movement < b.movement
                THEN c ELSE b
  IN best[Len(cands)]

Select(in, cands) ==
  IF SelectReal(in, cands).feasible THEN SelectReal(in, cands) ELSE SelectAny(cands)

\* plan(): {} if it throws, for an overflow or with UNSUPPORTED.  (An input
\* without a group or a backend throws as well; here every input has a backend,
\* and its group is the one that is registered, of n ranks.)
PlanFor(d, n, in) ==
  {c \in {Select(in, Candidates(d, n, p, in)) : p \in Payload(d, n)} : c.feasible}

=============================================================================
