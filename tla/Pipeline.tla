------------------------------ MODULE Pipeline ------------------------------
(***************************************************************************)
(* The way of one request through the library: create_collective with its  *)
(* validation, plan_collective with the planner, execute_collective with   *)
(* its size check and the reference engine (src/runtime.cpp); and the      *)
(* engine called directly, as the examples and the coordinator do.  The    *)
(* lifecycle, threads and accounting around these calls are the subject of *)
(* module Runtime; reserve and dispatch, which touch none of the data      *)
(* here, are part of the step that executes.                               *)
(***************************************************************************)
EXTENDS Planner, Engine

CONSTANTS
  Descriptors,     \* descriptors that callers make
  RankCounts,      \* sizes of registered groups
  PlannerInputs,   \* what callers pass to plan_collective, descriptor aside
  Buffers(_, _)    \* the buffers of a given datatype and length that callers hold

\* A group has a rank at least, and what is counted or measured is a number;
\* kinds, reductions and datatypes are those of the enumerations, and the
\* elements of the buffers are in their range.
ASSUME PipelineAssumption ==
  /\ RankCounts \subseteq 1 .. MaxU64
  /\ \A d \in Descriptors : /\ d.kind \in Kind /\ d.reduction \in ReductionOp
                            /\ d.datatype \in Datatype /\ d.count \in Nat
  /\ \A in \in PlannerInputs : in.bandwidth \cup in.latency \subseteq Nat
  /\ \A d \in Descriptors, m \in RankCounts : \A len \in {d.count, m * d.count} :
       Buffers(d.datatype, len) \subseteq [1 .. len -> Elements(d.datatype)]

VARIABLES
  stage,     \* how far the request is
  desc,      \* the execution's descriptor
  n,         \* rank count of its group
  input,     \* the argument of the last plan_collective; {} before and after
  plan,      \* ex.plan: {} while empty
  inputs,    \* the buffers passed to the execution
  outputs    \* {outputs} of the execution; {} if it failed

vars == <<stage, desc, n, input, plan, inputs, outputs>>

\* Nothing created yet; the descriptor and the group are what the caller has.
Init ==
  /\ stage = "none"
  /\ desc \in Descriptors
  /\ n \in RankCounts
  /\ input = {} /\ plan = {}
  /\ inputs = <<>> /\ outputs = {}

CreateCollective ==
  /\ stage = "none"
  /\ Valid(desc)
  /\ stage' = "created"
  /\ UNCHANGED <<desc, n, input, plan, inputs, outputs>>

\* The lifecycle moves to PLANNED before the planner is asked: if it throws,
\* the execution goes on with an empty plan.
PlanCollective(in) ==
  /\ stage = "created"
  /\ stage' = "planned"
  /\ input' = {in}
  /\ plan' = PlanFor(desc, n, in)
  /\ UNCHANGED <<desc, n, inputs, outputs>>

\* per_rank_bytes
PerRankBytes(d, ranks) ==
  IF d.kind \in {"ALL_GATHER", "REDUCE_SCATTER"}
  THEN AggregateByteCount(d, ranks) ELSE ElementByteCount(d)

\* execute_collective: every rank has an input of the expected size, and the
\* engine runs on them.  What an index out of bounds leads to is not defined.
ExecuteCollective(bufs) ==
  /\ stage = "planned"
  /\ inputs' = bufs
  /\ \/ /\ ~ RanksHave(desc, n, bufs, PerRankBytes(desc, n))
        /\ stage' = "executed"
        /\ outputs' = {}
     \/ /\ RanksHave(desc, n, bufs, PerRankBytes(desc, n))
        /\ ~ OutOfBounds(desc, n, bufs)
        /\ stage' = "executed"
        /\ outputs' = Execute(desc, n, bufs)
     \/ /\ RanksHave(desc, n, bufs, PerRankBytes(desc, n))
        /\ OutOfBounds(desc, n, bufs)
        /\ stage' = "undefined"
        /\ outputs' = {}
  /\ input' = {}
  /\ UNCHANGED <<desc, n, plan>>

\* ReferenceEngine::execute called by the examples and the coordinator, with
\* a buffer for every rank and a root that is one of them.
CallEngine(bufs) ==
  /\ stage = "created"
  /\ Len(bufs) = n
  /\ desc.root < n
  /\ stage' = "called"
  /\ inputs' = bufs
  /\ outputs' = Execute(desc, n, bufs)
  /\ UNCHANGED <<desc, n, input, plan>>

\* What callers hand in: one buffer per rank, one too few or one too many, of
\* one block or of a block per rank, or with one buffer an element short.
CallerInputs ==
  LET sized == UNION {[1 .. m -> Buffers(desc.datatype, len)] :
                        m \in {n - 1, n, n + 1}, len \in {desc.count, n * desc.count}}
  IN sized \cup {Append(Front(bufs), Front(Last(bufs))) :
                   bufs \in {b \in sized : b # <<>> /\ Last(b) # <<>>}}

Next ==
  \/ CreateCollective
  \/ \E in \in PlannerInputs : PlanCollective(in)
  \/ \E bufs \in CallerInputs : ExecuteCollective(bufs) \/ CallEngine(bufs)

Spec == Init /\ [][Next]_vars

-----------------------------------------------------------------------------
\* The variables have their types; an estimate is a uint64.
TypeOK ==
  /\ stage \in {"none", "created", "planned", "executed", "undefined", "called"}
  /\ desc \in Descriptors /\ n \in RankCounts
  /\ input \subseteq PlannerInputs
  /\ \A p \in plan : /\ p.algorithm \in Range(Algorithm) \ {"UNKNOWN"}
                     /\ p.steps \in 0 .. MaxU64 /\ p.movement \in 0 .. MaxU64
  /\ \A out \in outputs : DOMAIN out = 1 .. n

\* The algorithms that the hard constraints of planner.cpp leave, the fallback
\* aside, and the total order that its comparisons amount to.
RealChoices(in) == {i \in DOMAIN Algorithm :
                      /\ Algorithm[i] # "BACKEND_DEFAULT"
                      /\ Feasible(desc, n, in, Algorithm[i])}

Rating(in, p, i) ==
  LET c == Candidates(desc, n, p, in)[i]
  IN <<IF Timed(in) THEN EstTime(in, c) ELSE 0, c.steps, c.movement, i>>

LexLess(s, t) ==
  \E k \in DOMAIN s : s[k] < t[k] /\ \A j \in 1 .. k - 1 : s[j] = t[j]

\* The two scans of plan() find the one best algorithm: none that the hard
\* constraints leave has a smaller (time, steps, movement, place), and the
\* planner refuses only where nothing is left or the payload overflows.
\* "BACKEND_DEFAULT is a delegation fallback" (planner.cpp, README).
PlanIsBest ==
  \A in \in input :
    /\ plan = {} <=>
         \/ Payload(desc, n) = {}
         \/ RealChoices(in) = {} /\ ~ Feasible(desc, n, in, "BACKEND_DEFAULT")
    /\ \A p \in Payload(desc, n), c \in plan :
         /\ RealChoices(in) # {} => c.order \in RealChoices(in)
         /\ \A i \in RealChoices(in) :
              ~ LexLess(Rating(in, p, i), Rating(in, p, c.order))

\* "No silent wraparound" (checked.hpp): what a plan announces is the exact
\* number of bytes, or the largest uint64 where that does not fit.
EstimatesSaturate ==
  \A in \in input, c \in plan, p \in Payload(desc, n) :
    LET rounds == IF c.algorithm = "DIRECT" THEN n - 1
                  ELSE IF c.algorithm = "RECURSIVE_DOUBLING" THEN 2 * c.steps ELSE c.steps
    IN c.movement = Min({p * rounds, MaxU64})

\* The reduction of the ranks' values, without an order and without a fold.
Reduced(vals) ==
  CASE desc.reduction = "SUM" -> Wrap(desc.datatype, SumFunction(vals))
    [] desc.reduction = "PRODUCT" ->
         Wrap(desc.datatype, FoldFunction(LAMBDA x, y : x * y, 1, vals))
    [] desc.reduction = "MIN" -> Min(Range(vals))
    [] desc.reduction = "MAX" -> Max(Range(vals))

IsReduction(buf, len) ==
  /\ Len(buf) = len
  /\ \A i \in 1 .. len : buf[i] = Reduced([r \in 1 .. n |-> inputs[r][i]])

\* What a collective leaves at each rank is what its kind means: the root's
\* data, the reduction of all ranks, everybody's data in rank order; and the
\* blocks of a reduce-scatter, put together, are an all-reduce of the whole.
ResultIsTheCollective ==
  \A out \in outputs :
    CASE desc.kind = "BARRIER" -> \A r \in 1 .. n : out[r] = <<>>
      [] desc.kind = "BROADCAST" -> \A r \in 1 .. n : out[r] = inputs[desc.root + 1]
      [] desc.kind = "REDUCE" ->
           \A r \in 1 .. n : IF r = desc.root + 1 THEN IsReduction(out[r], desc.count)
                                                  ELSE out[r] = <<>>
      [] desc.kind = "ALL_REDUCE" -> \A r \in 1 .. n : IsReduction(out[r], desc.count)
      [] desc.kind = "ALL_GATHER" ->
           \A r, s \in 1 .. n, i \in 1 .. desc.count :
             out[r][(s - 1) * desc.count + i] = inputs[s][i]
      [] desc.kind = "REDUCE_SCATTER" ->
           /\ \A r \in 1 .. n : Len(out[r]) = desc.count
           /\ IsReduction(FlattenSeq(out), n * desc.count)

\* README: "Supported collective kinds" are all six.  A collective whose
\* inputs are of the size that execute_collective asks for, over a datatype
\* that can be reduced, succeeds.
SupportedKindsRun ==
  /\ stage = "executed"
  /\ RanksHave(desc, n, inputs, PerRankBytes(desc, n))
  /\ desc.datatype # "BYTE" /\ AggregateByteCount(desc, n) # {}
  /\ desc.kind = "BROADCAST" => desc.root < n
  => outputs # {}

=============================================================================
