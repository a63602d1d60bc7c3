----------------------------- MODULE Descriptor -----------------------------
(***************************************************************************)
(* The collective descriptor (collective/descriptor.hpp), the sizes of the *)
(* datatypes (enums.cpp) and the checked arithmetic (foundation/           *)
(* checked.hpp).                                                           *)
(*                                                                         *)
(* An optional value is a set with at most one member, and so is the       *)
(* result of a function that may throw: {} stands for nullopt or a throw.  *)
(* uint64 is 0 .. MaxU64.                                                  *)
(***************************************************************************)
EXTENDS Naturals

CONSTANT MaxU64   \* largest uint64; small in a model, so that it is reached

ASSUME MaxU64Assumption == MaxU64 \in Nat \ {0}

Kind == {"BARRIER", "BROADCAST", "REDUCE", "ALL_REDUCE", "ALL_GATHER", "REDUCE_SCATTER"}

ReductionOp == {"SUM", "PRODUCT", "MIN", "MAX", "NONE"}

DatatypeSize == [INT32 |-> 4, UINT32 |-> 4, INT64 |-> 8, FLOAT32 |-> 4, FLOAT64 |-> 8,
                 BYTE |-> 1]
Datatype == DOMAIN DatatypeSize

\* is_reduce_family, and the kinds with a root.
ReduceFamily == {"REDUCE", "ALL_REDUCE", "REDUCE_SCATTER"}
Rooted == {"BROADCAST", "REDUCE"}

\* checked_mul: the overflow test divides, so that it cannot overflow itself.
CheckedMul(a, b) ==
  IF a # 0 /\ b # 0 /\ a > MaxU64 \div b THEN {} ELSE {a * b}

ElementByteCount(d) == CheckedMul(d.count, DatatypeSize[d.datatype])

AggregateByteCount(d, n) == UNION {CheckedMul(per, n) : per \in ElementByteCount(d)}

\* validate(): a barrier is let through before its element count is looked at.
\* Every datatype of the enumeration has a size.
Valid(d) ==
  /\ d.kind \in ReduceFamily => d.reduction # "NONE"
  /\ d.kind \in {"BARRIER", "BROADCAST"} => d.reduction = "NONE"
  /\ d.kind # "BARRIER" =>
       /\ ElementByteCount(d) # {}
       /\ d.kind \in Rooted => d.hasRoot
       /\ d.count # 0

=============================================================================
