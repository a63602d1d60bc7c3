------------------------------- MODULE Engine -------------------------------
(***************************************************************************)
(* The reference engine (reference/engine.hpp): the six collectives over   *)
(* the ranks' buffers.  inputs[r + 1] is the buffer of rank r, a sequence  *)
(* of elements of the collective's datatype; its bytes are its length      *)
(* times the datatype's size.  A result is {outputs}, or {} for a throw.   *)
(*                                                                         *)
(* Unsigned elements wrap at Modulus.  The other datatypes are folded the  *)
(* same way; the values in use stay inside their range (signed overflow is *)
(* undefined in the code, and rounding is not modelled).                   *)
(***************************************************************************)
EXTENDS Descriptor, FiniteSetsExt, SequencesExt

CONSTANT Modulus   \* 2^32 in the code

ASSUME ModulusAssumption == Modulus \in Nat \ {0}

\* What an element of a buffer may be.
Elements(dt) == IF dt = "UINT32" THEN 0 .. Modulus - 1 ELSE Int

Wrap(dt, x) == IF dt = "UINT32" THEN x % Modulus ELSE x

\* op32, op64, opf
Combine(dt, op, a, b) ==
  CASE op = "SUM" -> Wrap(dt, a + b)
    [] op = "PRODUCT" -> Wrap(dt, a * b)
    [] op = "MIN" -> IF a < b THEN a ELSE b
    [] op = "MAX" -> IF a > b THEN a ELSE b
    [] OTHER -> b

\* Mutant: the loop over the ranks starts at the first one again.
ReduceIntoFirstTwice(dt, op, bufs, count) ==
  [i \in 1 .. count |->
     FoldLeft(LAMBDA acc, buf : Combine(dt, op, acc, buf[i]), Head(bufs)[i], bufs)]

\* do_reduce: the left fold in rank order of each of the elements.
ReduceInto(dt, op, bufs, count) ==
  [i \in 1 .. count |->
     FoldLeft(LAMBDA acc, buf : Combine(dt, op, acc, buf[i]), Head(bufs)[i], Tail(bufs))]

Bytes(d, buf) == Len(buf) * DatatypeSize[d.datatype]

\* checksize, and the checks of all_gather and reduce_scatter.
RanksHave(d, n, inputs, size) ==
  /\ Len(inputs) >= n
  /\ \A r \in 1 .. n : {Bytes(d, inputs[r])} = size

\* reduce() writes outputs[root] without comparing the root with the ranks.
OutOfBounds(d, n, inputs) ==
  /\ d.kind = "REDUCE" /\ d.root >= n
  /\ AggregateByteCount(d, n) # {}
  /\ RanksHave(d, n, inputs, ElementByteCount(d))

\* Mutant: outputs is not resized.
BarrierNoOutputs(n) == {<<>>}

Barrier(n) == {[r \in 1 .. n |-> <<>>]}

Broadcast(d, n, inputs) ==
  IF d.root < Len(inputs) /\ {Bytes(d, inputs[d.root + 1])} = ElementByteCount(d)
  THEN {[r \in 1 .. n |-> inputs[d.root + 1]]} ELSE {}

Reduce(d, n, inputs) ==
  IF RanksHave(d, n, inputs, ElementByteCount(d)) /\ d.datatype # "BYTE"
  THEN {[r \in 1 .. n |-> IF r = d.root + 1
           THEN ReduceInto(d.datatype, d.reduction, SubSeq(inputs, 1, n), d.count)
           ELSE <<>>]}
  ELSE {}

AllReduce(d, n, inputs) ==
  IF RanksHave(d, n, inputs, ElementByteCount(d)) /\ d.datatype # "BYTE"
  THEN {[r \in 1 .. n |->
           ReduceInto(d.datatype, d.reduction, SubSeq(inputs, 1, n), d.count)]}
  ELSE {}

AllGather(d, n, inputs) ==
  IF RanksHave(d, n, inputs, ElementByteCount(d))
  THEN {[r \in 1 .. n |-> FlattenSeq(SubSeq(inputs, 1, n))]} ELSE {}

\* Block b of every rank, reduced, belongs to rank b.
Block(d, buf, b) == SubSeq(buf, (b - 1) * d.count + 1, b * d.count)

ReduceScatter(d, n, inputs) ==
  IF RanksHave(d, n, inputs, AggregateByteCount(d, n)) /\ d.datatype # "BYTE"
  THEN {[b \in 1 .. n |->
           ReduceInto(d.datatype, d.reduction,
                      [r \in 1 .. n |-> Block(d, inputs[r], b)], d.count)]}
  ELSE {}

\* execute(): the total size is checked for every kind.
Execute(d, n, inputs) ==
  IF AggregateByteCount(d, n) = {} THEN {}
  ELSE CASE d.kind = "BARRIER" -> Barrier(n)
         [] d.kind = "BROADCAST" -> Broadcast(d, n, inputs)
         [] d.kind = "REDUCE" -> Reduce(d, n, inputs)
         [] d.kind = "ALL_REDUCE" -> AllReduce(d, n, inputs)
         [] d.kind = "ALL_GATHER" -> AllGather(d, n, inputs)
         [] d.kind = "REDUCE_SCATTER" -> ReduceScatter(d, n, inputs)

=============================================================================
