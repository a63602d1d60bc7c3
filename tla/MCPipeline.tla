----------------------------- MODULE MCPipeline -----------------------------
(* Model-checking instances of Pipeline. *)
EXTENDS Pipeline

\* Counts: none, one, two, and one whose bytes overflow MaxU64 for the larger
\* datatype at once and for the smaller one with two ranks.
MCDescriptors ==
  [kind : Kind, reduction : ReductionOp, datatype : {"UINT32", "INT64", "BYTE"},
   count : {0, 1, 2, 9}, hasRoot : {FALSE}, root : {0}, placement : {"HOST"}]
  \cup
  [kind : Rooted, reduction : ReductionOp, datatype : {"UINT32", "INT64", "BYTE"},
   count : {1, 2}, hasRoot : {TRUE}, root : 0 .. 2, placement : {"HOST"}]
  \cup
  [kind : Kind, reduction : {"SUM"}, datatype : {"UINT32"},
   count : {1}, hasRoot : {TRUE}, root : {0}, placement : {"DEVICE"}]

\* The reference backend, and four that lack something.
Reference == [kinds |-> Kind, datatypes |-> Datatype, reductions |-> ReductionOp,
              hostTransport |-> TRUE, hostBuffers |-> TRUE, maxRanks |-> {}]

MCBackends ==
  {Reference,
   [Reference EXCEPT !.kinds = {"ALL_REDUCE", "BROADCAST"}, !.maxRanks = {2}],
   [Reference EXCEPT !.datatypes = {"UINT32"}, !.reductions = {"SUM"}],
   [Reference EXCEPT !.hostTransport = FALSE],
   [Reference EXCEPT !.hostBuffers = FALSE]}

\* Bandwidth and latency unknown, either known, or both; latencies that make time
\* and steps agree and disagree; a bandwidth of zero, and one that does not divide
\* Second.
MCPlannerInputs ==
  [backend : {Reference}, nodes : {{}, {1}, {2}}, bandwidth : {{}, {0}, {3}},
   latency : {{}, {1}, {30}}]
  \cup
  [backend : MCBackends, nodes : {{2}}, bandwidth : {{}}, latency : {{}}]

\* Two buffers of each length, neither above the other; with Modulus 5 both
\* sums and products wrap.  Signed elements are of both signs.
MCBuffers(dt, len) ==
  {[i \in 1 .. len |-> ((i * k + 1) % 5) - (IF dt = "INT64" THEN 2 ELSE 0)] : k \in {1, 3}}

=============================================================================
