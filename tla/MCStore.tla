------------------------------ MODULE MCStore ------------------------------
(***************************************************************************)
(* States that are saved: what the coordinator saves (group 1, no health   *)
(* record) and what else PersistentState admits: a second generation, two  *)
(* measurements, a health record, or nothing but the epoch.                *)
(***************************************************************************)
EXTENDS Store

Group1 == [id |-> 1, gen |-> 1, lifecycle |-> 1,
           parts |-> <<[id |-> 3, rank |-> 0], [id |-> 4, rank |-> 1]>>]
Group2 == [Group1 EXCEPT !.gen = 2]

Measured(id) == [id |-> id, fresh |-> Current]

SavedStates ==
  {[epoch |-> 2, live_boot |-> 3, groups |-> <<Group1>>, measurements |-> <<Measured(5)>>,
    health |-> <<>>],
   [epoch |-> 3, live_boot |-> 3, groups |-> <<Group1, Group2>>,
    measurements |-> <<Measured(5), Measured(6)>>, health |-> <<1>>],
   [epoch |-> 2, live_boot |-> 0, groups |-> <<>>, measurements |-> <<>>, health |-> <<>>]}

\* A weighted sum that does not start from zero: it tells apart payloads that
\* differ in one field.
WeightedSum(t) ==
  LET f[k \in 0 .. Len(t)] == IF k = 0 THEN 1 ELSE (f[k - 1] + k * t[k]) % 9973
  IN f[Len(t)]

=============================================================================
