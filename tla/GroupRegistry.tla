--------------------------- MODULE GroupRegistry ---------------------------
(***************************************************************************)
(* Group construction (GroupBuilder in group.hpp), the registry of group   *)
(* generations in the Runtime (runtime.cpp), and the rebuilding of saved   *)
(* groups by a recovering coordinator (rebuild_runtime in coordinator.cpp).*)
(*                                                                         *)
(* One builder is filled and built; what it builds is registered under a   *)
(* generation.  The builder stays usable after build(), which leaves its   *)
(* participants arranged.  A participant is its id, the pair of its worker *)
(* identity and incarnation (who), and its rank; 0 is "null" for all of    *)
(* them.  The other fields are copied only and left out.                   *)
(***************************************************************************)
EXTENDS Naturals, Sequences, Functions

CONSTANTS
  MaxId,            \* largest participant id and rank in use
  Identity,         \* pairs of worker and incarnation in use
  MaxParticipants,  \* bound: participants added to the builder
  Gen               \* group generations

ASSUME GroupAssumption == MaxId \in Nat /\ MaxParticipants \in Nat

VARIABLES
  parts,       \* participants_ of the builder
  gensGiven,   \* its membership and topology generations are not null
  groups       \* groups_: the participants registered for each generation

vars == <<parts, gensGiven, groups>>

\* The ranks given to a builder, and those that it gives.
Ranks == 0 .. MaxId \cup 0 .. MaxParticipants - 1

Participant == [id : 0 .. MaxId, who : Identity, rank : Ranks]

NotBuilt == <<>>   \* build() threw; also: nothing registered

-----------------------------------------------------------------------------
\* RankId::is_null holds of rank 0 too.
IsNullRank(r) == r = 0

\* std::sort: the participants in an order in which the key does not fall.
\* Which of two equal keys comes first is left open.
Orders(ps) == {[i \in DOMAIN ps |-> ps[f[i]]] : f \in Bijection(DOMAIN ps, DOMAIN ps)}
ById(ps) == {s \in Orders(ps) : \A i, j \in DOMAIN ps : i < j => s[i].id <= s[j].id}
ByRank(ps) == {s \in Orders(ps) : \A i, j \in DOMAIN ps : i < j => s[i].rank <= s[j].rank}

Numbered(s) == [i \in DOMAIN s |-> [s[i] EXCEPT !.rank = i - 1]]

\* Mutant: ranks count from one.
ArrangeFromOne(ps) ==
  IF \E i \in DOMAIN ps : IsNullRank(ps[i].rank)
  THEN {[i \in DOMAIN s |-> [s[i] EXCEPT !.rank = i]] : s \in ById(ps)}
  ELSE ByRank(ps)

\* build(), first half: with a null rank among them, ranks follow the ids.
Arrange(ps) ==
  IF \E i \in DOMAIN ps : IsNullRank(ps[i].rank) THEN {Numbered(s) : s \in ById(ps)} ELSE ByRank(ps)

\* Mutant: two participants may share an incarnation.
ValidSharedBoot(ps, gens) ==
  /\ ps # <<>> /\ gens
  /\ \A i, j \in DOMAIN ps : i # j => ps[i].id # ps[j].id /\ ps[i].rank # ps[j].rank
  /\ \A i \in DOMAIN ps : ps[i].rank = i - 1 /\ ps[i].who[1] # 0 /\ ps[i].who[2] # 0

\* validate()
Valid(ps, gens) ==
  /\ ps # <<>> /\ gens
  /\ \A i, j \in DOMAIN ps : i # j =>
       /\ ps[i].id # ps[j].id
       /\ ps[i].rank # ps[j].rank
       /\ ps[i].who # ps[j].who
  /\ \A i \in DOMAIN ps : ps[i].rank = i - 1 /\ ps[i].who[1] # 0 /\ ps[i].who[2] # 0

\* build(), second half: the group's participants, or NotBuilt.
Build(arranged, gens) == IF Valid(arranged, gens) THEN arranged ELSE NotBuilt

\* Mutant: the saved worker identity is used as the participant id.
RebuildByWorker(group) ==
  {Build(arranged, TRUE) :
    arranged \in Arrange([i \in DOMAIN group |-> [group[i] EXCEPT !.id = group[i].who[1]]])}

\* rebuild_runtime: a saved group goes through a builder of its own, with the
\* saved ranks.
Rebuild(group) == {Build(arranged, TRUE) : arranged \in Arrange(group)}

-----------------------------------------------------------------------------
TypeOK ==
  /\ parts \in Seq(Participant) /\ Len(parts) <= MaxParticipants
  /\ gensGiven \in BOOLEAN
  /\ groups \in [Gen -> Seq(Participant)]

Init ==
  /\ parts = <<>>
  /\ gensGiven = TRUE
  /\ groups = [g \in Gen |-> NotBuilt]

AddParticipant(p) ==
  /\ Len(parts) < MaxParticipants
  /\ parts' = Append(parts, p)
  /\ UNCHANGED <<gensGiven, groups>>

\* membership_generation and topology_generation.
GiveGenerations(given) ==
  /\ gensGiven # given
  /\ gensGiven' = given
  /\ UNCHANGED <<parts, groups>>

\* Mutant: a generation that is registered already is replaced.
RegisterReplaces(g) ==
  /\ parts' \in Arrange(parts)
  /\ LET built == Build(parts', gensGiven) IN
     groups' = IF built # NotBuilt THEN [groups EXCEPT ![g] = built] ELSE groups
  /\ UNCHANGED gensGiven

\* build() and register_group: the builder keeps the arranged participants
\* even when validate() throws; a registered generation is refused.
Register(g) ==
  /\ parts' \in Arrange(parts)
  /\ LET built == Build(parts', gensGiven) IN
     groups' = IF built # NotBuilt /\ groups[g] = NotBuilt
               THEN [groups EXCEPT ![g] = built] ELSE groups
  /\ UNCHANGED gensGiven

Next ==
  \/ \E p \in Participant : AddParticipant(p)
  \/ \E given \in BOOLEAN : GiveGenerations(given)
  \/ \E g \in Gen : Register(g)

Spec == Init /\ [][Next]_vars

-----------------------------------------------------------------------------
\* "Rank assignment is deterministic and denseranked" (README.md): whatever was
\* added, in whatever order and however often it was built in between, a
\* registered group has ranks 0 .. n-1 in the order of its participant ids,
\* and no incarnation twice.  That includes participants that were all given
\* distinct ranks 0 .. n-1, which group.hpp:123 says are kept: rank 0 is the null
\* rank and counts as not given.
RanksDenseById ==
  \A g \in Gen : \A i, j \in DOMAIN groups[g] :
    /\ groups[g][i].rank = i - 1
    /\ i < j => groups[g][i].id < groups[g][j].id
    /\ i # j => groups[g][i].who # groups[g][j].who

\* "Historical membership is never mutated in place" (README.md), although the
\* builder it came from goes on changing.
MembershipImmutable ==
  [][\A g \in Gen : groups[g] # NotBuilt => groups'[g] = groups[g]]_vars

\* A recovering coordinator rebuilds exactly the group that was saved: the
\* builder re-ranks the participants it is given, to the same ranks.
RecoveryKeepsRanks ==
  \A g \in Gen : groups[g] # NotBuilt => Rebuild(groups[g]) = {groups[g]}

=============================================================================
