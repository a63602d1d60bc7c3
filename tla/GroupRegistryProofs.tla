------------------------ MODULE GroupRegistryProofs ------------------------
(***************************************************************************)
(* Theorems about module GroupRegistry, for any participants, any numbers  *)
(* of them, and however std::sort orders participants with equal keys.     *)
(*                                                                         *)
(* Whatever the builder is left with, a group it builds is Ordered; and a  *)
(* group that is Ordered has one arrangement only, itself.                 *)
(***************************************************************************)
EXTENDS GroupRegistry, InductionLemmas, SequenceTheorems, TLAPS

-----------------------------------------------------------------------------
(* The inductive invariant *)

\* What build() accepts, in the order of the ids.
Ordered(s) == Valid(s, TRUE) /\ \A i, j \in DOMAIN s : i < j => s[i].id < s[j].id

IInv == TypeOK /\ \A g \in Gen : groups[g] = NotBuilt \/ Ordered(groups[g])

-----------------------------------------------------------------------------
(* Orders of a sequence *)

\* A position is one of 1 .. n.
LEMMA Positions ==
  ASSUME NEW S, NEW s \in Seq(S)
  PROVE  /\ Len(s) \in Nat /\ DOMAIN s = 1 .. Len(s) /\ s \in [1 .. Len(s) -> S]
         /\ \A i \in DOMAIN s : i \in Nat /\ 1 <= i /\ i <= Len(s) /\ s[i] \in S
<1>1. Len(s) \in Nat /\ DOMAIN s = 1 .. Len(s) /\ s \in [1 .. Len(s) -> S]
  BY LenProperties
<1> QED BY <1>1

\* An order moves each position to one other.
LEMMA OrderMoves ==
  ASSUME NEW ps, NEW s \in Orders(ps)
  PROVE  \E f \in [DOMAIN ps -> DOMAIN ps] :
           /\ s = [i \in DOMAIN ps |-> ps[f[i]]]
           /\ \A i, j \in DOMAIN ps : f[i] = f[j] => i = j
           /\ \A j \in DOMAIN ps : \E i \in DOMAIN ps : f[i] = j
<1>1. PICK f \in Bijection(DOMAIN ps, DOMAIN ps) : s = [i \in DOMAIN ps |-> ps[f[i]]]
  BY DEF Orders
<1>2. /\ f \in [DOMAIN ps -> DOMAIN ps]
      /\ \A i, j \in DOMAIN ps : f[i] = f[j] => i = j
      /\ \A j \in DOMAIN ps : \E i \in DOMAIN ps : f[i] = j
  BY DEF Bijection, Injection, Surjection, IsInjective
<1> QED BY <1>1, <1>2

\* Whatever order: the same participants, each at one new position.
LEMMA OrderIsOneToOne ==
  ASSUME NEW S, NEW ps \in Seq(S), NEW s \in Orders(ps)
  PROVE  /\ s \in Seq(S) /\ Len(s) = Len(ps) /\ DOMAIN s = DOMAIN ps
         /\ \E f \in [DOMAIN ps -> DOMAIN ps] :
              /\ s = [i \in DOMAIN ps |-> ps[f[i]]]
              /\ \A i, j \in DOMAIN ps : f[i] = f[j] => i = j
              /\ \A j \in DOMAIN ps : \E i \in DOMAIN ps : f[i] = j
<1>1. PICK f \in [DOMAIN ps -> DOMAIN ps] :
        /\ s = [i \in DOMAIN ps |-> ps[f[i]]]
        /\ \A i, j \in DOMAIN ps : f[i] = f[j] => i = j
        /\ \A j \in DOMAIN ps : \E i \in DOMAIN ps : f[i] = j
  BY OrderMoves
<1>3. Len(ps) \in Nat /\ DOMAIN ps = 1 .. Len(ps) /\ \A i \in DOMAIN ps : ps[i] \in S
  BY Positions
<1>4. s \in [1 .. Len(ps) -> S]
  BY <1>1, <1>3
<1>5. s \in Seq(S) /\ Len(s) = Len(ps)
  <2>1. s \in Seq(S)
    BY <1>3, <1>4
  <2>2. DOMAIN s = 1 .. Len(ps)
    BY <1>4
  <2> QED BY <2>1, <2>2, <1>3, LenProperties
<1> QED BY <1>1, <1>4, <1>3, <1>5

\* Positions in increasing order are in their places.
LEMMA IncreasingIsIdentity ==
  ASSUME NEW n \in Nat, NEW f \in [1 .. n -> 1 .. n],
         \A j \in 1 .. n : \E i \in 1 .. n : f[i] = j,
         \A i, j \in 1 .. n : i < j => f[i] < f[j]
  PROVE  \A i \in 1 .. n : f[i] = i
<1> DEFINE Moved == {i \in 1 .. n : f[i] # i}
<1> SUFFICES ASSUME Moved # {} PROVE FALSE
  OBVIOUS
<1>1. PICK m \in Moved : \A k \in Moved : m <= k
  <2>1. Moved \in SUBSET Nat
    OBVIOUS
  <2> HIDE DEF Moved
  <2> QED BY <2>1, Least
<1>2. m \in 1 .. n /\ f[m] # m /\ f[m] \in 1 .. n
  OBVIOUS
<1>3. \A k \in 1 .. n : k < m => f[k] = k
  BY <1>1, <1>2
<1>4. m < f[m]
  <2>1. CASE f[m] < m
    <3>1. f[f[m]] = f[m] /\ f[f[m]] < f[m]
      BY <2>1, <1>2, <1>3
    <3> QED BY <3>1, <1>2
  <2> QED BY <2>1, <1>2
<1>5. PICK k \in 1 .. n : f[k] = m
  BY <1>2
<1>6. k < m \/ m < k
  BY <1>2, <1>5
<1>7. CASE k < m
  BY <1>3, <1>5, <1>7
<1>8. CASE m < k
  <2>1. f[m] < f[k]
    BY <1>2, <1>8
  <2> QED BY <2>1, <1>4, <1>5, <1>2
<1> QED BY <1>6, <1>7, <1>8

-----------------------------------------------------------------------------
(* What build() returns *)

\* The arranged participants have their types.
LEMMA ArrangedType ==
  ASSUME NEW ps \in Seq(Participant), Len(ps) <= MaxParticipants, NEW s \in Arrange(ps)
  PROVE  s \in Seq(Participant) /\ Len(s) = Len(ps)
<1>1. CASE s \in ByRank(ps)
  BY <1>1, OrderIsOneToOne DEF ByRank
<1>2. ASSUME NEW t \in ById(ps), s = Numbered(t) PROVE s \in Seq(Participant) /\ Len(s) = Len(ps)
  <2>1. t \in Seq(Participant) /\ Len(t) = Len(ps)
    BY OrderIsOneToOne DEF ById
  <2>2. /\ Len(t) \in Nat /\ DOMAIN t = 1 .. Len(t)
        /\ \A i \in DOMAIN t : i \in Nat /\ 1 <= i /\ i <= Len(t) /\ t[i] \in Participant
    BY <2>1, Positions
  <2>3. \A i \in DOMAIN t : [t[i] EXCEPT !.rank = i - 1] \in Participant
    <3>1. \A i \in DOMAIN t : i - 1 \in Ranks
      BY <2>1, <2>2, GroupAssumption DEF Ranks
    <3> QED BY <2>2, <3>1 DEF Participant
  <2>4. s \in [1 .. Len(t) -> Participant]
    BY <1>2, <2>2, <2>3 DEF Numbered
  <2>5. s \in Seq(Participant) /\ DOMAIN s = 1 .. Len(t)
    BY <2>2, <2>4
  <2> QED BY <2>1, <2>2, <2>5, LenProperties
<1> QED BY <1>1, <1>2 DEF Arrange

\* Ranks that validate() accepts follow the ids: had they all been given, one
\* would be 0 and count as missing.
LEMMA BuiltIsOrdered ==
  ASSUME NEW ps \in Seq(Participant), Len(ps) <= MaxParticipants, NEW s \in Arrange(ps), Valid(s, TRUE)
  PROVE  Ordered(s)
<1>1. s \in Seq(Participant) /\ s # <<>>
  BY ArrangedType DEF Valid
<1>2. Len(s) \in Nat /\ DOMAIN s = 1 .. Len(s) /\ Len(s) # 0
  BY <1>1, Positions, EmptySeq
<1>3. 1 \in DOMAIN s /\ s[1].rank = 0
  <2>1. 1 \in DOMAIN s
    BY <1>2
  <2>2. s[1].rank = 1 - 1
    BY <2>1 DEF Valid
  <2> QED BY <2>1, <2>2
<1>4. CASE \E i \in DOMAIN ps : IsNullRank(ps[i].rank)
  <2>1. PICK t \in ById(ps) : s = Numbered(t)
    BY <1>4 DEF Arrange
  <2>2. /\ DOMAIN t = DOMAIN ps
        /\ \A i, j \in DOMAIN ps : i < j => t[i].id <= t[j].id
        /\ t \in Seq(Participant)
    BY OrderIsOneToOne DEF ById
  <2>3. DOMAIN s = DOMAIN t
    BY <2>1 DEF Numbered
  <2>4. \A i \in DOMAIN t : t[i] \in Participant /\ i \in Nat
    BY <2>2, Positions
  <2>5. \A i \in DOMAIN s : s[i].id = t[i].id /\ s[i].id \in 0 .. MaxId
    BY <2>1, <2>3, <2>4 DEF Numbered, Participant
  <2>6. ASSUME NEW i \in DOMAIN s, NEW j \in DOMAIN s, i < j PROVE s[i].id < s[j].id
    <3>1. s[i].id <= s[j].id
      BY <2>2, <2>3, <2>5, <2>6
    <3>2. i # j
      BY <2>3, <2>4, <2>6
    <3>3. s[i].id # s[j].id
      BY <3>2 DEF Valid
    <3> QED BY <3>1, <3>3, <2>5, GroupAssumption
  <2> QED BY <2>6 DEF Ordered
<1>5. CASE ~ \E i \in DOMAIN ps : IsNullRank(ps[i].rank)
  <2>1. s \in Orders(ps)
    BY <1>5 DEF Arrange, ByRank
  <2>2. PICK f \in [DOMAIN ps -> DOMAIN ps] : s = [i \in DOMAIN ps |-> ps[f[i]]]
    BY <2>1, OrderIsOneToOne
  <2>3. s[1] = ps[f[1]] /\ f[1] \in DOMAIN ps
    BY <2>2, <1>3
  <2> QED BY <2>3, <1>3, <1>5 DEF IsNullRank
<1> QED BY <1>4, <1>5

\* A group that is Ordered is arranged as it is, and only so.
LEMMA OrderedIsArranged ==
  ASSUME NEW s \in Seq(Participant), Ordered(s)
  PROVE  Arrange(s) = {s}
<1>1. /\ Len(s) \in Nat /\ DOMAIN s = 1 .. Len(s) /\ Len(s) # 0
      /\ \A i \in DOMAIN s : i \in Nat /\ 1 <= i /\ i <= Len(s) /\ s[i] \in Participant
  BY Positions, EmptySeq DEF Ordered, Valid
<1>2. \A i \in DOMAIN s : s[i].id \in Nat /\ s[i].rank = i - 1
  BY <1>1, GroupAssumption DEF Ordered, Valid, Participant
<1>3. \E i \in DOMAIN s : IsNullRank(s[i].rank)
  <2>1. 1 \in DOMAIN s /\ s[1].rank = 0
    BY <1>1, <1>2
  <2> QED BY <2>1 DEF IsNullRank
<1>4. Numbered(s) = s
  <2>1. \A i \in DOMAIN s : [s[i] EXCEPT !.rank = i - 1] = s[i]
    BY <1>1, <1>2 DEF Participant
  <2>2. s = [i \in DOMAIN s |-> s[i]]
    BY <1>1, Positions
  <2> QED BY <2>1, <2>2 DEF Numbered
<1>5. s \in ById(s)
  <2> DEFINE here == [i \in DOMAIN s |-> i]
  <2>1. here \in Bijection(DOMAIN s, DOMAIN s)
    BY DEF Bijection, Injection, Surjection, IsInjective
  <2>2. s = [i \in DOMAIN s |-> s[here[i]]]
    <3>1. s = [i \in DOMAIN s |-> s[i]]
      BY Positions
    <3> QED BY <3>1
  <2>3. s \in Orders(s)
    BY <2>1, <2>2 DEF Orders
  <2>4. \A i, j \in DOMAIN s : i < j => s[i].id <= s[j].id
    BY <1>2 DEF Ordered
  <2> QED BY <2>3, <2>4 DEF ById
<1>6. ASSUME NEW t \in ById(s) PROVE t = s
  <2>1. t \in Orders(s) /\ \A i, j \in DOMAIN s : i < j => t[i].id <= t[j].id
    BY DEF ById
  <2>2. PICK f \in [DOMAIN s -> DOMAIN s] :
          /\ t = [i \in DOMAIN s |-> s[f[i]]]
          /\ \A i, j \in DOMAIN s : f[i] = f[j] => i = j
          /\ \A j \in DOMAIN s : \E i \in DOMAIN s : f[i] = j
    BY <2>1, OrderMoves
  <2>3. ASSUME NEW i \in DOMAIN s, NEW j \in DOMAIN s, i < j PROVE f[i] < f[j]
    <3>1. s[f[i]].id <= s[f[j]].id
      BY <2>1, <2>2, <2>3
    <3>2. f[i] \in DOMAIN s /\ f[j] \in DOMAIN s /\ f[i] # f[j]
      <4>1. i # j
        BY <2>3, <1>1
      <4> QED BY <2>2, <4>1
    <3>3. f[j] < f[i] => s[f[j]].id < s[f[i]].id
      BY <3>2 DEF Ordered
    <3>4. s[f[i]].id \in Nat /\ s[f[j]].id \in Nat /\ f[i] \in Nat /\ f[j] \in Nat
      BY <3>2, <1>1, <1>2
    <3> QED BY <3>1, <3>2, <3>3, <3>4
  <2>4. \A i \in DOMAIN s : f[i] = i
    <3>1. PICK n \in Nat : n = Len(s)
      BY <1>1
    <3>2. DOMAIN s = 1 .. n
      BY <3>1, <1>1
    <3>3. /\ f \in [1 .. n -> 1 .. n]
          /\ \A j \in 1 .. n : \E i \in 1 .. n : f[i] = j
          /\ \A i, j \in 1 .. n : i < j => f[i] < f[j]
      BY <3>2, <2>2, <2>3
    <3> QED BY <3>2, <3>3, IncreasingIsIdentity
  <2>5. s = [i \in DOMAIN s |-> s[i]]
    BY Positions
  <2> QED BY <2>2, <2>4, <2>5
<1>7. ById(s) = {s}
  BY <1>5, <1>6
<1> QED BY <1>3, <1>4, <1>7 DEF Arrange

-----------------------------------------------------------------------------
(* The invariant is inductive *)

LEMMA RegisterIInv ==
  ASSUME IInv, NEW g \in Gen, Register(g)
  PROVE  IInv'
<1>1. /\ parts \in Seq(Participant) /\ Len(parts) <= MaxParticipants /\ gensGiven \in BOOLEAN
      /\ groups \in [Gen -> Seq(Participant)]
  BY DEF IInv, TypeOK
<1>2. PICK s : s = parts' /\ s \in Arrange(parts)
  BY DEF Register
<1>3. s \in Seq(Participant) /\ Len(s) = Len(parts)
  BY <1>1, <1>2, ArrangedType
<1>4. gensGiven' = gensGiven
  BY DEF Register
<1>5. \/ groups' = groups
      \/ /\ groups' = [groups EXCEPT ![g] = s] /\ Valid(s, gensGiven)
  BY <1>2 DEF Register, Build
<1>6. Valid(s, gensGiven) => Ordered(s)
  <2>1. Valid(s, gensGiven) => Valid(s, TRUE)
    BY DEF Valid
  <2> QED BY <2>1, <1>1, <1>2, BuiltIsOrdered
<1>7. TypeOK'
  <2>1. groups' \in [Gen -> Seq(Participant)]
    BY <1>1, <1>3, <1>5
  <2> QED BY <2>1, <1>1, <1>2, <1>3, <1>4 DEF TypeOK
<1>8. ASSUME NEW h \in Gen PROVE groups'[h] = NotBuilt \/ Ordered(groups'[h])
  <2>1. groups'[h] = groups[h] \/ (groups'[h] = s /\ Ordered(s))
    BY <1>1, <1>5, <1>6
  <2> QED BY <2>1 DEF IInv
<1> QED BY <1>7, <1>8 DEF IInv, Ordered, Valid

LEMMA NextIInv ==
  ASSUME IInv, [Next]_vars
  PROVE  IInv'
<1>1. ASSUME NEW p \in Participant, AddParticipant(p) PROVE IInv'
  <2>1. parts \in Seq(Participant) /\ Len(parts) < MaxParticipants
    BY <1>1 DEF IInv, TypeOK, AddParticipant
  <2>2. PICK s : s = Append(parts, p)
    OBVIOUS
  <2>3. s \in Seq(Participant) /\ Len(s) = Len(parts) + 1 /\ Len(parts) \in Nat
    BY <2>1, <2>2, AppendProperties, LenProperties
  <2>4. Len(s) <= MaxParticipants
    BY <2>1, <2>3, GroupAssumption
  <2>5. parts' = s /\ UNCHANGED <<gensGiven, groups>>
    BY <1>1, <2>2 DEF AddParticipant
  <2> QED BY <2>3, <2>4, <2>5 DEF IInv, TypeOK, Ordered, Valid
<1>2. ASSUME NEW given \in BOOLEAN, GiveGenerations(given) PROVE IInv'
  BY <1>2 DEF IInv, TypeOK, GiveGenerations, Ordered, Valid
<1>3. ASSUME NEW g \in Gen, Register(g) PROVE IInv'
  BY <1>3, RegisterIInv
<1>4. CASE UNCHANGED vars
  BY <1>4 DEF vars, IInv, TypeOK, Ordered, Valid
<1> QED BY <1>1, <1>2, <1>3, <1>4 DEF Next

LEMMA InitIInv == Init => IInv
<1> SUFFICES ASSUME Init PROVE IInv
  OBVIOUS
<1>1. parts = <<>> /\ gensGiven = TRUE /\ groups = [g \in Gen |-> NotBuilt]
  BY DEF Init
<1>2. <<>> \in Seq(Participant) /\ Len(<<>>) = 0
  BY EmptySeq
<1>3. groups \in [Gen -> Seq(Participant)]
  BY <1>1, <1>2 DEF NotBuilt
<1>4. TypeOK
  BY <1>1, <1>2, <1>3, GroupAssumption DEF TypeOK
<1> QED BY <1>1, <1>4 DEF IInv

\* Groups that validate() accepted after std::sort stay as they are.
THEOREM Invariant == Spec => []IInv
<1> QED BY InitIInv, NextIInv, PTL DEF Spec

\* The builder and the registry hold participants, and no rank beyond those
\* given by the caller or by build().
THEOREM TypeCorrect == Spec => []TypeOK
<1>1. IInv => TypeOK
  BY DEF IInv
<1> QED BY <1>1, Invariant, PTL

\* register_group takes groups with ranks 0 .. n-1 in the order of the ids and
\* no incarnation twice, however the builder was filled and reused.
THEOREM RanksAreDense == Spec => []RanksDenseById
<1>1. ASSUME IInv PROVE RanksDenseById
  <2>1. ASSUME NEW g \in Gen, NEW i \in DOMAIN groups[g], NEW j \in DOMAIN groups[g]
        PROVE  /\ groups[g][i].rank = i - 1
               /\ i < j => groups[g][i].id < groups[g][j].id
               /\ i # j => groups[g][i].who # groups[g][j].who
    <3>1. groups[g] # NotBuilt
      BY DEF NotBuilt
    <3>2. Ordered(groups[g])
      BY <1>1, <3>1 DEF IInv
    <3> QED BY <3>2 DEF Ordered, Valid
  <2> QED BY <2>1 DEF RanksDenseById
<1> QED BY <1>1, Invariant, PTL

\* rebuild_runtime ends with the group that was saved: sorting and ranking it
\* again, whatever std::sort does, changes nothing.
THEOREM RebuildingIsExact == Spec => []RecoveryKeepsRanks
<1>1. ASSUME IInv PROVE RecoveryKeepsRanks
  <2>1. ASSUME NEW g \in Gen, groups[g] # NotBuilt PROVE Rebuild(groups[g]) = {groups[g]}
    <3>1. groups[g] \in Seq(Participant) /\ Ordered(groups[g])
      BY <1>1, <2>1 DEF IInv, TypeOK
    <3>2. Arrange(groups[g]) = {groups[g]}
      BY <3>1, OrderedIsArranged
    <3>3. Build(groups[g], TRUE) = groups[g]
      BY <3>1 DEF Build, Ordered
    <3> QED BY <3>2, <3>3 DEF Rebuild
  <2> QED BY <2>1 DEF RecoveryKeepsRanks
<1> QED BY <1>1, Invariant, PTL

\* No step of the builder or of register_group changes a registered group.
THEOREM GroupsAreImmutable == Spec => MembershipImmutable
<1>1. ASSUME IInv, [Next]_vars
      PROVE  [\A g \in Gen : groups[g] # NotBuilt => groups'[g] = groups[g]]_vars
  <2>1. groups \in [Gen -> Seq(Participant)]
    BY <1>1 DEF IInv, TypeOK
  <2>2. ASSUME NEW h \in Gen, Register(h), NEW g \in Gen, groups[g] # NotBuilt
        PROVE  groups'[g] = groups[g]
    <3>1. \/ groups' = groups
          \/ groups[h] = NotBuilt /\ groups' = [groups EXCEPT ![h] = Build(parts', gensGiven)]
      BY <2>2 DEF Register
    <3> QED BY <2>1, <2>2, <3>1
  <2> QED BY <1>1, <2>2 DEF Next, AddParticipant, GiveGenerations, vars
<1> QED BY <1>1, Invariant, PTL DEF Spec, MembershipImmutable

=============================================================================
