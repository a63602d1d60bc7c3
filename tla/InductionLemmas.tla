-------------------------- MODULE InductionLemmas --------------------------
(***************************************************************************)
(* Induction over an interval of the naturals and over the subsets of a    *)
(* finite set, the existence of what is defined by recursion on them, and  *)
(* the folds that do not depend on the order: the facts about orders,      *)
(* readers, encoders, scans and reductions that GroupRegistryProofs,       *)
(* StoreProofs and PipelineProofs rest on.  They are stated for sets and   *)
(* functions, not for operators.                                           *)
(***************************************************************************)
EXTENDS Integers, SequencesExt, FiniteSetTheorems, SequenceTheorems, WellFoundedInduction, TLAPS

\* A set of naturals that is not empty has a least member.
LEMMA Least ==
  ASSUME NEW T \in SUBSET Nat, T # {}
  PROVE  \E m \in T : \A k \in T : m <= k
<1>1. PICK x \in T : \A y \in T : ~ (<<y, x>> \in OpToRel(<, Nat))
  BY WFMin, NatLessThanWellFounded
<1>2. ASSUME NEW y \in T, y < x PROVE FALSE
  <2>1. <<y, x>> \in Nat \X Nat /\ <<y, x>>[1] < <<y, x>>[2]
    BY <1>2
  <2>2. <<y, x>> \in OpToRel(<, Nat)
    BY <2>1, Zenon DEF OpToRel
  <2> QED BY <2>2, <1>1
<1> QED BY <1>2

\* What holds of 0, and of k + 1 whenever of k, holds up to n.
LEMMA UpTo ==
  ASSUME NEW n \in Nat, NEW G, 0 \in G, \A k \in 0 .. n : k < n /\ k \in G => k + 1 \in G
  PROVE  0 .. n \subseteq G
<1> DEFINE Bad == {k \in 0 .. n : k \notin G}
<1> SUFFICES ASSUME Bad # {} PROVE FALSE
  OBVIOUS
<1>1. Bad \in SUBSET Nat
  OBVIOUS
<1> HIDE DEF Bad
<1>2. PICK m \in Bad : \A k \in Bad : m <= k
  BY <1>1, Least
<1>3. m \in 0 .. n /\ m \notin G
  BY DEF Bad
<1>4. m - 1 \in 0 .. n /\ m - 1 < n
  BY <1>3
<1>5. m - 1 \notin Bad
  BY <1>2, <1>3
<1>6. m - 1 \in G
  BY <1>4, <1>5 DEF Bad
<1>7. (m - 1) + 1 \in G
  BY <1>4, <1>6
<1> QED BY <1>3, <1>7

\* How to get from the value at k - 1 to the one at k, for each k up to n.
StepFunctions(n, X) == [1 .. n -> [X -> X]]

Iterates(f, n, X, x, step) ==
  f \in [0 .. n -> X] /\ f[0] = x /\ \A k \in 1 .. n : f[k] = step[k][f[k - 1]]

\* A function that starts at x and goes on as step says exists.
LEMMA Recursion ==
  ASSUME NEW n \in Nat, NEW X, NEW x \in X, NEW step \in StepFunctions(n, X)
  PROVE  \E f : Iterates(f, n, X, x, step)
<1> USE DEF StepFunctions, Iterates
<1> DEFINE Defined(m) == \E f \in [0 .. m -> X] :
                           f[0] = x /\ \A k \in 1 .. m : f[k] = step[k][f[k - 1]]
           G == {m \in 0 .. n : Defined(m)}
<1>1. 0 \in G
  <2> DEFINE f == [k \in 0 .. 0 |-> x]
  <2>1. f \in [0 .. 0 -> X]
    OBVIOUS
  <2>2. f[0] = x
    OBVIOUS
  <2>3. \A k \in 1 .. 0 : f[k] = step[k][f[k - 1]]
    OBVIOUS
  <2> HIDE DEF f
  <2>4. Defined(0)
    BY <2>1, <2>2, <2>3
  <2> QED BY <2>4
<1>2. ASSUME NEW m \in 0 .. n, m < n, m \in G PROVE m + 1 \in G
  <2>1. PICK f \in [0 .. m -> X] : f[0] = x /\ \A k \in 1 .. m : f[k] = step[k][f[k - 1]]
    BY <1>2
  <2>2. m + 1 \in 1 .. n /\ m \in 0 .. m
    BY <1>2
  <2> DEFINE g == [k \in 0 .. m + 1 |-> IF k = m + 1 THEN step[m + 1][f[m]] ELSE f[k]]
  <2>3. g \in [0 .. m + 1 -> X]
    <3>1. step[m + 1][f[m]] \in X
      BY <2>2
    <3>2. \A k \in 0 .. m + 1 : k # m + 1 => k \in 0 .. m
      BY <1>2
    <3> QED BY <3>1, <3>2
  <2>4. g[0] = x
    BY <2>1, <1>2
  <2>5. ASSUME NEW k \in 1 .. m + 1 PROVE g[k] = step[k][g[k - 1]]
    <3>1. CASE k = m + 1
      <4>1. g[k - 1] = f[m] /\ g[k] = step[m + 1][f[m]]
        BY <3>1, <1>2
      <4> QED BY <4>1, <3>1
    <3>2. CASE k # m + 1
      <4>1. k \in 1 .. m /\ g[k] = f[k] /\ g[k - 1] = f[k - 1]
        BY <3>2, <1>2
      <4> QED BY <4>1, <2>1
    <3> QED BY <3>1, <3>2
  <2> HIDE DEF g
  <2>6. Defined(m + 1)
    BY <2>3, <2>4, <2>5
  <2>7. m + 1 \in 0 .. n
    BY <1>2
  <2> QED BY <2>6, <2>7
<1> HIDE DEF G
<1>3. \A k \in 0 .. n : k < n /\ k \in G => k + 1 \in G
  BY <1>2
<1>4. 0 .. n \subseteq G
  BY <1>1, <1>3, UpTo
<1>5. n \in G
  BY <1>4
<1> QED BY <1>5 DEF G

-----------------------------------------------------------------------------
(* Sequences *)

\* One after the other.
LEMMA Joined ==
  ASSUME NEW S, NEW s \in Seq(S), NEW t \in Seq(S)
  PROVE  /\ s \o t \in Seq(S) /\ Len(s \o t) = Len(s) + Len(t)
         /\ \A i \in 1 .. Len(s) : (s \o t)[i] = s[i]
         /\ \A i \in 1 .. Len(t) : (s \o t)[Len(s) + i] = t[i]
<1>1. /\ s \o t \in Seq(S) /\ Len(s \o t) = Len(s) + Len(t)
      /\ \A i \in 1 .. Len(s) + Len(t) : (s \o t)[i] = IF i <= Len(s) THEN s[i] ELSE t[i - Len(s)]
  BY ConcatProperties
<1>2. Len(s) \in Nat /\ Len(t) \in Nat
  BY LenProperties
<1>3. \A i \in 1 .. Len(s) : (s \o t)[i] = s[i]
  BY <1>1, <1>2
<1>4. ASSUME NEW i \in 1 .. Len(t) PROVE (s \o t)[Len(s) + i] = t[i]
  <2>1. Len(s) + i \in 1 .. Len(s) + Len(t) /\ ~ (Len(s) + i <= Len(s)) /\ (Len(s) + i) - Len(s) = i
    BY <1>2
  <2> QED BY <2>1, <1>1
<1> QED BY <1>1, <1>3, <1>4

\* f joins the members of s one after the other.
Joins(f, S, s) ==
  /\ f \in [0 .. Len(s) -> Seq(S)]
  /\ f[0] = <<>>
  /\ \A k \in 1 .. Len(s) : f[k] = f[k - 1] \o s[k]
  /\ FlattenSeq(s) = f[Len(s)]

\* FlattenSeq joins one after the other.
LEMMA Flattened ==
  ASSUME NEW S, NEW s \in Seq(Seq(S))
  PROVE  \E f : Joins(f, S, s)
<1> DEFINE n == Len(s)
           X == Seq(S)
           step == [k \in 1 .. n |-> [r \in X |-> r \o s[k]]]
<1>1. n \in Nat /\ s \in [1 .. n -> X]
  BY LenProperties
<1>2. \A k \in 1 .. n : s[k] \in X
  BY <1>1
<1>3. <<>> \in X /\ \A r \in X, q \in X : r \o q \in X
  BY EmptySeq, ConcatProperties
<1>4. step \in StepFunctions(n, X) /\ \A k \in 1 .. n : \A r \in X : step[k][r] = r \o s[k]
  <2> HIDE DEF n, X
  <2> QED BY <1>2, <1>3 DEF StepFunctions
<1> HIDE DEF step
<1>5. PICK g : Iterates(g, n, X, <<>>, step)
  <2> HIDE DEF n, X
  <2> QED BY <1>1, <1>3, <1>4, Recursion
<1>6. /\ g \in [0 .. n -> X] /\ g[0] = <<>>
      /\ \A k \in 1 .. n : g[k] = g[k - 1] \o s[k]
  <2> HIDE DEF n, X
  <2>1. g \in [0 .. n -> X] /\ g[0] = <<>> /\ \A k \in 1 .. n : g[k] = step[k][g[k - 1]]
    BY <1>5 DEF Iterates
  <2>2. \A k \in 1 .. n : k - 1 \in 0 .. n
    BY <1>1
  <2> QED BY <2>1, <2>2, <1>4
<1>7. FlattenSeq(s) = g[n]
  <2>1. CASE n = 0
    <3>1. s = <<>>
      BY <2>1, EmptySeq
    <3>2. FlattenSeq(s) = s
      BY <2>1 DEF FlattenSeq
    <3> QED BY <3>1, <3>2, <2>1, <1>6
  <2>2. CASE n # 0
    <3> DEFINE Body(f, k) == IF k = 1 THEN s[k] ELSE f[k - 1] \o s[k]
               F == CHOOSE f : f = [k \in 1 .. n |-> Body(f, k)]
               h == [k \in 1 .. n |-> g[k]]
    <3>1. FlattenSeq(s) = F[n]
      BY <2>2 DEF FlattenSeq
    <3>2. g[1] = s[1]
      <4>1. 1 \in 1 .. n
        BY <2>2, <1>1
      <4>2. g[1] = g[1 - 1] \o s[1] /\ 1 - 1 = 0
        <5> HIDE DEF n, X
        <5>1. \A k \in 1 .. n : g[k] = g[k - 1] \o s[k]
          BY <1>6

        <5>3. g[1] = g[1 - 1] \o s[1]
          BY <4>1, <5>1, Zenon
        <5>4. 1 - 1 = 0
          OBVIOUS
        <5> QED BY <5>3, <5>4, Zenon
      <4>3. <<>> \o s[1] = s[1]
        BY <4>1, <1>2, ConcatEmptySeq
      <4> QED BY <4>2, <4>3, <1>6
    <3>3. \A k \in 1 .. n : h[k] = Body(h, k)
      <4> HIDE DEF n, X
      <4> TAKE k \in 1 .. n
      <4>1. CASE k = 1
        BY <4>1, <3>2, <1>1
      <4>2. CASE k # 1
        <5>1. k - 1 \in 1 .. n
          BY <4>2, <1>1
        <5>2. h[k - 1] = g[k - 1] /\ h[k] = g[k - 1] \o s[k]
          BY <5>1, <1>6
        <5> QED BY <5>2, <4>2
      <4> QED BY <4>1, <4>2
    <3>4. h = [k \in 1 .. n |-> Body(h, k)]
      <4> HIDE DEF Body, n, X
      <4> QED BY <3>3
    <3>5. F = [k \in 1 .. n |-> Body(F, k)]
      <4> HIDE DEF Body, n, X, h
      <4> QED BY <3>4
    <3> HIDE DEF F
    <3> DEFINE G == {k \in 0 .. n : k = 0 \/ F[k] = g[k]}
    <3> HIDE DEF n, X
    <3>6. ASSUME NEW k \in 0 .. n, k < n, k \in G PROVE k + 1 \in G
      <4>1. k + 1 \in 1 .. n /\ (k + 1) - 1 = k /\ k + 1 \in 0 .. n
        BY <3>6, <1>1
      <4>2. CASE k = 0
        BY <4>1, <4>2, <3>2, <3>5
      <4>3. CASE k # 0
        <5>1. F[k + 1] = F[k] \o s[k + 1]
          <6>1. F[k + 1] = Body(F, k + 1)
            BY <4>1, <3>5
          <6>2. k + 1 # 1
            BY <4>3
          <6>3. Body(F, k + 1) = F[(k + 1) - 1] \o s[k + 1]
            BY <6>2
          <6> QED BY <6>1, <6>3, <4>1
        <5>2. F[k] = g[k]
          BY <3>6, <4>3
        <5>3. g[k + 1] = g[k] \o s[k + 1]
          BY <4>1, <1>6
        <5> QED BY <5>1, <5>2, <5>3, <4>1
      <4> QED BY <4>2, <4>3
    <3>7. 0 \in G /\ \A k \in 0 .. n : k < n /\ k \in G => k + 1 \in G
      BY <3>6, <1>1
    <3>8. n \in G
      <4> HIDE DEF G
      <4>1. 0 .. n \subseteq G
        BY <3>7, <1>1, UpTo
      <4> QED BY <4>1, <1>1
    <3> QED BY <3>1, <3>8, <2>2
  <2> QED BY <2>1, <2>2
<1> QED BY <1>6, <1>7 DEF Joins

-----------------------------------------------------------------------------
(* Folds of finite sets *)

\* What holds of a set whenever of its proper subsets, holds of every subset
\* of a finite set.
LEMMA SubsetInduction ==
  ASSUME NEW D, IsFiniteSet(D), NEW G,
         \A s \in SUBSET D : (\A t \in SUBSET s : t # s => t \in G) => s \in G
  PROVE  SUBSET D \subseteq G
<1> DEFINE Bad == {s \in SUBSET D : s \notin G}
           T == {Cardinality(s) : s \in Bad}
<1> SUFFICES ASSUME Bad # {} PROVE FALSE
  OBVIOUS
<1>1. \A s \in SUBSET D : IsFiniteSet(s) /\ Cardinality(s) \in Nat
  BY FS_Subset, FS_CardinalityType
<1>2. T \in SUBSET Nat /\ T # {}
  BY <1>1
<1> HIDE DEF T
<1>3. PICK m \in T : \A k \in T : m <= k
  BY <1>2, Least
<1>4. PICK s \in Bad : m = Cardinality(s)
  BY <1>3 DEF T
<1>5. ASSUME NEW t \in SUBSET s, t # s PROVE t \in G
  <2>1. /\ Cardinality(t) <= Cardinality(s) /\ Cardinality(t) # Cardinality(s)
        /\ t \in SUBSET D /\ Cardinality(t) \in Nat /\ Cardinality(s) \in Nat
    BY <1>1, <1>5, FS_Subset
  <2>2. Cardinality(t) \notin T
    BY <2>1, <1>2, <1>3, <1>4
  <2> QED BY <2>1, <2>2 DEF T
<1>6. s \in SUBSET D /\ s \notin G
  OBVIOUS
<1> QED BY <1>5, <1>6

\* A choice of a member from every set that has one.
ChoicesFrom(D) == {c \in [(SUBSET D) \ {{}} -> D] : \A s \in (SUBSET D) \ {{}} : c[s] \in s}

\* What each member of D does to a value of X.
FoldSteps(D, X) == [D -> [X -> X]]

\* g folds the subsets of D, from x, by the steps in the order of the choice c.
SetFold(g, D, X, x, step, c) ==
  /\ g \in [SUBSET D -> X]
  /\ \A s \in SUBSET D : g[s] = IF s = {} THEN x ELSE step[c[s]][g[s \ {c[s]}]]

\* Such a fold exists.
LEMMA SetRecursion ==
  ASSUME NEW D, IsFiniteSet(D), NEW X, NEW x \in X, NEW step \in FoldSteps(D, X),
         NEW c \in ChoicesFrom(D)
  PROVE  \E g : SetFold(g, D, X, x, step, c)
<1> USE DEF FoldSteps
<1> DEFINE Y == [SUBSET D -> X]
           Next(g) == [s \in SUBSET D |-> IF s = {} THEN x ELSE step[c[s]][g[s \ {c[s]}]]]
           n == Cardinality(D)
           start == [s \in SUBSET D |-> x]
           steps == [k \in 1 .. n + 1 |-> [g \in Y |-> Next(g)]]
<1>1. n \in Nat /\ n + 1 \in Nat
  BY FS_CardinalityType
<1>2. \A s \in (SUBSET D) \ {{}} : c[s] \in s /\ c[s] \in D
  BY DEF ChoicesFrom
<1>3. ASSUME NEW g \in Y PROVE Next(g) \in Y
  <2>1. ASSUME NEW s \in SUBSET D PROVE (IF s = {} THEN x ELSE step[c[s]][g[s \ {c[s]}]]) \in X
    <3>1. CASE s = {}
      BY <3>1
    <3>2. CASE s # {}
      <4>1. c[s] \in D /\ g[s \ {c[s]}] \in X
        BY <3>2, <1>2
      <4>2. step[c[s]] \in [X -> X]
        BY <4>1
      <4> QED BY <4>1, <4>2, <3>2
    <3> QED BY <3>1, <3>2
  <2> QED BY <2>1
<1>4. start \in Y
  OBVIOUS
<1>5. steps \in StepFunctions(n + 1, Y)
  <2> HIDE DEF Y, Next, n
  <2> QED BY <1>3 DEF StepFunctions
<1>6. PICK f : Iterates(f, n + 1, Y, start, steps)
  <2> HIDE DEF Y, Next, n, start, steps
  <2> QED BY <1>1, <1>4, <1>5, Recursion
<1>7. /\ \A k \in 0 .. n + 1 : f[k] \in Y
      /\ f[0] = start
      /\ \A k \in 1 .. n + 1 : f[k] = Next(f[k - 1])
  <2> HIDE DEF Y, Next, n, start
  <2>1. f \in [0 .. n + 1 -> Y] /\ f[0] = start
        /\ \A k \in 1 .. n + 1 : f[k] = steps[k][f[k - 1]]
    <3> HIDE DEF steps
    <3> QED BY <1>6 DEF Iterates
  <2>2. \A k \in 1 .. n + 1 : k - 1 \in 0 .. n + 1
    BY <1>1
  <2> QED BY <2>1, <2>2
<1> HIDE DEF n, steps, Y
<1>8. ASSUME NEW k \in 1 .. n + 1, NEW s \in SUBSET D
      PROVE  f[k][s] = IF s = {} THEN x ELSE step[c[s]][f[k - 1][s \ {c[s]}]]
  <2>1. f[k] = Next(f[k - 1])
    BY <1>7
  <2> QED BY <2>1
<1>9. \A k \in 0 .. n + 1 : f[k][{}] = x
  <2>1. ASSUME NEW k \in 0 .. n + 1 PROVE f[k][{}] = x
    <3>1. CASE k = 0
      BY <3>1, <1>7
    <3>2. CASE k # 0
      <4>1. k \in 1 .. n + 1
        BY <3>2, <1>1
      <4> QED BY <4>1, <1>8
    <3> QED BY <3>1, <3>2
  <2> QED BY <2>1
<1> HIDE DEF Next, start
<1> DEFINE Stable(k) == \A s \in SUBSET D : Cardinality(s) <= k => f[k + 1][s] = f[k][s]
           G == {k \in 0 .. n : Stable(k)}
<1>10. \A s \in SUBSET D : IsFiniteSet(s) /\ Cardinality(s) \in Nat /\ Cardinality(s) <= n
  BY FS_Subset, FS_CardinalityType DEF n
<1>11. 0 \in G
  <2>1. ASSUME NEW s \in SUBSET D, Cardinality(s) <= 0 PROVE f[0 + 1][s] = f[0][s]
    <3>1. Cardinality(s) = 0
      BY <1>10, <2>1
    <3>2. s = {}
      BY <3>1, <1>10, FS_EmptySet
    <3>3. 0 \in 0 .. n + 1 /\ 0 + 1 \in 0 .. n + 1
      BY <1>1
    <3> QED BY <3>2, <3>3, <1>9
  <2> QED BY <2>1, <1>1
<1>12. ASSUME NEW k \in 0 .. n, k < n, k \in G PROVE k + 1 \in G
  <2>1. /\ k + 1 \in 0 .. n /\ (k + 1) + 1 \in 1 .. n + 1 /\ k + 1 \in 1 .. n + 1
        /\ ((k + 1) + 1) - 1 = k + 1 /\ (k + 1) - 1 = k
        /\ k + 1 \in 0 .. n + 1 /\ (k + 1) + 1 \in 0 .. n + 1
    BY <1>1, <1>12
  <2>2. ASSUME NEW s \in SUBSET D, Cardinality(s) <= k + 1
        PROVE f[(k + 1) + 1][s] = f[k + 1][s]
    <3>1. CASE s = {}
      BY <3>1, <2>1, <1>9
    <3>2. CASE s # {}
      <4> DEFINE r == s \ {c[s]}
      <4>1. f[(k + 1) + 1][s] = step[c[s]][f[k + 1][r]] /\ f[k + 1][s] = step[c[s]][f[k][r]]
        <5>1. f[(k + 1) + 1][s] = step[c[s]][f[((k + 1) + 1) - 1][r]]
          BY <2>1, <3>2, <1>8
        <5>2. f[k + 1][s] = step[c[s]][f[(k + 1) - 1][r]]
          BY <2>1, <3>2, <1>8
        <5> QED BY <5>1, <5>2, <2>1
      <4>2. c[s] \in s /\ r \in SUBSET D
        BY <3>2, <1>2
      <4>3. Cardinality(r) = Cardinality(s) - 1
        BY <4>2, <1>10, FS_RemoveElement
      <4>4. Cardinality(r) <= k
        BY <4>2, <4>3, <2>2, <1>10, <1>12
      <4>5. f[k + 1][r] = f[k][r]
        BY <4>2, <4>4, <1>12
      <4> QED BY <4>1, <4>5
    <3> QED BY <3>1, <3>2
  <2> QED BY <2>1, <2>2
<1>13. n \in G
  <2> HIDE DEF G
  <2>1. \A k \in 0 .. n : k < n /\ k \in G => k + 1 \in G
    BY <1>12
  <2>2. 0 .. n \subseteq G
    BY <2>1, <1>1, <1>11, UpTo
  <2> QED BY <2>2, <1>1
<1>14. ASSUME NEW s \in SUBSET D
       PROVE  f[n][s] = IF s = {} THEN x ELSE step[c[s]][f[n][s \ {c[s]}]]
  <2>1. f[n + 1][s] = f[n][s]
    BY <1>10, <1>13
  <2>2. n + 1 \in 1 .. n + 1 /\ (n + 1) - 1 = n
    BY <1>1
  <2> QED BY <2>1, <2>2, <1>8
<1>15. f[n] \in [SUBSET D -> X]
  <2>1. n \in 0 .. n + 1
    BY <1>1
  <2> QED BY <2>1, <1>7 DEF Y
<1>16. SetFold(f[n], D, X, x, step, c)
  BY <1>14, <1>15 DEF SetFold
<1> QED BY <1>16

Commute(D, X, step) ==
  \A i, j \in D, v \in X : step[i][step[j][v]] = step[j][step[i][v]]

\* The fold of a set starts with any of its members.
StartsAnywhere(g, D, step) == \A s \in SUBSET D : \A i \in s : g[s] = step[i][g[s \ {i}]]

\* Where the steps commute, a member can be taken out of the set in any order.
LEMMA AnyOrder ==
  ASSUME NEW D, IsFiniteSet(D), NEW X, NEW x \in X, NEW step \in FoldSteps(D, X),
         NEW c \in ChoicesFrom(D), NEW g, SetFold(g, D, X, x, step, c),
         Commute(D, X, step)
  PROVE  StartsAnywhere(g, D, step)
<1> DEFINE G == {s \in SUBSET D : \A i \in s : g[s] = step[i][g[s \ {i}]]}
<1>1. \A s \in SUBSET D : s # {} => c[s] \in s /\ g[s] = step[c[s]][g[s \ {c[s]}]]
  BY DEF SetFold, ChoicesFrom
<1>2. ASSUME NEW s \in SUBSET D, \A t \in SUBSET s : t # s => t \in G PROVE s \in G
  <2>1. ASSUME NEW i \in s PROVE g[s] = step[i][g[s \ {i}]]
    <3> DEFINE j == c[s]
               r == (s \ {i}) \ {j}
    <3>1. j \in s /\ g[s] = step[j][g[s \ {j}]]
      BY <1>1
    <3> HIDE DEF j
    <3>2. CASE i = j
      BY <3>1, <3>2
    <3>3. CASE i # j
      <4>1. s \ {i} \in G /\ s \ {j} \in G /\ j \in s \ {i} /\ i \in s \ {j}
        BY <3>1, <3>3, <1>2
      <4>2. g[s \ {i}] = step[j][g[r]]
        BY <4>1
      <4>3. (s \ {j}) \ {i} = r
        OBVIOUS
      <4>4. g[s \ {j}] = step[i][g[r]]
        BY <4>1, <4>3
      <4>5. g[r] \in X /\ i \in D /\ j \in D
        BY <3>1 DEF SetFold
      <4> HIDE DEF r
      <4>6. step[j][step[i][g[r]]] = step[i][step[j][g[r]]]
        BY <4>5 DEF Commute
      <4> QED BY <3>1, <4>2, <4>4, <4>6
    <3> QED BY <3>2, <3>3
  <2> QED BY <2>1
<1> HIDE DEF G
<1>3. SUBSET D \subseteq G
  BY <1>2, SubsetInduction
<1> QED BY <1>3 DEF G, StartsAnywhere
\* F is a function that goes on as the fold does, as long as it stays in X.
GoesOn(F, D, X, x, step, c) ==
  /\ F = [s \in SUBSET D |-> F[s]] /\ F[{}] = x
  /\ \A s \in (SUBSET D) \ {{}} :
       F[s \ {c[s]}] \in X => F[s] = step[c[s]][F[s \ {c[s]}]]

\* A function that goes on as the fold does, as long as it stays in X, is the
\* fold.
LEMMA ThatFold ==
  ASSUME NEW D, IsFiniteSet(D), NEW X, NEW x \in X, NEW step \in FoldSteps(D, X),
         NEW c \in ChoicesFrom(D), NEW F, GoesOn(F, D, X, x, step, c)
  PROVE  SetFold(F, D, X, x, step, c)
<1> DEFINE G == {s \in SUBSET D : F[s] \in X}
<1>1. \A s \in (SUBSET D) \ {{}} : c[s] \in s
  BY DEF ChoicesFrom
<1>7. /\ F[{}] = x
      /\ \A s \in (SUBSET D) \ {{}} :
           F[s \ {c[s]}] \in X => F[s] = step[c[s]][F[s \ {c[s]}]]
  BY DEF GoesOn
<1>2. ASSUME NEW s \in SUBSET D, \A t \in SUBSET s : t # s => t \in G PROVE s \in G
  <2>1. CASE s = {}
    BY <2>1, <1>7
  <2>2. CASE s # {}
    <3>1. c[s] \in D /\ s \ {c[s]} \in G
      BY <1>1, <1>2, <2>2
    <3>2. F[s] = step[c[s]][F[s \ {c[s]}]] /\ F[s \ {c[s]}] \in X
      <4>1. F[s \ {c[s]}] \in X
        BY <3>1
      <4> QED BY <2>2, <4>1, <1>7
    <3>3. step[c[s]] \in [X -> X]
      BY <3>1 DEF FoldSteps
    <3>4. F[s] \in X
      BY <3>2, <3>3
    <3> QED BY <3>4
  <2> QED BY <2>1, <2>2
<1> HIDE DEF G
<1>3. SUBSET D \subseteq G
  BY <1>2, SubsetInduction
<1>4. \A s \in SUBSET D : F[s] \in X
  BY <1>3 DEF G
<1>5. F \in [SUBSET D -> X]
  BY <1>4 DEF GoesOn
<1>6. ASSUME NEW s \in SUBSET D
      PROVE  F[s] = IF s = {} THEN x ELSE step[c[s]][F[s \ {c[s]}]]
  <2>1. CASE s = {}
    BY <2>1, <1>7
  <2>2. CASE s # {}
    <3>1. F[s \ {c[s]}] \in X
      BY <1>4
    <3> QED BY <3>1, <2>2, <1>7
  <2> QED BY <2>1, <2>2
<1> QED BY <1>5, <1>6 DEF SetFold

\* The fold of 1 .. k starts with k.
StartsLast(g, n, step) == \A k \in 1 .. n : g[1 .. k] = step[k][g[(1 .. k) \ {k}]]

\* A fold of 1 .. n that takes the last member first goes from the first to the
\* last.
LEMMA InOrder ==
  ASSUME NEW n \in Nat, NEW X, NEW x \in X, NEW step \in StepFunctions(n, X),
         NEW c, NEW g, NEW D, D = 1 .. n, SetFold(g, D, X, x, step, c), StartsLast(g, n, step)
  PROVE  \E f : Iterates(f, n, X, x, step) /\ f[n] = g[D]
<1> DEFINE f == [k \in 0 .. n |-> g[1 .. k]]
<1>1. \A k \in 0 .. n : 1 .. k \in SUBSET (1 .. n)
  OBVIOUS
<1>2. f \in [0 .. n -> X]
  BY <1>1 DEF SetFold
<1>3. f[0] = x
  <2>1. 1 .. 0 = {} /\ f[0] = g[1 .. 0]
    OBVIOUS
  <2>2. g[{}] = x
    BY DEF SetFold
  <2> QED BY <2>1, <2>2
<1>4. ASSUME NEW k \in 1 .. n PROVE f[k] = step[k][f[k - 1]]
  <2>1. (1 .. k) \ {k} = 1 .. k - 1
    OBVIOUS
  <2>2. k \in 0 .. n /\ k - 1 \in 0 .. n
    OBVIOUS
  <2> QED BY <2>1, <2>2 DEF StartsLast
<1>5. f[n] = g[D]
  OBVIOUS
<1> HIDE DEF f
<1> QED BY <1>2, <1>3, <1>4, <1>5 DEF Iterates

\* Where the steps commute, a function that takes the members of 1 .. n in any
\* order gets where it gets from the first to the last.
LEMMA OrderDoesNotMatter ==
  ASSUME NEW n \in Nat, NEW D, D = 1 .. n,
         NEW X, NEW x \in X, NEW step \in FoldSteps(D, X), NEW c \in ChoicesFrom(D),
         Commute(D, X, step), NEW F, GoesOn(F, D, X, x, step, c)
  PROVE  \E f : Iterates(f, n, X, x, step) /\ f[n] = F[D]
<1>1. IsFiniteSet(D)
  BY FS_Interval
<1>2. SetFold(F, D, X, x, step, c)
  BY <1>1, ThatFold
<1>3. StartsAnywhere(F, D, step)
  BY <1>1, <1>2, AnyOrder
<1>4. ASSUME NEW k \in 1 .. n PROVE F[1 .. k] = step[k][F[(1 .. k) \ {k}]]
  <2>1. 1 .. k \in SUBSET D /\ k \in 1 .. k
    OBVIOUS
  <2> QED BY <2>1, <1>3 DEF StartsAnywhere
<1>5. step \in StepFunctions(n, X)
  BY DEF StepFunctions, FoldSteps
<1>6. StartsLast(F, n, step)
  BY <1>4 DEF StartsLast
<1> QED BY <1>2, <1>5, <1>6, InOrder

=============================================================================
