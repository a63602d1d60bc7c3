---------------------------- MODULE StoreProofs ----------------------------
(***************************************************************************)
(* Theorems about module Store, for any states that the runtime exports,   *)
(* of any size, and a process and a power supply that may fail anywhere.   *)
(*                                                                         *)
(* That a save is atomic rests on two things: on which contents of which   *)
(* file the steps of save leave (the inductive invariant), and on decode   *)
(* being the inverse of encode (RoundTrip).  The latter is an induction    *)
(* over the groups, participants and measurements of a state, for which    *)
(* the recursive functions of the model are first shown to exist            *)
(* (InductionLemmas).                                                      *)
(***************************************************************************)
EXTENDS Store, InductionLemmas, SequenceTheorems, TLAPS

-----------------------------------------------------------------------------
(* Sequences *)

\* From pos on t holds s.
Holds(t, pos, s) == pos + Len(s) <= Len(t) + 1 /\ \A i \in 1 .. Len(s) : t[(pos - 1) + i] = s[i]

LEMMA HoldsParts ==
  ASSUME NEW S, NEW t \in Seq(S), NEW a \in Seq(S), NEW b \in Seq(S), NEW pos \in Nat, pos > 0,
         Holds(t, pos, a \o b)
  PROVE  Holds(t, pos, a) /\ Holds(t, pos + Len(a), b)
<1>1. Len(a) \in Nat /\ Len(b) \in Nat /\ Len(t) \in Nat
  BY LenProperties
<1>2. /\ Len(a \o b) = Len(a) + Len(b)
      /\ \A i \in 1 .. Len(a) : (a \o b)[i] = a[i]
      /\ \A i \in 1 .. Len(b) : (a \o b)[Len(a) + i] = b[i]
  BY Joined
<1>3. Holds(t, pos, a)
  <2>1. \A i \in 1 .. Len(a) : i \in 1 .. Len(a \o b)
    BY <1>1, <1>2
  <2>2. pos + Len(a) <= Len(t) + 1
    BY <1>1, <1>2 DEF Holds
  <2> QED BY <2>1, <2>2, <1>2 DEF Holds
<1>4. ASSUME NEW i \in 1 .. Len(b) PROVE t[((pos + Len(a)) - 1) + i] = b[i]
  <2>1. Len(a) + i \in 1 .. Len(a \o b) /\ (pos - 1) + (Len(a) + i) = ((pos + Len(a)) - 1) + i
    BY <1>1, <1>2
  <2>2. t[(pos - 1) + (Len(a) + i)] = (a \o b)[Len(a) + i]
    BY <2>1 DEF Holds
  <2> QED BY <2>1, <2>2, <1>2
<1>5. (pos + Len(a)) + Len(b) <= Len(t) + 1
  BY <1>1, <1>2 DEF Holds
<1> QED BY <1>3, <1>4, <1>5 DEF Holds

-----------------------------------------------------------------------------
(* Reading items one after the other *)

Places == Nat \ {0}   \* places in a payload

\* What a reader of a T returns.
Results(T) == {Failed} \cup [ok : {TRUE}, pos : Places, value : T]

LEMMA ResultFields ==
  ASSUME NEW T, NEW r \in Results(T)
  PROVE  /\ r.ok \in BOOLEAN
         /\ r.ok => r.pos \in Places /\ r.value \in T /\ r = [ok |-> TRUE, pos |-> r.pos, value |-> r.value]
         /\ ~ r.ok => r = Failed
<1>1. CASE r = Failed
  BY <1>1 DEF Failed
<1>2. CASE r \in [ok : {TRUE}, pos : Places, value : T]
  BY <1>2
<1> QED BY <1>1, <1>2 DEF Results

\* The result after one more item.
Next1(item, prev) ==
  LET next == IF prev.ok THEN item[prev.pos] ELSE Failed
  IN IF next.ok
     THEN [ok |-> TRUE, pos |-> next.pos, value |-> Append(prev.value, next.value)]
     ELSE Failed

LEMMA Next1Result ==
  ASSUME NEW T, NEW item \in [Places -> Results(T)], NEW prev \in Results(Seq(T))
  PROVE  Next1(item, prev) \in Results(Seq(T))
<1>1. Failed \in Results(Seq(T)) /\ Failed.ok = FALSE
  BY DEF Results, Failed
<1>2. CASE ~ prev.ok
  BY <1>1, <1>2 DEF Next1
<1>3. CASE prev.ok
  <2>1. prev.pos \in Places /\ prev.value \in Seq(T)
    BY <1>3, ResultFields
  <2>2. item[prev.pos] \in Results(T)
    BY <2>1
  <2> DEFINE r == item[prev.pos]
  <2>3. CASE ~ r.ok
    BY <1>1, <1>3, <2>3 DEF Next1
  <2>4. CASE r.ok
    <3>1. r.pos \in Places /\ r.value \in T
      BY <2>2, <2>4, ResultFields
    <3>2. Append(prev.value, r.value) \in Seq(T)
      BY <2>1, <3>1, AppendProperties
    <3>3. Next1(item, prev) = [ok |-> TRUE, pos |-> r.pos, value |-> Append(prev.value, r.value)]
      BY <1>3, <2>4 DEF Next1
    <3> QED BY <3>1, <3>2, <3>3 DEF Results
  <2> QED BY <2>3, <2>4
<1> QED BY <1>2, <1>3

\* ReadItems is the last of the results after 0, 1, ... n items.
Readers(T) == [Places -> Results(T)]

ReadBy(f, T, start, n, item) ==
  /\ f \in [0 .. n -> Results(Seq(T))]
  /\ f[0] = [ok |-> TRUE, pos |-> start, value |-> <<>>]
  /\ \A k \in 1 .. n : f[k] = Next1(item, f[k - 1])
  /\ ReadItems(start, n, item) = f[n]

LEMMA ItemByItem ==
  ASSUME NEW T, NEW start \in Places, NEW n \in Nat, NEW item \in Readers(T)
  PROVE  \E f : ReadBy(f, T, start, n, item)
<1> USE DEF Readers
<1> DEFINE X == Results(Seq(T))
           x == [ok |-> TRUE, pos |-> start, value |-> <<>>]
           step == [k \in 1 .. n |-> [r \in X |-> Next1(item, r)]]
           Body(f, k) == IF k = 0 THEN x ELSE Next1(item, f[k - 1])
           F == CHOOSE f : f = [k \in 0 .. n |-> Body(f, k)]
<1>1. x \in X
  BY EmptySeq DEF Results
<1>2. \A r \in X : Next1(item, r) \in X
  BY Next1Result
<1> HIDE DEF X, x
<1>3. step \in StepFunctions(n, X)
  BY <1>2 DEF StepFunctions
<1>4. \A k \in 1 .. n : \A r \in X : step[k][r] = Next1(item, r)
  OBVIOUS
<1> HIDE DEF step
<1>5. PICK g : Iterates(g, n, X, x, step)
  BY <1>1, <1>3, Recursion
<1>14. g \in [0 .. n -> X] /\ g[0] = x /\ \A k \in 1 .. n : g[k] = step[k][g[k - 1]]
  BY <1>5 DEF Iterates
<1>6. \A k \in 0 .. n : g[k] = Body(g, k)
  <2> TAKE k \in 0 .. n
  <2>1. CASE k = 0
    BY <2>1, <1>14
  <2>2. CASE k # 0
    <3>1. k \in 1 .. n /\ k - 1 \in 0 .. n
      BY <2>2
    <3>2. g[k - 1] \in X
      BY <3>1, <1>14
    <3>3. g[k] = step[k][g[k - 1]]
      BY <3>1, <1>14
    <3>4. step[k][g[k - 1]] = Next1(item, g[k - 1])
      BY <3>1, <3>2, <1>4
    <3> QED BY <3>3, <3>4, <2>2
  <2> QED BY <2>1, <2>2
<1>7. g = [k \in 0 .. n |-> Body(g, k)]
  <2> HIDE DEF Body
  <2> QED BY <1>6, <1>14
<1>8. F = [k \in 0 .. n |-> Body(F, k)]
  BY <1>7
<1>9. ReadItems(start, n, item) = F[n]
  BY DEF ReadItems, Next1, x
<1> HIDE DEF F
<1>10. F[0] = x
  BY <1>8
<1>11. \A k \in 1 .. n : F[k] = Next1(item, F[k - 1])
  BY <1>8
<1> DEFINE G == {k \in 0 .. n : F[k] \in X}
<1>12. 0 .. n \subseteq G
  <2>1. 0 \in G
    BY <1>1, <1>10
  <2>2. \A k \in 0 .. n : k < n /\ k \in G => k + 1 \in G
    <3> SUFFICES ASSUME NEW k \in 0 .. n, k < n, k \in G PROVE k + 1 \in G
      OBVIOUS
    <3>1. k + 1 \in 1 .. n /\ (k + 1) - 1 = k
      OBVIOUS
    <3>2. F[k + 1] = Next1(item, F[k])
      BY <3>1, <1>11
    <3>3. F[k + 1] \in X
      BY <3>2, <1>2
    <3> QED BY <3>1, <3>3
  <2> HIDE DEF G
  <2> QED BY <2>1, <2>2, UpTo
<1>13. F \in [0 .. n -> X]
  BY <1>8, <1>12
<1> QED BY <1>9, <1>10, <1>11, <1>13 DEF X, x, ReadBy

\* Items that lie one after the other, ends[k] being where the k-th ends, are
\* all read.
LEMMA ReadItemsBack ==
  ASSUME NEW T, NEW s \in Seq(T), NEW item \in Readers(T),
         NEW ends \in [0 .. Len(s) -> Places],
         \A k \in 1 .. Len(s) :
           item[ends[k - 1]] = [ok |-> TRUE, pos |-> ends[k], value |-> s[k]]
  PROVE  ReadItems(ends[0], Len(s), item) = [ok |-> TRUE, pos |-> ends[Len(s)], value |-> s]
<1> DEFINE n == Len(s)
<1>1. n \in Nat /\ s \in [1 .. n -> T]
  BY LenProperties
<1> HIDE DEF n
<1>2. ends[0] \in Places
  BY <1>1 DEF n
<1>25. PICK f : ReadBy(f, T, ends[0], n, item)
  BY <1>1, <1>2, ItemByItem
<1>3. /\ f \in [0 .. n -> Results(Seq(T))]
      /\ f[0] = [ok |-> TRUE, pos |-> ends[0], value |-> <<>>]
      /\ \A k \in 1 .. n : f[k] = Next1(item, f[k - 1])
      /\ ReadItems(ends[0], n, item) = f[n]
  BY <1>25 DEF ReadBy
<1> DEFINE Good(k) == /\ f[k].ok /\ f[k].pos = ends[k] /\ Len(f[k].value) = k
                      /\ \A i \in 1 .. k : f[k].value[i] = s[i]
           G == {k \in 0 .. n : Good(k)}
<1>4. 0 \in G
  BY <1>1, <1>3, EmptySeq
<1>5. ASSUME NEW k \in 0 .. n, k < n, k \in G PROVE k + 1 \in G
  <2>1. k + 1 \in 1 .. n /\ (k + 1) - 1 = k /\ k + 1 \in 0 .. n
    BY <1>1, <1>5
  <2>2. Good(k)
    BY <1>5
  <2>3. item[ends[k]] = [ok |-> TRUE, pos |-> ends[k + 1], value |-> s[k + 1]]
    BY <2>1 DEF n
  <2>4. f[k] \in Results(Seq(T))
    BY <1>3
  <2>5. f[k].value \in Seq(T) /\ s[k + 1] \in T
    BY <2>1, <2>2, <2>4, <1>1, ResultFields
  <2>6. f[k + 1] = [ok |-> TRUE, pos |-> ends[k + 1], value |-> Append(f[k].value, s[k + 1])]
    <3>1. f[k + 1] = Next1(item, f[k])
      BY <2>1, <1>3
    <3>2. f[k].ok /\ item[f[k].pos] = [ok |-> TRUE, pos |-> ends[k + 1], value |-> s[k + 1]]
      BY <2>2, <2>3
    <3> HIDE DEF Good
    <3> QED BY <3>1, <3>2 DEF Next1
  <2>7. /\ Len(Append(f[k].value, s[k + 1])) = k + 1
        /\ \A i \in 1 .. k : Append(f[k].value, s[k + 1])[i] = f[k].value[i]
        /\ Append(f[k].value, s[k + 1])[k + 1] = s[k + 1]
    BY <2>2, <2>5, AppendProperties
  <2>8. \A i \in 1 .. k + 1 : i \in 1 .. k \/ i = k + 1
    BY <2>1
  <2>9. Good(k + 1)
    <3>1. \A i \in 1 .. k + 1 : Append(f[k].value, s[k + 1])[i] = s[i]
      BY <2>2, <2>7, <2>8
    <3> QED BY <3>1, <2>6, <2>7
  <2> QED BY <2>1, <2>9
<1>6. n \in G
  <2> HIDE DEF G
  <2>1. \A k \in 0 .. n : k < n /\ k \in G => k + 1 \in G
    BY <1>5
  <2>2. 0 .. n \subseteq G
    BY <1>1, <1>4, <2>1, UpTo
  <2> QED BY <2>2, <1>1
<1>7. Good(n)
  BY <1>6
<1>8. f[n] \in Results(Seq(T))
  BY <1>1, <1>3
<1>9. /\ f[n].value \in Seq(T)
      /\ f[n] = [ok |-> TRUE, pos |-> f[n].pos, value |-> f[n].value]
  BY <1>7, <1>8, ResultFields
<1>10. f[n].value = s
  BY <1>7, <1>9, SeqEqual DEF n
<1> QED BY <1>3, <1>7, <1>9, <1>10 DEF n

-----------------------------------------------------------------------------
(* Sequences of sequences *)

\* The places ends[0], ends[1], ... where the members of s lie in t.
Laid(ends, t, pos, s) ==
  /\ ends \in [0 .. Len(s) -> Places]
  /\ ends[0] = pos /\ ends[Len(s)] = pos + Len(FlattenSeq(s))
  /\ \A k \in 1 .. Len(s) : /\ ends[k] = ends[k - 1] + Len(s[k])
                            /\ Holds(t, ends[k - 1], s[k])

LEMMA FlattenedParts ==
  ASSUME NEW S, NEW s \in Seq(Seq(S)), NEW t \in Seq(S), NEW pos \in Nat, pos > 0,
         Holds(t, pos, FlattenSeq(s))
  PROVE  \E ends : Laid(ends, t, pos, s)
<1>1. PICK f : Joins(f, S, s)
  BY Flattened
<1> DEFINE n == Len(s)
<1>2. n \in Nat /\ \A k \in 1 .. n : s[k] \in Seq(S)
  BY LenProperties
<1>3. /\ f \in [0 .. n -> Seq(S)] /\ f[0] = <<>> /\ FlattenSeq(s) = f[n]
      /\ \A k \in 1 .. n : f[k] = f[k - 1] \o s[k]
  BY <1>1 DEF Joins
<1> HIDE DEF n
<1>4. \A k \in 0 .. n : f[k] \in Seq(S) /\ Len(f[k]) \in Nat
  BY <1>3, LenProperties
<1>5. ASSUME NEW k \in 1 .. n, Holds(t, pos, f[k])
      PROVE  /\ Holds(t, pos, f[k - 1]) /\ Holds(t, pos + Len(f[k - 1]), s[k])
  <2>1. k - 1 \in 0 .. n
    BY <1>2
  <2>2. f[k - 1] \in Seq(S) /\ s[k] \in Seq(S) /\ Holds(t, pos, f[k - 1] \o s[k])
    BY <2>1, <1>2, <1>3, <1>4, <1>5
  <2> QED BY <2>2, HoldsParts
<1> DEFINE G == {j \in 0 .. n : Holds(t, pos, f[n - j])}
<1>6. 0 .. n \subseteq G
  <2>1. 0 \in G
    <3>1. n - 0 = n /\ 0 \in 0 .. n
      BY <1>2
    <3> QED BY <3>1, <1>3
  <2>2. ASSUME NEW j \in 0 .. n, j < n, j \in G PROVE j + 1 \in G
    <3>1. n - j \in 1 .. n /\ (n - j) - 1 = n - (j + 1) /\ j + 1 \in 0 .. n
      BY <1>2, <2>2
    <3>2. Holds(t, pos, f[n - (j + 1)])
      BY <3>1, <2>2, <1>5
    <3> QED BY <3>1, <3>2
  <2> HIDE DEF G
  <2>3. \A j \in 0 .. n : j < n /\ j \in G => j + 1 \in G
    BY <2>2
  <2> QED BY <1>2, <2>1, <2>3, UpTo
<1>7. ASSUME NEW k \in 1 .. n
      PROVE  /\ Holds(t, pos + Len(f[k - 1]), s[k])
             /\ k - 1 \in 0 .. n /\ k \in 0 .. n
             /\ Len(f[k]) = Len(f[k - 1]) + Len(s[k])
  <2>1. n - k \in 0 .. n /\ n - (n - k) = k /\ k - 1 \in 0 .. n /\ k \in 0 .. n
    BY <1>2
  <2>2. Holds(t, pos, f[k])
    BY <2>1, <1>6
  <2>3. Len(f[k]) = Len(f[k - 1]) + Len(s[k])
    <3>1. f[k - 1] \in Seq(S) /\ s[k] \in Seq(S) /\ f[k] = f[k - 1] \o s[k]
      BY <2>1, <1>2, <1>3, <1>4
    <3> QED BY <3>1, Joined
  <2> QED BY <2>1, <2>2, <2>3, <1>5
<1> DEFINE ends == [k \in 0 .. n |-> pos + Len(f[k])]
<1>8. ends \in [0 .. n -> Places]
  BY <1>4 DEF Places
<1>9. ends[0] = pos
  <2>1. 0 \in 0 .. n /\ Len(f[0]) = 0
    BY <1>2, <1>3, EmptySeq
  <2> QED BY <2>1
<1>10. ends[n] = pos + Len(FlattenSeq(s))
  BY <1>2, <1>3
<1>11. ASSUME NEW k \in 1 .. n
       PROVE  /\ ends[k] = ends[k - 1] + Len(s[k])
              /\ Holds(t, ends[k - 1], s[k])
  <2>1. /\ Holds(t, pos + Len(f[k - 1]), s[k])
        /\ k - 1 \in 0 .. n /\ k \in 0 .. n
        /\ Len(f[k]) = Len(f[k - 1]) + Len(s[k])
    BY <1>7
  <2>2. ends[k - 1] = pos + Len(f[k - 1]) /\ ends[k] = pos + Len(f[k])
    BY <2>1
  <2>3. Len(f[k - 1]) \in Nat /\ Len(s[k]) \in Nat
    BY <2>1, <1>2, <1>4, LenProperties
  <2> HIDE DEF ends

  <2>5. ends[k] = ends[k - 1] + Len(s[k])
    <3>1. \A x \in Nat, y \in Nat : pos + (x + y) = (pos + x) + y
      OBVIOUS
    <3>2. pos + (Len(f[k - 1]) + Len(s[k])) = (pos + Len(f[k - 1])) + Len(s[k])
      BY <2>3, <3>1, Zenon
    <3>3. ends[k] = pos + (Len(f[k - 1]) + Len(s[k]))
      BY <2>1, <2>2, Zenon
    <3> QED BY <2>2, <3>2, <3>3, Zenon
  <2> QED BY <2>1, <2>2, <2>5
<1> HIDE DEF ends
<1> QED BY <1>8, <1>9, <1>10, <1>11 DEF Laid, n

-----------------------------------------------------------------------------
(* What the readers return *)

LEMMA ReadItemsResult ==
  ASSUME NEW T, NEW start \in Places, NEW n \in Nat, NEW item \in Readers(T)
  PROVE  ReadItems(start, n, item) \in Results(Seq(T))
<1>1. PICK f : ReadBy(f, T, start, n, item)
  BY ItemByItem
<1> QED BY <1>1 DEF ReadBy

LEMMA ReadCountedResult ==
  ASSUME NEW T, NEW t \in Seq(Nat), NEW pos \in Places, NEW item \in Readers(T)
  PROVE  ReadCounted(t, pos, item) \in Results(Seq(T))
<1>1. CASE Has(t, pos, 1) /\ t[pos] <= MaxCount
  <2>1. Len(t) \in Nat /\ \A i \in 1 .. Len(t) : t[i] \in Nat
    BY LenProperties
  <2>2. pos \in 1 .. Len(t) /\ pos + 1 \in Places
    BY <1>1, <2>1 DEF Has, Places
  <2>3. t[pos] \in Nat
    BY <2>1, <2>2
  <2>4. ReadItems(pos + 1, t[pos], item) \in Results(Seq(T))
    BY <2>2, <2>3, ReadItemsResult
  <2> QED BY <1>1, <2>4 DEF ReadCounted
<1>2. CASE ~ (Has(t, pos, 1) /\ t[pos] <= MaxCount)
  BY <1>2 DEF ReadCounted, Results
<1> QED BY <1>1, <1>2

LEMMA Fields ==
  ASSUME NEW t \in Seq(Nat), NEW pos \in Places, NEW n \in Nat, Has(t, pos, n)
  PROVE  \A i \in Nat : i < n => t[pos + i] \in Nat
<1>1. Len(t) \in Nat /\ \A i \in 1 .. Len(t) : t[i] \in Nat
  BY LenProperties
<1>2. ASSUME NEW i \in Nat, i < n PROVE t[pos + i] \in Nat
  <2>1. pos + i \in 1 .. Len(t)
    BY <1>1, <1>2 DEF Has, Places
  <2> QED BY <1>1, <2>1
<1> QED BY <1>2

LEMMA ReadParticipantResult ==
  ASSUME NEW t \in Seq(Nat)
  PROVE  [p \in Nat \ {0} |-> ReadParticipant(t, p)] \in Readers(ParticipantRecord)
<1>1. ASSUME NEW p \in Places PROVE ReadParticipant(t, p) \in Results(ParticipantRecord)
  <2>1. CASE Has(t, p, 2)
    <3>1. p + 0 = p /\ p + 2 \in Places /\ 0 \in Nat /\ 1 \in Nat /\ 2 \in Nat /\ 0 < 2 /\ 1 < 2
      BY DEF Places
    <3>2. t[p + 0] \in Nat /\ t[p + 1] \in Nat
      BY <2>1, <3>1, Fields
    <3> QED BY <2>1, <3>1, <3>2 DEF ReadParticipant, Results, ParticipantRecord
  <2>2. CASE ~ Has(t, p, 2)
    BY <2>2 DEF ReadParticipant, Results
  <2> QED BY <2>1, <2>2
<1> QED BY <1>1 DEF Readers, Places

LEMMA ReadMeasurementResult ==
  ASSUME NEW t \in Seq(Nat)
  PROVE  [p \in Nat \ {0} |-> ReadMeasurement(t, p)] \in Readers(MeasurementRecord)
<1>1. ASSUME NEW p \in Places PROVE ReadMeasurement(t, p) \in Results(MeasurementRecord)
  <2>1. CASE Has(t, p, 2) /\ t[p + 1] \in Freshness
    <3>1. p + 0 = p /\ p + 2 \in Places /\ 0 \in Nat /\ 2 \in Nat /\ 0 < 2
      BY DEF Places
    <3>2. t[p + 0] \in Nat
      BY <2>1, <3>1, Fields
    <3> QED BY <2>1, <3>1, <3>2 DEF ReadMeasurement, Results, MeasurementRecord
  <2>2. CASE ~ (Has(t, p, 2) /\ t[p + 1] \in Freshness)
    BY <2>2 DEF ReadMeasurement, Results
  <2> QED BY <2>1, <2>2
<1> QED BY <1>1 DEF Readers, Places

\* The participants of the group that starts at pos.
PartsAt(t, pos) ==
  IF t[pos + 3] <= MaxCount
  THEN ReadItems(pos + 4, t[pos + 3], [p \in Nat \ {0} |-> ReadParticipant(t, p)])
  ELSE Failed

LEMMA PartsAtResult ==
  ASSUME NEW t \in Seq(Nat), NEW pos \in Places, Has(t, pos, 4)
  PROVE  PartsAt(t, pos) \in Results(Seq(ParticipantRecord))
<1>1. CASE t[pos + 3] <= MaxCount
  <2>1. pos + 4 \in Places /\ 3 \in Nat /\ 4 \in Nat /\ 3 < 4
    BY DEF Places
  <2>2. t[pos + 3] \in Nat
    BY <2>1, Fields
  <2>3. [p \in Nat \ {0} |-> ReadParticipant(t, p)] \in Readers(ParticipantRecord)
    BY ReadParticipantResult
  <2> DEFINE item == [p \in Nat \ {0} |-> ReadParticipant(t, p)]
  <2> HIDE DEF item
  <2>4. ReadItems(pos + 4, t[pos + 3], item) \in Results(Seq(ParticipantRecord))
    BY <2>1, <2>2, <2>3, ReadItemsResult DEF item
  <2> QED BY <1>1, <2>4 DEF PartsAt, item
<1>2. CASE ~ (t[pos + 3] <= MaxCount)
  BY <1>2 DEF PartsAt, Results
<1> QED BY <1>1, <1>2

LEMMA ReadGroupResult ==
  ASSUME NEW t \in Seq(Nat)
  PROVE  [p \in Nat \ {0} |-> ReadGroup(t, p)] \in Readers(GroupRecord)
<1>1. ASSUME NEW p \in Places PROVE ReadGroup(t, p) \in Results(GroupRecord)
  <2> DEFINE parts == PartsAt(t, p)
             Accepted == /\ t[p + 2] \in Lifecycles /\ parts.ok
                         /\ Distinct(parts.value, LAMBDA q : q.id)
                         /\ Distinct(parts.value, LAMBDA q : q.rank)
             g == [id |-> t[p], gen |-> t[p + 1], lifecycle |-> t[p + 2], parts |-> parts.value]
  <2>1. CASE ~ Has(t, p, 4)
    BY <2>1 DEF ReadGroup, Results
  <2>2. CASE Has(t, p, 4)
    <3>1. ReadGroup(t, p) = IF Accepted THEN [ok |-> TRUE, pos |-> parts.pos, value |-> g] ELSE Failed
      BY <2>2 DEF ReadGroup, PartsAt
    <3>2. CASE ~ Accepted
      <4> HIDE DEF Accepted
      <4> QED BY <3>1, <3>2 DEF Results
    <3>3. CASE Accepted
      <4>1. parts \in Results(Seq(ParticipantRecord))
        BY <2>2, PartsAtResult
      <4> HIDE DEF parts
      <4>2. parts.pos \in Places /\ parts.value \in Seq(ParticipantRecord)
        BY <3>3, <4>1, ResultFields
      <4>3. p + 0 = p /\ 0 \in Nat /\ 1 \in Nat /\ 4 \in Nat /\ 0 < 4 /\ 1 < 4
        BY DEF Places
      <4>4. t[p + 0] \in Nat /\ t[p + 1] \in Nat
        BY <2>2, <4>3, Fields
      <4>5. g \in [id : Nat, gen : Nat, lifecycle : Lifecycles, parts : Seq(ParticipantRecord)]
        BY <3>3, <4>2, <4>3, <4>4
      <4>6. g.parts = parts.value
        OBVIOUS
      <4> HIDE DEF g
      <4>7. g \in GroupRecord
        BY <3>3, <4>5, <4>6 DEF GroupRecord
      <4> QED BY <3>1, <3>3, <4>2, <4>7 DEF Results
    <3> QED BY <3>2, <3>3
  <2> QED BY <2>1, <2>2
<1> QED BY <1>1 DEF Readers, Places

HealthFields == {<<>>} \cup {<<h>> : h \in Healths}

LEMMA ReadHealthResult ==
  ASSUME NEW t \in Seq(Nat), NEW pos \in Places
  PROVE  ReadHealth(t, pos) \in Results(HealthFields)
<1>1. pos + 1 \in Places /\ pos + 2 \in Places
  BY DEF Places
<1>2. CASE ~ Has(t, pos, 1)
  BY <1>2 DEF ReadHealth, Results
<1>3. CASE Has(t, pos, 1) /\ t[pos] = 0
  BY <1>1, <1>3 DEF ReadHealth, Results, HealthFields
<1>4. CASE Has(t, pos, 1) /\ t[pos] # 0 /\ Has(t, pos + 1, 1) /\ t[pos + 1] \in Healths
  <2>1. ReadHealth(t, pos) = [ok |-> TRUE, pos |-> pos + 2, value |-> <<t[pos + 1]>>]
    BY <1>4 DEF ReadHealth
  <2>2. <<t[pos + 1]>> \in HealthFields
    BY <1>4 DEF HealthFields
  <2> QED BY <1>1, <2>1, <2>2 DEF Results
<1>5. CASE Has(t, pos, 1) /\ t[pos] # 0 /\ ~ (Has(t, pos + 1, 1) /\ t[pos + 1] \in Healths)
  <2>1. ReadHealth(t, pos) = Failed
    BY <1>5 DEF ReadHealth
  <2> QED BY <2>1 DEF Results
<1> QED BY <1>2, <1>3, <1>4, <1>5

\* What decode reads, one after the other.
GroupsOf(t) == ReadCounted(t, 4, [p \in Nat \ {0} |-> ReadGroup(t, p)])

MeasurementsOf(t) ==
  IF GroupsOf(t).ok
  THEN ReadCounted(t, GroupsOf(t).pos, [p \in Nat \ {0} |-> ReadMeasurement(t, p)])
  ELSE Failed

HealthOf(t) == IF MeasurementsOf(t).ok THEN ReadHealth(t, MeasurementsOf(t).pos) ELSE Failed

StateRecord ==
  [epoch : Nat, live_boot : Nat, groups : Seq(GroupRecord),
   measurements : Seq(MeasurementRecord), health : HealthFields]

LEMMA PartsOfDecode ==
  ASSUME NEW t \in Seq(Nat)
  PROVE  /\ GroupsOf(t) \in Results(Seq(GroupRecord))
         /\ MeasurementsOf(t) \in Results(Seq(MeasurementRecord))
         /\ HealthOf(t) \in Results(HealthFields)
<1>1. GroupsOf(t) \in Results(Seq(GroupRecord))
  <2> DEFINE item == [p \in Nat \ {0} |-> ReadGroup(t, p)]
  <2>1. item \in Readers(GroupRecord)
    BY ReadGroupResult
  <2>2. 4 \in Places
    BY DEF Places
  <2>3. GroupsOf(t) = ReadCounted(t, 4, item)
    BY DEF GroupsOf
  <2> HIDE DEF item
  <2> QED BY <2>1, <2>2, <2>3, ReadCountedResult
<1>2. MeasurementsOf(t) \in Results(Seq(MeasurementRecord))
  <2>1. CASE ~ GroupsOf(t).ok
    BY <2>1 DEF MeasurementsOf, Results
  <2>2. CASE GroupsOf(t).ok
    <3> DEFINE item == [p \in Nat \ {0} |-> ReadMeasurement(t, p)]
    <3>1. item \in Readers(MeasurementRecord)
      BY ReadMeasurementResult
    <3>2. GroupsOf(t).pos \in Places
      BY <1>1, <2>2, ResultFields
    <3>3. MeasurementsOf(t) = ReadCounted(t, GroupsOf(t).pos, item)
      BY <2>2 DEF MeasurementsOf
    <3> HIDE DEF item
    <3> QED BY <3>1, <3>2, <3>3, ReadCountedResult
  <2> QED BY <2>1, <2>2
<1>3. HealthOf(t) \in Results(HealthFields)
  <2>1. CASE ~ MeasurementsOf(t).ok
    BY <2>1 DEF HealthOf, Results
  <2>2. CASE MeasurementsOf(t).ok
    <3>1. MeasurementsOf(t).pos \in Places
      BY <1>2, <2>2, ResultFields
    <3> QED BY <3>1, <2>2, ReadHealthResult DEF HealthOf
  <2> QED BY <2>1, <2>2
<1> QED BY <1>1, <1>2, <1>3

\* When decode accepts, and what it then returns.
Accepts(t) ==
  /\ Has(t, 1, 3) /\ t[1] <= FormatVersion
  /\ HealthOf(t).ok
  /\ Distinct(GroupsOf(t).value, LAMBDA g : <<g.id, g.gen>>)
  /\ Distinct(MeasurementsOf(t).value, LAMBDA m : m.id)
  /\ HealthOf(t).pos = Len(t) + 1

StateIn(t) ==
  [epoch |-> t[2], live_boot |-> t[3], groups |-> GroupsOf(t).value,
   measurements |-> MeasurementsOf(t).value, health |-> HealthOf(t).value]

LEMMA DecodeIs ==
  ASSUME NEW t
  PROVE  Decode(t) = IF Accepts(t) THEN Got(StateIn(t)) ELSE Failed
<1>1. CASE ~ (Has(t, 1, 3) /\ t[1] <= FormatVersion)
  BY <1>1 DEF Decode, Accepts
<1>2. CASE Has(t, 1, 3) /\ t[1] <= FormatVersion
  BY <1>2 DEF Decode, Accepts, StateIn, GroupsOf, MeasurementsOf, HealthOf
<1> QED BY <1>1, <1>2

\* Whatever decode accepts is a well-formed state.
LEMMA DecodeResult ==
  ASSUME NEW t \in Seq(Nat), Decode(t).ok
  PROVE  /\ Decode(t).value \in StateRecord
         /\ Distinct(Decode(t).value.measurements, LAMBDA m : m.id)
<1>1. Accepts(t) /\ Decode(t).value = StateIn(t)
  BY DecodeIs DEF Failed, Got
<1>2. HealthOf(t).ok /\ MeasurementsOf(t).ok /\ GroupsOf(t).ok
  BY <1>1 DEF Accepts, HealthOf, MeasurementsOf, Failed
<1>3. /\ GroupsOf(t).value \in Seq(GroupRecord)
      /\ MeasurementsOf(t).value \in Seq(MeasurementRecord)
      /\ HealthOf(t).value \in HealthFields
  BY <1>2, PartsOfDecode, ResultFields
<1>4. t[2] \in Nat /\ t[3] \in Nat
  <2>1. 1 \in Places /\ 3 \in Nat /\ 1 \in Nat /\ 2 \in Nat /\ 1 < 3 /\ 2 < 3
    BY DEF Places
  <2>2. Has(t, 1, 3)
    BY <1>1 DEF Accepts
  <2>3. t[1 + 1] \in Nat /\ t[1 + 2] \in Nat
    BY <2>1, <2>2, Fields
  <2> QED BY <2>3
<1>5. StateIn(t).measurements = MeasurementsOf(t).value
  BY DEF StateIn
<1>6. Distinct(MeasurementsOf(t).value, LAMBDA m : m.id)
  BY <1>1 DEF Accepts
<1>7. StateIn(t) \in StateRecord
  BY <1>3, <1>4 DEF StateIn, StateRecord
<1> QED BY <1>1, <1>5, <1>6, <1>7

-----------------------------------------------------------------------------
(* What is written is read back *)

LEMMA FlattenSeqType ==
  ASSUME NEW S, NEW s \in Seq(Seq(S))
  PROVE  FlattenSeq(s) \in Seq(S)
<1>1. PICK f : Joins(f, S, s)
  BY Flattened
<1>2. Len(s) \in 0 .. Len(s)
  BY LenProperties
<1> QED BY <1>1, <1>2 DEF Joins

\* item reads, wherever t holds the fields of a member of s, that member.
Reads(item, t, s, fields) ==
  \A k \in 1 .. Len(s) : \A p \in Places : Holds(t, p, fields[k])
    => item[p] = [ok |-> TRUE, pos |-> p + Len(fields[k]), value |-> s[k]]

LEMMA ItemsBack ==
  ASSUME NEW T, NEW s \in Seq(T), NEW fields \in Seq(Seq(Nat)), Len(fields) = Len(s),
         NEW item \in Readers(T), NEW t \in Seq(Nat), NEW pos \in Places,
         Holds(t, pos, FlattenSeq(fields)), Reads(item, t, s, fields)
  PROVE  ReadItems(pos, Len(s), item)
         = [ok |-> TRUE, pos |-> pos + Len(FlattenSeq(fields)), value |-> s]
<1>1. PICK ends : Laid(ends, t, pos, fields)
  BY FlattenedParts DEF Places
<1>2. /\ ends \in [0 .. Len(s) -> Places]
      /\ ends[0] = pos /\ ends[Len(s)] = pos + Len(FlattenSeq(fields))
      /\ \A k \in 1 .. Len(s) : ends[k] = ends[k - 1] + Len(fields[k]) /\ Holds(t, ends[k - 1], fields[k])
  BY <1>1 DEF Laid
<1>3. ASSUME NEW k \in 1 .. Len(s)
      PROVE  item[ends[k - 1]] = [ok |-> TRUE, pos |-> ends[k], value |-> s[k]]
  <2>1. k - 1 \in 0 .. Len(s)
    BY LenProperties
  <2>2. ends[k - 1] \in Places
    BY <2>1, <1>2
  <2>3. item[ends[k - 1]] = [ok |-> TRUE, pos |-> ends[k - 1] + Len(fields[k]), value |-> s[k]]
    BY <1>2, <2>2 DEF Reads
  <2> QED BY <2>3, <1>2
<1>4. ReadItems(ends[0], Len(s), item) = [ok |-> TRUE, pos |-> ends[Len(s)], value |-> s]
  BY <1>2, <1>3, ReadItemsBack
<1> QED BY <1>2, <1>4

LEMMA HoldsField ==
  ASSUME NEW t \in Seq(Nat), NEW pos \in Places, NEW f \in Seq(Nat), Holds(t, pos, f)
  PROVE  /\ Has(t, pos, Len(f))
         /\ \A i \in Nat : i < Len(f) => t[pos + i] = f[i + 1]
<1>1. Len(f) \in Nat /\ Len(t) \in Nat /\ pos \in Nat /\ pos > 0
  BY LenProperties DEF Places
<1>2. ASSUME NEW i \in Nat, i < Len(f) PROVE t[pos + i] = f[i + 1]
  <2>1. i + 1 \in 1 .. Len(f) /\ (pos - 1) + (i + 1) = pos + i
    BY <1>1, <1>2
  <2>2. t[(pos - 1) + (i + 1)] = f[i + 1]
    BY <2>1 DEF Holds
  <2> QED BY <2>1, <2>2
<1>3. Has(t, pos, Len(f))
  BY <1>1 DEF Has, Holds
<1> QED BY <1>2, <1>3

LEMMA ParticipantBack ==
  ASSUME NEW t \in Seq(Nat), NEW p \in Places, NEW r \in ParticipantRecord,
         Holds(t, p, <<r.id, r.rank>>)
  PROVE  ReadParticipant(t, p) = [ok |-> TRUE, pos |-> p + 2, value |-> r]
<1>1. r.id \in Nat /\ r.rank \in Nat /\ r = [id |-> r.id, rank |-> r.rank]
  BY DEF ParticipantRecord
<1> DEFINE f == <<r.id, r.rank>>
<1>2. f \in Seq(Nat) /\ Len(f) = 2 /\ f[1] = r.id /\ f[2] = r.rank
  BY <1>1
<1>3. Has(t, p, 2) /\ t[p + 0] = f[0 + 1] /\ t[p + 1] = f[1 + 1]
  <2> HIDE DEF f
  <2>1. Holds(t, p, f)
    BY DEF f
  <2>2. Has(t, p, 2) /\ \A i \in Nat : i < 2 => t[p + i] = f[i + 1]
    BY <1>2, <2>1, HoldsField
  <2>3. 0 \in Nat /\ 1 \in Nat /\ 0 < 2 /\ 1 < 2
    OBVIOUS
  <2> QED BY <2>2, <2>3
<1>4. p + 0 = p /\ 0 + 1 = 1 /\ 1 + 1 = 2
  BY DEF Places
<1>5. t[p] = r.id /\ t[p + 1] = r.rank
  BY <1>2, <1>3, <1>4
<1> HIDE DEF f
<1> QED BY <1>1, <1>3, <1>5 DEF ReadParticipant

LEMMA MeasurementBack ==
  ASSUME NEW t \in Seq(Nat), NEW p \in Places, NEW m \in MeasurementRecord,
         Holds(t, p, <<m.id, m.fresh>>)
  PROVE  ReadMeasurement(t, p) = [ok |-> TRUE, pos |-> p + 2, value |-> m]
<1>1. m.id \in Nat /\ m.fresh \in Freshness /\ m = [id |-> m.id, fresh |-> m.fresh]
  BY DEF MeasurementRecord
<1> DEFINE f == <<m.id, m.fresh>>
<1>2. f \in Seq(Nat) /\ Len(f) = 2 /\ f[1] = m.id /\ f[2] = m.fresh
  BY <1>1 DEF Freshness
<1>3. Has(t, p, 2) /\ t[p + 0] = f[0 + 1] /\ t[p + 1] = f[1 + 1]
  <2> HIDE DEF f
  <2>1. Holds(t, p, f)
    BY DEF f
  <2>2. Has(t, p, 2) /\ \A i \in Nat : i < 2 => t[p + i] = f[i + 1]
    BY <1>2, <2>1, HoldsField
  <2>3. 0 \in Nat /\ 1 \in Nat /\ 0 < 2 /\ 1 < 2
    OBVIOUS
  <2> QED BY <2>2, <2>3
<1>4. p + 0 = p /\ 0 + 1 = 1 /\ 1 + 1 = 2
  BY DEF Places
<1>5. t[p] = m.id /\ t[p + 1] = m.fresh
  BY <1>2, <1>3, <1>4
<1> HIDE DEF f
<1> QED BY <1>1, <1>3, <1>5 DEF ReadMeasurement

LEMMA HealthBack ==
  ASSUME NEW t \in Seq(Nat), NEW p \in Places, NEW h \in HealthFields,
         Holds(t, p, IF h = <<>> THEN << 0 >> ELSE <<1, h[1]>>)
  PROVE  ReadHealth(t, p)
         = [ok |-> TRUE, value |-> h,
            pos |-> p + Len(IF h = <<>> THEN <<0>> ELSE <<1, h[1]>>)]
<1>1. p + 0 = p /\ p \in Nat /\ p > 0
  BY DEF Places
<1>2. CASE h = <<>>
  <2> DEFINE f == <<0>>
  <2>1. f \in Seq(Nat) /\ Len(f) = 1 /\ f[1] = 0
    OBVIOUS
  <2>2. Holds(t, p, f)
    BY <1>2
  <2> HIDE DEF f
  <2>3. Has(t, p, 1) /\ t[p + 0] = f[0 + 1]
    BY <2>1, <2>2, HoldsField
  <2>4. ReadHealth(t, p) = [ok |-> TRUE, pos |-> p + 1, value |-> <<>>]
    BY <2>1, <2>3, <1>1 DEF ReadHealth
  <2> QED BY <2>4, <2>1, <1>2 DEF f
<1>3. CASE h # <<>>
  <2>1. PICK x \in Healths : h = <<x>>
    BY <1>3 DEF HealthFields
  <2> DEFINE f == <<1, x>>
  <2>2. f \in Seq(Nat) /\ Len(f) = 2 /\ f[1] = 1 /\ f[2] = x
    BY DEF Healths
  <2>3. Holds(t, p, f) /\ f = IF h = <<>> THEN <<0>> ELSE <<1, h[1]>>
    BY <1>3, <2>1
  <2> HIDE DEF f
  <2>4. Has(t, p, 2) /\ \A i \in Nat : i < 2 => t[p + i] = f[i + 1]
    <3>1. Holds(t, p, f) /\ f \in Seq(Nat) /\ Len(f) = 2
      BY <2>2, <2>3
    <3> QED BY <3>1, HoldsField
  <2>5. Has(t, p, 1) /\ Has(t, p + 1, 1)
    BY <2>4, <1>1, LenProperties DEF Has
  <2>6. 0 \in Nat /\ 1 \in Nat /\ 0 < 2 /\ 1 < 2 /\ 0 + 1 = 1 /\ 1 + 1 = 2
    OBVIOUS
  <2>7. t[p] = 1 /\ t[p + 1] = x
    BY <2>2, <2>4, <2>6, <1>1
  <2>8. t[p] # 0 /\ ~ ~ Has(t, p, 1) /\ t[p + 1] \in Healths
    BY <2>5, <2>7
  <2>9. ReadHealth(t, p) = [ok |-> TRUE, pos |-> p + 2, value |-> <<x>>]
    BY <2>5, <2>7, <2>8 DEF ReadHealth
  <2> QED BY <2>1, <2>2, <2>3, <2>9
<1> QED BY <1>2, <1>3

LEMMA PairFields ==
  ASSUME NEW n \in Nat, NEW a \in [1 .. n -> Nat], NEW b \in [1 .. n -> Nat]
  PROVE  LET f == [i \in 1 .. n |-> <<a[i], b[i]>>]
         IN f \in Seq(Seq(Nat)) /\ Len(f) = n /\ \A i \in 1 .. n : f[i] = <<a[i], b[i]>> /\ Len(f[i]) = 2
<1> DEFINE f == [i \in 1 .. n |-> <<a[i], b[i]>>]
<1>1. \A i \in 1 .. n : <<a[i], b[i]>> \in Seq(Nat) /\ Len(<<a[i], b[i]>>) = 2
  OBVIOUS
<1>2. f \in [1 .. n -> Seq(Nat)]
  BY <1>1
<1>3. \A i \in 1 .. n : f[i] = <<a[i], b[i]>> /\ Len(f[i]) = 2
  BY <1>1
<1>4. DOMAIN f = 1 .. n
  OBVIOUS
<1> HIDE DEF f
<1>5. f \in Seq(Seq(Nat)) /\ Len(f) = n
  BY <1>2, <1>4
<1> QED BY <1>3, <1>5 DEF f

PartFields(parts) == [i \in DOMAIN parts |-> <<parts[i].id, parts[i].rank>>]

LEMMA PartFieldsType ==
  ASSUME NEW parts \in Seq(ParticipantRecord)
  PROVE  /\ PartFields(parts) \in Seq(Seq(Nat)) /\ Len(PartFields(parts)) = Len(parts)
         /\ \A i \in 1 .. Len(parts) : /\ PartFields(parts)[i] = <<parts[i].id, parts[i].rank>>
                                       /\ Len(PartFields(parts)[i]) = 2
<1>1. /\ Len(parts) \in Nat /\ DOMAIN parts = 1 .. Len(parts)
      /\ \A i \in 1 .. Len(parts) : parts[i] \in ParticipantRecord
  BY LenProperties
<1> DEFINE n == Len(parts)
           a == [i \in 1 .. n |-> parts[i].id]
           b == [i \in 1 .. n |-> parts[i].rank]
           f == [i \in 1 .. n |-> <<a[i], b[i]>>]
<1>2. a \in [1 .. n -> Nat] /\ b \in [1 .. n -> Nat]
  BY <1>1 DEF ParticipantRecord
<1>3. \A i \in 1 .. n : a[i] = parts[i].id /\ b[i] = parts[i].rank
  OBVIOUS
<1>4. f = PartFields(parts)
  BY <1>1, <1>3 DEF PartFields
<1>5. f \in Seq(Seq(Nat)) /\ Len(f) = n /\ \A i \in 1 .. n : f[i] = <<a[i], b[i]>> /\ Len(f[i]) = 2
  <2> HIDE DEF n, a, b
  <2>1. n \in Nat
    BY <1>1 DEF n
  <2> QED BY <2>1, <1>2, PairFields
<1> HIDE DEF f, a, b
<1> QED BY <1>3, <1>4, <1>5

GroupHeader(g) == <<g.id, g.gen, g.lifecycle, Len(g.parts)>>

LEMMA GroupFieldsType ==
  ASSUME NEW g \in GroupRecord
  PROVE  /\ g.parts \in Seq(ParticipantRecord)
         /\ g = [id |-> g.id, gen |-> g.gen, lifecycle |-> g.lifecycle, parts |-> g.parts]
         /\ g.lifecycle \in Lifecycles
         /\ GroupHeader(g) \in Seq(Nat) /\ Len(GroupHeader(g)) = 4
         /\ FlattenSeq(PartFields(g.parts)) \in Seq(Nat)
         /\ GroupFields(g) = GroupHeader(g) \o FlattenSeq(PartFields(g.parts))
         /\ GroupFields(g) \in Seq(Nat)
         /\ Len(GroupFields(g)) = 4 + Len(FlattenSeq(PartFields(g.parts)))
<1>1. /\ g \in [id : Nat, gen : Nat, lifecycle : Lifecycles, parts : Seq(ParticipantRecord)]
  BY DEF GroupRecord
<1>2. /\ g.id \in Nat /\ g.gen \in Nat /\ g.lifecycle \in Lifecycles
      /\ g.parts \in Seq(ParticipantRecord)
      /\ g = [id |-> g.id, gen |-> g.gen, lifecycle |-> g.lifecycle, parts |-> g.parts]
  BY <1>1
<1>3. Len(g.parts) \in Nat
  BY <1>2, LenProperties
<1>4. GroupHeader(g) \in Seq(Nat) /\ Len(GroupHeader(g)) = 4
  BY <1>2, <1>3 DEF GroupHeader, Lifecycles
<1>5. FlattenSeq(PartFields(g.parts)) \in Seq(Nat)
  BY <1>2, PartFieldsType, FlattenSeqType
<1>6. GroupFields(g) = GroupHeader(g) \o FlattenSeq(PartFields(g.parts))
  BY DEF GroupFields, GroupHeader, PartFields
<1>7. /\ GroupHeader(g) \o FlattenSeq(PartFields(g.parts)) \in Seq(Nat)
      /\ Len(GroupHeader(g) \o FlattenSeq(PartFields(g.parts)))
         = Len(GroupHeader(g)) + Len(FlattenSeq(PartFields(g.parts)))
  BY <1>4, <1>5, Joined
<1> QED BY <1>2, <1>4, <1>5, <1>6, <1>7

LEMMA GroupBack ==
  ASSUME NEW t \in Seq(Nat), NEW p \in Places, NEW g \in GroupRecord,
         Len(g.parts) <= MaxCount, Holds(t, p, GroupFields(g))
  PROVE  ReadGroup(t, p) = [ok |-> TRUE, pos |-> p + Len(GroupFields(g)), value |-> g]
<1> DEFINE h == GroupHeader(g)
           fields == PartFields(g.parts)
           n == Len(g.parts)
           item == [q \in Nat \ {0} |-> ReadParticipant(t, q)]
<1>1. /\ g.parts \in Seq(ParticipantRecord) /\ g.lifecycle \in Lifecycles
      /\ h \in Seq(Nat) /\ Len(h) = 4 /\ FlattenSeq(fields) \in Seq(Nat)
      /\ GroupFields(g) = h \o FlattenSeq(fields)
      /\ Len(GroupFields(g)) = 4 + Len(FlattenSeq(fields))
  BY GroupFieldsType
<1>2. h[1] = g.id /\ h[2] = g.gen /\ h[3] = g.lifecycle /\ h[4] = n
  BY DEF GroupHeader
<1>3. p \in Nat /\ p > 0 /\ p + 4 \in Places
  BY DEF Places
<1> HIDE DEF h
<1>4. Holds(t, p, h) /\ Holds(t, p + Len(h), FlattenSeq(fields))
  <2> HIDE DEF fields
  <2>1. Holds(t, p, h \o FlattenSeq(fields))
    BY <1>1
  <2> QED BY <1>1, <1>3, <2>1, HoldsParts
<1>5. Has(t, p, 4) /\ t[p] = g.id /\ t[p + 1] = g.gen /\ t[p + 2] = g.lifecycle /\ t[p + 3] = n
  <2>1. Has(t, p, 4) /\ \A i \in Nat : i < 4 => t[p + i] = h[i + 1]
    BY <1>1, <1>4, HoldsField
  <2>2. 0 \in Nat /\ 1 \in Nat /\ 2 \in Nat /\ 3 \in Nat /\ 0 < 4 /\ 1 < 4 /\ 2 < 4 /\ 3 < 4
    OBVIOUS
  <2>3. p + 0 = p /\ 0 + 1 = 1 /\ 1 + 1 = 2 /\ 2 + 1 = 3 /\ 3 + 1 = 4
    BY <1>3
  <2> HIDE DEF n
  <2>4. t[p] = h[1] /\ t[p + 1] = h[2] /\ t[p + 2] = h[3] /\ t[p + 3] = h[4]
    BY <2>1, <2>2, <2>3
  <2> QED BY <2>1, <2>4, <1>2
<1>6. ReadItems(p + 4, n, item)
      = [ok |-> TRUE, pos |-> (p + 4) + Len(FlattenSeq(fields)), value |-> g.parts]
  <2>1. item \in Readers(ParticipantRecord)
    BY ReadParticipantResult
  <2>2. /\ fields \in Seq(Seq(Nat)) /\ Len(fields) = n
        /\ \A k \in 1 .. n : fields[k] = <<g.parts[k].id, g.parts[k].rank>> /\ Len(fields[k]) = 2
    BY <1>1, PartFieldsType
  <2>3. Holds(t, p + 4, FlattenSeq(fields))
    BY <1>1, <1>4
  <2>4. ASSUME NEW k \in 1 .. n, NEW q \in Places, Holds(t, q, fields[k])
        PROVE  item[q] = [ok |-> TRUE, pos |-> q + Len(fields[k]), value |-> g.parts[k]]
    <3>1. g.parts[k] \in ParticipantRecord
      BY <1>1, LenProperties
    <3>2. ReadParticipant(t, q) = [ok |-> TRUE, pos |-> q + 2, value |-> g.parts[k]]
      BY <3>1, <2>2, <2>4, ParticipantBack
    <3>3. item[q] = ReadParticipant(t, q)
      BY DEF Places
    <3> QED BY <3>2, <3>3, <2>2
  <2> HIDE DEF item, fields
  <2>5. Reads(item, t, g.parts, fields)
    BY <2>4 DEF Reads
  <2>6. g.parts \in Seq(ParticipantRecord) /\ p + 4 \in Places
    BY <1>1, <1>3
  <2>7. fields \in Seq(Seq(Nat)) /\ Len(fields) = Len(g.parts)
    BY <2>2
  <2> QED BY <2>1, <2>3, <2>5, <2>6, <2>7, ItemsBack
<1>7. PartsAt(t, p) = [ok |-> TRUE, pos |-> p + Len(GroupFields(g)), value |-> g.parts]
  <2>1. (p + 4) + Len(FlattenSeq(fields)) = p + Len(GroupFields(g))
    <3>1. Len(FlattenSeq(fields)) \in Nat
      BY <1>1, LenProperties
    <3> HIDE DEF fields
    <3> QED BY <3>1, <1>1, <1>3
  <2>2. PartsAt(t, p) = ReadItems(p + 4, n, item)
    BY <1>5 DEF PartsAt
  <2> HIDE DEF item, fields
  <2> QED BY <1>6, <2>1, <2>2
<1>8. Distinct(g.parts, LAMBDA q : q.id) /\ Distinct(g.parts, LAMBDA q : q.rank)
  BY DEF GroupRecord
<1>9. ReadGroup(t, p)
      = [ok |-> TRUE, pos |-> p + Len(GroupFields(g)),
         value |-> [id |-> g.id, gen |-> g.gen, lifecycle |-> g.lifecycle, parts |-> g.parts]]
  <2> DEFINE parts == PartsAt(t, p)
             Accepted == /\ t[p + 2] \in Lifecycles /\ parts.ok
                         /\ Distinct(parts.value, LAMBDA q : q.id)
                         /\ Distinct(parts.value, LAMBDA q : q.rank)
             v == [id |-> t[p], gen |-> t[p + 1], lifecycle |-> t[p + 2], parts |-> parts.value]
  <2>1. ReadGroup(t, p) = IF Accepted THEN [ok |-> TRUE, pos |-> parts.pos, value |-> v] ELSE Failed
    BY <1>5 DEF ReadGroup, PartsAt
  <2>2. parts.ok /\ parts.value = g.parts /\ parts.pos = p + Len(GroupFields(g))
    BY <1>7
  <2> HIDE DEF parts
  <2>3. Accepted
    BY <1>1, <1>5, <1>8, <2>2
  <2> QED BY <2>1, <2>2, <2>3, <1>5
<1> QED BY <1>9, GroupFieldsType

\* A count, and that many items.
LEMMA CountedBack ==
  ASSUME NEW T, NEW s \in Seq(T), NEW fields \in Seq(Seq(Nat)), Len(fields) = Len(s),
         NEW item \in Readers(T), NEW t \in Seq(Nat), NEW pos \in Places,
         Len(s) <= MaxCount, Has(t, pos, 1), t[pos] = Len(s),
         Holds(t, pos + 1, FlattenSeq(fields)), Reads(item, t, s, fields)
  PROVE  ReadCounted(t, pos, item)
         = [ok |-> TRUE, pos |-> (pos + 1) + Len(FlattenSeq(fields)), value |-> s]
<1>1. pos + 1 \in Places
  BY DEF Places
<1>2. ReadItems(pos + 1, Len(s), item)
      = [ok |-> TRUE, pos |-> (pos + 1) + Len(FlattenSeq(fields)), value |-> s]
  BY <1>1, ItemsBack
<1> QED BY <1>2 DEF ReadCounted

GroupsFields(gs) == [i \in DOMAIN gs |-> GroupFields(gs[i])]

MeasurementFields(ms) == [i \in DOMAIN ms |-> <<ms[i].id, ms[i].fresh>>]

LEMMA GroupsFieldsType ==
  ASSUME NEW gs \in Seq(GroupRecord)
  PROVE  /\ GroupsFields(gs) \in Seq(Seq(Nat)) /\ Len(GroupsFields(gs)) = Len(gs)
         /\ \A i \in 1 .. Len(gs) : GroupsFields(gs)[i] = GroupFields(gs[i])
<1>1. /\ Len(gs) \in Nat /\ DOMAIN gs = 1 .. Len(gs)
      /\ \A i \in 1 .. Len(gs) : gs[i] \in GroupRecord
  BY LenProperties
<1>2. \A i \in 1 .. Len(gs) : GroupFields(gs[i]) \in Seq(Nat)
  BY <1>1, GroupFieldsType
<1>3. GroupsFields(gs) = [i \in 1 .. Len(gs) |-> GroupFields(gs[i])]
  BY <1>1 DEF GroupsFields
<1>4. GroupsFields(gs) \in [1 .. Len(gs) -> Seq(Nat)] /\ DOMAIN GroupsFields(gs) = 1 .. Len(gs)
  BY <1>2, <1>3
<1>5. \A i \in 1 .. Len(gs) : GroupsFields(gs)[i] = GroupFields(gs[i])
  BY <1>3
<1>6. GroupsFields(gs) \in Seq(Seq(Nat)) /\ Len(GroupsFields(gs)) = Len(gs)
  BY <1>1, <1>4
<1> QED BY <1>5, <1>6

LEMMA MeasurementFieldsType ==
  ASSUME NEW ms \in Seq(MeasurementRecord)
  PROVE  /\ MeasurementFields(ms) \in Seq(Seq(Nat)) /\ Len(MeasurementFields(ms)) = Len(ms)
         /\ \A i \in 1 .. Len(ms) : /\ MeasurementFields(ms)[i] = <<ms[i].id, ms[i].fresh>>
                                    /\ Len(MeasurementFields(ms)[i]) = 2
<1>1. /\ Len(ms) \in Nat /\ DOMAIN ms = 1 .. Len(ms)
      /\ \A i \in 1 .. Len(ms) : ms[i] \in MeasurementRecord
  BY LenProperties
<1> DEFINE n == Len(ms)
           a == [i \in 1 .. n |-> ms[i].id]
           b == [i \in 1 .. n |-> ms[i].fresh]
           f == [i \in 1 .. n |-> <<a[i], b[i]>>]
<1>2. a \in [1 .. n -> Nat] /\ b \in [1 .. n -> Nat]
  BY <1>1 DEF MeasurementRecord, Freshness
<1>3. \A i \in 1 .. n : a[i] = ms[i].id /\ b[i] = ms[i].fresh
  OBVIOUS
<1>4. f = MeasurementFields(ms)
  BY <1>1, <1>3 DEF MeasurementFields
<1>5. f \in Seq(Seq(Nat)) /\ Len(f) = n /\ \A i \in 1 .. n : f[i] = <<a[i], b[i]>> /\ Len(f[i]) = 2
  <2> HIDE DEF n, a, b
  <2>1. n \in Nat
    BY <1>1 DEF n
  <2> QED BY <2>1, <1>2, PairFields
<1> HIDE DEF f, a, b
<1> QED BY <1>3, <1>4, <1>5

StateHeader(s) == <<FormatVersion, s.epoch, s.live_boot, Len(s.groups)>>
GroupsPart(s) == FlattenSeq(GroupsFields(s.groups))
CountPart(s) == <<Len(s.measurements)>>
MeasurementsPart(s) == FlattenSeq(MeasurementFields(s.measurements))
HealthPart(s) == IF s.health = <<>> THEN <<0>> ELSE <<1, s.health[1]>>

LEMMA EncodeParts ==
  ASSUME NEW s \in StateRecord
  PROVE  /\ StateHeader(s) \in Seq(Nat) /\ Len(StateHeader(s)) = 4
         /\ GroupsPart(s) \in Seq(Nat)
         /\ CountPart(s) \in Seq(Nat) /\ Len(CountPart(s)) = 1
         /\ MeasurementsPart(s) \in Seq(Nat)
         /\ HealthPart(s) \in Seq(Nat)
         /\ Encode(s) = (((StateHeader(s) \o GroupsPart(s)) \o CountPart(s)) \o MeasurementsPart(s))
                        \o HealthPart(s)
<1>1. /\ s.epoch \in Nat /\ s.live_boot \in Nat
      /\ s.groups \in Seq(GroupRecord) /\ s.measurements \in Seq(MeasurementRecord)
      /\ s.health \in HealthFields
  BY DEF StateRecord
<1>2. Len(s.groups) \in Nat /\ Len(s.measurements) \in Nat
  BY <1>1, LenProperties
<1>3. StateHeader(s) \in Seq(Nat) /\ Len(StateHeader(s)) = 4
  BY <1>1, <1>2 DEF StateHeader, FormatVersion
<1>4. CountPart(s) \in Seq(Nat) /\ Len(CountPart(s)) = 1
  BY <1>2 DEF CountPart
<1>5. GroupsPart(s) \in Seq(Nat)
  BY <1>1, GroupsFieldsType, FlattenSeqType DEF GroupsPart
<1>6. MeasurementsPart(s) \in Seq(Nat)
  BY <1>1, MeasurementFieldsType, FlattenSeqType DEF MeasurementsPart
<1>7. HealthPart(s) \in Seq(Nat)
  <2>1. CASE s.health = <<>>
    BY <2>1 DEF HealthPart
  <2>2. CASE s.health # <<>>
    <3>1. PICK x \in Healths : s.health = <<x>>
      BY <1>1, <2>2 DEF HealthFields
    <3>2. s.health[1] \in Nat
      BY <3>1 DEF Healths
    <3> QED BY <2>2, <3>2 DEF HealthPart
  <2> QED BY <2>1, <2>2
<1>8. Encode(s) = (((StateHeader(s) \o GroupsPart(s)) \o CountPart(s)) \o MeasurementsPart(s))
                  \o HealthPart(s)
  BY DEF Encode, StateHeader, GroupsPart, CountPart, MeasurementsPart, HealthPart,
         GroupsFields, MeasurementFields
<1> QED BY <1>3, <1>4, <1>5, <1>6, <1>7, <1>8

LEMMA EncodeType ==
  ASSUME NEW s \in StateRecord
  PROVE  Encode(s) \in Seq(Nat)
<1> DEFINE A == StateHeader(s)
           B == GroupsPart(s)
           C == CountPart(s)
           D == MeasurementsPart(s)
           E == HealthPart(s)
<1>1. /\ A \in Seq(Nat) /\ B \in Seq(Nat) /\ C \in Seq(Nat) /\ D \in Seq(Nat) /\ E \in Seq(Nat)
      /\ Encode(s) = (((A \o B) \o C) \o D) \o E
  BY EncodeParts
<1> HIDE DEF A, B, C, D, E
<1>2. A \o B \in Seq(Nat)
  BY <1>1, Joined
<1>3. (A \o B) \o C \in Seq(Nat)
  BY <1>1, <1>2, Joined
<1>4. ((A \o B) \o C) \o D \in Seq(Nat)
  BY <1>1, <1>3, Joined
<1> QED BY <1>1, <1>4, Joined

\* Where decode finds the parts of a payload.
LEMMA PartsHeld ==
  ASSUME NEW s \in StateRecord, NEW t, t = Encode(s)
  PROVE  LET b == Len(GroupsPart(s))
             d == Len(MeasurementsPart(s))
         IN /\ b \in Nat /\ d \in Nat /\ Len(HealthPart(s)) \in Nat
            /\ Holds(t, 1, StateHeader(s)) /\ Holds(t, 5, GroupsPart(s))
            /\ Holds(t, 5 + b, CountPart(s)) /\ Holds(t, 6 + b, MeasurementsPart(s))
            /\ Holds(t, (6 + b) + d, HealthPart(s))
            /\ Len(t) + 1 = ((6 + b) + d) + Len(HealthPart(s))
<1> DEFINE A == StateHeader(s)
           B == GroupsPart(s)
           C == CountPart(s)
           D == MeasurementsPart(s)
           E == HealthPart(s)
<1>1. /\ A \in Seq(Nat) /\ B \in Seq(Nat) /\ C \in Seq(Nat) /\ D \in Seq(Nat) /\ E \in Seq(Nat)
      /\ Len(A) = 4 /\ Len(C) = 1
      /\ t = (((A \o B) \o C) \o D) \o E
      /\ t \in Seq(Nat)
  BY EncodeParts, EncodeType
<1> HIDE DEF A, B, C, D, E
<1> DEFINE AB == A \o B
           ABC == AB \o C
           ABCD == ABC \o D
<1>2. Len(B) \in Nat /\ Len(D) \in Nat /\ Len(E) \in Nat
  BY <1>1, LenProperties
<1>3. AB \in Seq(Nat) /\ Len(AB) = Len(A) + Len(B)
  BY <1>1, Joined, Zenon
<1>4. ABC \in Seq(Nat) /\ Len(ABC) = Len(AB) + Len(C)
  <2> HIDE DEF AB
  <2>1. AB \in Seq(Nat) /\ C \in Seq(Nat)
    BY <1>1, <1>3
  <2> QED BY <2>1, Joined, Zenon
<1>5. ABCD \in Seq(Nat) /\ Len(ABCD) = Len(ABC) + Len(D)
  <2> HIDE DEF ABC
  <2>1. ABC \in Seq(Nat) /\ D \in Seq(Nat)
    BY <1>1, <1>4
  <2> QED BY <2>1, Joined, Zenon
<1>6. t = ABCD \o E /\ Len(t) = Len(ABCD) + Len(E)
  <2>1. t = ABCD \o E
    BY <1>1
  <2> HIDE DEF ABCD
  <2>2. Len(ABCD \o E) = Len(ABCD) + Len(E)
    <3>1. ABCD \in Seq(Nat) /\ E \in Seq(Nat)
      BY <1>1, <1>5
    <3> QED BY <3>1, Joined, Zenon
  <2> QED BY <2>1, <2>2
<1>7. Holds(t, 1, t) /\ 1 \in Nat /\ 1 > 0
  BY <1>1, LenProperties DEF Holds
<1>8. Holds(t, 1, ABCD) /\ Holds(t, 1 + Len(ABCD), E)
  <2> HIDE DEF ABCD
  <2>1. Holds(t, 1, ABCD \o E)
    BY <1>6, <1>7
  <2> QED BY <2>1, <1>1, <1>5, <1>7, HoldsParts, Zenon
<1>9. Holds(t, 1, ABC) /\ Holds(t, 1 + Len(ABC), D)
  <2> HIDE DEF ABC
  <2> QED BY <1>8, <1>1, <1>4, <1>7, HoldsParts, Zenon
<1>10. Holds(t, 1, AB) /\ Holds(t, 1 + Len(AB), C)
  <2> HIDE DEF AB
  <2> QED BY <1>9, <1>1, <1>3, <1>7, HoldsParts, Zenon
<1>11. Holds(t, 1, A) /\ Holds(t, 1 + Len(A), B)
  BY <1>10, <1>1, <1>7, HoldsParts, Zenon
<1> HIDE DEF AB, ABC, ABCD
<1>12. /\ 1 + Len(A) = 5 /\ 1 + Len(AB) = 5 + Len(B) /\ 1 + Len(ABC) = 6 + Len(B)
       /\ 1 + Len(ABCD) = (6 + Len(B)) + Len(D)
       /\ Len(t) + 1 = ((6 + Len(B)) + Len(D)) + Len(E)
  BY <1>1, <1>2, <1>3, <1>4, <1>5, <1>6
<1>13. /\ Holds(t, 1, A) /\ Holds(t, 5, B) /\ Holds(t, 5 + Len(B), C) /\ Holds(t, 6 + Len(B), D)
       /\ Holds(t, (6 + Len(B)) + Len(D), E)
  BY <1>8, <1>9, <1>10, <1>11, <1>12
<1> QED BY <1>2, <1>12, <1>13 DEF A, B, C, D, E

\* decode is the inverse of encode.
LEMMA RoundTrip ==
  ASSUME NEW s, Exported(s)
  PROVE  s \in StateRecord /\ Decode(Encode(s)) = Got(s)
<1> DEFINE t == Encode(s)
           b == Len(GroupsPart(s))
           d == Len(MeasurementsPart(s))
           e == Len(HealthPart(s))
<1>1. /\ s \in StateRecord
      /\ Len(s.groups) <= MaxCount /\ Len(s.measurements) <= MaxCount
      /\ \A i \in DOMAIN s.groups : Len(s.groups[i].parts) <= MaxCount
      /\ Distinct(s.groups, LAMBDA g : <<g.id, g.gen>>)
      /\ Distinct(s.measurements, LAMBDA m : m.id)
  BY DEF Exported, StateRecord, HealthFields
<1>2. /\ s.groups \in Seq(GroupRecord) /\ s.measurements \in Seq(MeasurementRecord)
      /\ s.health \in HealthFields
      /\ s = [epoch |-> s.epoch, live_boot |-> s.live_boot, groups |-> s.groups,
              measurements |-> s.measurements, health |-> s.health]
  BY <1>1 DEF StateRecord
<1>3. t \in Seq(Nat)
  BY <1>1, EncodeType
<1>4. /\ b \in Nat /\ d \in Nat /\ e \in Nat
      /\ Holds(t, 1, StateHeader(s)) /\ Holds(t, 5, GroupsPart(s))
      /\ Holds(t, 5 + b, CountPart(s)) /\ Holds(t, 6 + b, MeasurementsPart(s))
      /\ Holds(t, (6 + b) + d, HealthPart(s))
      /\ Len(t) + 1 = ((6 + b) + d) + e
  BY <1>1, PartsHeld
<1> HIDE DEF t, b, d, e
<1>5. 1 \in Places /\ 4 \in Places /\ 5 + b \in Places /\ (6 + b) + d \in Places
  BY <1>4 DEF Places
<1>6. /\ Has(t, 1, 3) /\ Has(t, 4, 1)
      /\ t[1] = FormatVersion /\ t[2] = s.epoch /\ t[3] = s.live_boot /\ t[4] = Len(s.groups)
  <2> DEFINE h == StateHeader(s)
  <2>1. h \in Seq(Nat) /\ Len(h) = 4
    BY <1>1, EncodeParts
  <2>2. h[1] = FormatVersion /\ h[2] = s.epoch /\ h[3] = s.live_boot /\ h[4] = Len(s.groups)
    BY DEF StateHeader
  <2>3. Has(t, 1, 4) /\ \A i \in Nat : i < 4 => t[1 + i] = h[i + 1]
    <3> HIDE DEF h
    <3>1. Holds(t, 1, h)
      BY <1>4 DEF h
    <3> QED BY <1>3, <1>5, <2>1, <3>1, HoldsField
  <2> HIDE DEF h
  <2>4. 0 \in Nat /\ 1 \in Nat /\ 2 \in Nat /\ 3 \in Nat /\ 0 < 4 /\ 1 < 4 /\ 2 < 4 /\ 3 < 4
    OBVIOUS
  <2>5. 1 + 0 = 1 /\ 0 + 1 = 1 /\ 1 + 1 = 2 /\ 1 + 2 = 3 /\ 2 + 1 = 3 /\ 1 + 3 = 4 /\ 3 + 1 = 4
    OBVIOUS
  <2>6. t[1] = h[1] /\ t[2] = h[2] /\ t[3] = h[3] /\ t[4] = h[4]
    BY <2>3, <2>4, <2>5
  <2>7. Has(t, 1, 3) /\ Has(t, 4, 1)
    BY <2>3, <1>3, LenProperties DEF Has
  <2> QED BY <2>2, <2>6, <2>7
<1>7. GroupsOf(t) = [ok |-> TRUE, pos |-> 5 + b, value |-> s.groups]
  <2> DEFINE item == [p \in Nat \ {0} |-> ReadGroup(t, p)]
             gs == s.groups
             fields == GroupsFields(gs)
  <2>1. item \in Readers(GroupRecord)
    BY <1>3, ReadGroupResult
  <2>2. /\ fields \in Seq(Seq(Nat)) /\ Len(fields) = Len(gs)
        /\ \A k \in 1 .. Len(gs) : fields[k] = GroupFields(gs[k])
    BY <1>2, GroupsFieldsType
  <2>3. ASSUME NEW k \in 1 .. Len(gs), NEW q \in Places, Holds(t, q, fields[k])
        PROVE  item[q] = [ok |-> TRUE, pos |-> q + Len(fields[k]), value |-> gs[k]]
    <3>1. gs[k] \in GroupRecord /\ Len(gs[k].parts) <= MaxCount
      BY <1>1, <1>2, LenProperties
    <3>2. Holds(t, q, GroupFields(gs[k]))
      BY <2>2, <2>3
    <3>3. ReadGroup(t, q) = [ok |-> TRUE, pos |-> q + Len(GroupFields(gs[k])), value |-> gs[k]]
      BY <3>1, <3>2, <1>3, GroupBack
    <3>4. item[q] = ReadGroup(t, q)
      BY DEF Places
    <3> QED BY <3>3, <3>4, <2>2
  <2>4. GroupsOf(t) = ReadCounted(t, 4, item)
    BY DEF GroupsOf
  <2>5. FlattenSeq(fields) = GroupsPart(s)
    BY DEF GroupsPart
  <2> HIDE DEF item, fields
  <2>6. Reads(item, t, gs, fields)
    BY <2>3 DEF Reads
  <2>7. Holds(t, 4 + 1, FlattenSeq(fields)) /\ 4 + 1 = 5
    BY <2>5, <1>4
  <2>8. gs \in Seq(GroupRecord) /\ Len(gs) <= MaxCount /\ t[4] = Len(gs)
    BY <1>1, <1>2, <1>6
  <2> HIDE DEF gs
  <2>9. 4 \in Places /\ Has(t, 4, 1) /\ t \in Seq(Nat)
    BY <1>3, <1>5, <1>6
  <2>10. fields \in Seq(Seq(Nat)) /\ Len(fields) = Len(gs)
    BY <2>2
  <2>11. ReadCounted(t, 4, item) = [ok |-> TRUE, pos |-> (4 + 1) + Len(FlattenSeq(fields)), value |-> gs]
    BY <2>1, <2>6, <2>7, <2>8, <2>9, <2>10, CountedBack
  <2> QED BY <2>4, <2>5, <2>7, <2>11 DEF gs, b
<1>8. MeasurementsOf(t) = [ok |-> TRUE, pos |-> (6 + b) + d, value |-> s.measurements]
  <2> DEFINE item == [p \in Nat \ {0} |-> ReadMeasurement(t, p)]
             ms == s.measurements
             fields == MeasurementFields(ms)
  <2>1. item \in Readers(MeasurementRecord)
    BY <1>3, ReadMeasurementResult
  <2>2. /\ fields \in Seq(Seq(Nat)) /\ Len(fields) = Len(ms)
        /\ \A k \in 1 .. Len(ms) : fields[k] = <<ms[k].id, ms[k].fresh>> /\ Len(fields[k]) = 2
    BY <1>2, MeasurementFieldsType
  <2>3. ASSUME NEW k \in 1 .. Len(ms), NEW q \in Places, Holds(t, q, fields[k])
        PROVE  item[q] = [ok |-> TRUE, pos |-> q + Len(fields[k]), value |-> ms[k]]
    <3>1. ms[k] \in MeasurementRecord
      BY <1>2, LenProperties
    <3>2. ReadMeasurement(t, q) = [ok |-> TRUE, pos |-> q + 2, value |-> ms[k]]
      BY <3>1, <2>2, <2>3, <1>3, MeasurementBack
    <3>3. item[q] = ReadMeasurement(t, q)
      BY DEF Places
    <3> QED BY <3>2, <3>3, <2>2
  <2>4. MeasurementsOf(t) = ReadCounted(t, 5 + b, item)
    BY <1>7 DEF MeasurementsOf
  <2>5. FlattenSeq(fields) = MeasurementsPart(s)
    BY DEF MeasurementsPart
  <2>6. CountPart(s) \in Seq(Nat) /\ Len(CountPart(s)) = 1 /\ CountPart(s)[1] = Len(ms)
    BY <1>1, EncodeParts DEF CountPart
  <2> HIDE DEF item, fields
  <2>7. Has(t, 5 + b, 1) /\ t[5 + b] = Len(ms)
    <3>1. Has(t, 5 + b, 1) /\ \A i \in Nat : i < 1 => t[(5 + b) + i] = CountPart(s)[i + 1]
      <4>1. Holds(t, 5 + b, CountPart(s)) /\ 5 + b \in Places /\ t \in Seq(Nat)
        BY <1>3, <1>4, <1>5
      <4> QED BY <2>6, <4>1, HoldsField
    <3>2. 0 \in Nat /\ 0 < 1 /\ (5 + b) + 0 = 5 + b /\ 0 + 1 = 1
      BY <1>4
    <3> QED BY <3>1, <3>2, <2>6
  <2>8. Reads(item, t, ms, fields)
    BY <2>3 DEF Reads
  <2>9. (5 + b) + 1 = 6 + b
    BY <1>4
  <2>10. ms \in Seq(MeasurementRecord) /\ Len(ms) <= MaxCount
    BY <1>1, <1>2
  <2>11. Holds(t, (5 + b) + 1, FlattenSeq(fields))
    BY <2>5, <2>9, <1>4
  <2> HIDE DEF ms
  <2>12. 5 + b \in Places
    BY <1>5
  <2>13. fields \in Seq(Seq(Nat)) /\ Len(fields) = Len(ms)
    BY <2>2
  <2>14. t \in Seq(Nat)
    BY <1>3
  <2>15. ReadCounted(t, 5 + b, item)
         = [ok |-> TRUE, pos |-> ((5 + b) + 1) + Len(FlattenSeq(fields)), value |-> ms]
    BY <2>1, <2>7, <2>8, <2>10, <2>11, <2>12, <2>13, <2>14, CountedBack
  <2> QED BY <2>4, <2>5, <2>9, <2>15 DEF ms, d
<1>9. HealthOf(t) = [ok |-> TRUE, value |-> s.health, pos |-> ((6 + b) + d) + e]
  <2>1. HealthOf(t) = ReadHealth(t, (6 + b) + d)
    BY <1>8 DEF HealthOf
  <2>2. Holds(t, (6 + b) + d, IF s.health = <<>> THEN <<0>> ELSE <<1, s.health[1]>>)
    BY <1>4 DEF HealthPart
  <2>3. e = Len(IF s.health = <<>> THEN <<0>> ELSE <<1, s.health[1]>>)
    BY DEF e, HealthPart
  <2> QED BY <2>1, <2>2, <2>3, <1>2, <1>3, <1>5, HealthBack
<1>10. Accepts(t)
  <2>1. t[1] <= FormatVersion
    BY <1>6 DEF FormatVersion
  <2>2. HealthOf(t).ok /\ HealthOf(t).pos = Len(t) + 1
    BY <1>4, <1>9
  <2>3. Distinct(GroupsOf(t).value, LAMBDA g : <<g.id, g.gen>>)
    <3>1. GroupsOf(t).value = s.groups
      BY <1>7
    <3>2. Distinct(s.groups, LAMBDA g : <<g.id, g.gen>>)
      BY <1>1
    <3> QED BY <3>1, <3>2
  <2>4. Distinct(MeasurementsOf(t).value, LAMBDA m : m.id)
    <3>1. MeasurementsOf(t).value = s.measurements
      BY <1>8
    <3>2. Distinct(s.measurements, LAMBDA m : m.id)
      BY <1>1
    <3> QED BY <3>1, <3>2
  <2> QED BY <2>1, <2>2, <2>3, <2>4, <1>6 DEF Accepts
<1>11. StateIn(t) = s
  BY <1>2, <1>6, <1>7, <1>8, <1>9 DEF StateIn
<1>12. Decode(t) = Got(s)
  BY <1>10, <1>11, DecodeIs
<1> QED BY <1>1, <1>12 DEF t

-----------------------------------------------------------------------------
(* The file *)

LEMMA FrameIs ==
  ASSUME NEW s, Exported(s)
  PROVE  \E X :
           /\ FrameOf(s) \in Seq(X) /\ 0 \in X
           /\ Len(Encode(s)) \in Nat /\ Len(FrameOf(s)) = 4 + Len(Encode(s))
           /\ FrameOf(s)[1] = Magic /\ FrameOf(s)[2] = FormatVersion
           /\ FrameOf(s)[3] = Len(Encode(s)) /\ FrameOf(s)[4] = Crc(Encode(s))
           /\ SubSeq(FrameOf(s), 5, Len(FrameOf(s))) = Encode(s)
<1> DEFINE e == Encode(s)
           c == Crc(e)
           X == Nat \cup {c}
           h == <<Magic, FormatVersion, Len(e), c>>
           f == h \o e
<1>1. e \in Seq(Nat)
  BY RoundTrip, EncodeType
<1> HIDE DEF c, e
<1>2. Len(e) \in Nat
  BY <1>1, LenProperties
<1>3. e \in Seq(X)
  BY <1>1
<1>4. h \in Seq(X) /\ Len(h) = 4 /\ h[1] = Magic /\ h[2] = FormatVersion /\ h[3] = Len(e) /\ h[4] = c
  BY <1>2 DEF Magic, FormatVersion
<1>5. f = FrameOf(s)
  BY DEF FrameOf, e, c
<1> HIDE DEF h, X
<1>6. /\ f \in Seq(X) /\ Len(f) = Len(h) + Len(e)
      /\ \A i \in 1 .. Len(h) : f[i] = h[i]
      /\ \A i \in 1 .. Len(e) : f[Len(h) + i] = e[i]
  <2>1. h \in Seq(X)
    BY <1>4
  <2> QED BY <2>1, <1>3, Joined
<1> HIDE DEF f
<1>7. f[1] = h[1] /\ f[2] = h[2] /\ f[3] = h[3] /\ f[4] = h[4]
  <2>1. 1 \in 1 .. 4 /\ 2 \in 1 .. 4 /\ 3 \in 1 .. 4 /\ 4 \in 1 .. 4
    OBVIOUS
  <2> QED BY <2>1, <1>4, <1>6
<1>8. SubSeq(f, 5, Len(f)) = e
  <2> DEFINE g == SubSeq(f, 5, Len(f))
  <2>1. Len(f) = 4 + Len(e) /\ 5 \in Int /\ Len(f) \in Int
    BY <1>2, <1>4, <1>6
  <2>2. \A i \in 5 .. Len(f) : f[i] \in X
    BY <1>6, <2>1, LenProperties
  <2>3. /\ g \in Seq(X)
        /\ Len(g) = IF 5 <= Len(f) THEN Len(f) - 5 + 1 ELSE 0
        /\ \A i \in 1 .. Len(f) - 5 + 1 : g[i] = f[5 + i - 1]
    BY <2>1, <2>2, SubSeqProperties
  <2> HIDE DEF g
  <2>4. Len(g) = Len(e) /\ Len(f) - 5 + 1 = Len(e)
    BY <2>1, <2>3, <1>2
  <2>5. ASSUME NEW i \in 1 .. Len(g) PROVE g[i] = e[i]
    <3>1. i \in 1 .. Len(f) - 5 + 1 /\ i \in 1 .. Len(e) /\ 5 + i - 1 = 4 + i
      BY <2>4, <1>2
    <3> QED BY <3>1, <2>3, <1>4, <1>6
  <2>6. g = e
    BY <2>3, <2>4, <2>5, <1>3, SeqEqual
  <2> QED BY <2>6 DEF g
<1>9. 0 \in X
  BY DEF X
<1> QED BY <1>2, <1>4, <1>5, <1>6, <1>7, <1>8, <1>9 DEF e, c

\* What save writes is what load returns.
LEMMA LoadBack ==
  ASSUME NEW s, Exported(s)
  PROVE  Load(FrameOf(s)) = Got(s)
<1> DEFINE f == FrameOf(s)
           e == Encode(s)
<1>1. /\ Len(e) \in Nat /\ Len(f) = 4 + Len(e)
      /\ f[1] = Magic /\ f[2] = FormatVersion /\ f[3] = Len(e) /\ f[4] = Crc(e)
      /\ SubSeq(f, 5, Len(f)) = e
  BY FrameIs
<1>2. Decode(e) = Got(s)
  BY RoundTrip
<1> HIDE DEF f, e
<1>3. Len(f) >= 4 /\ f[2] <= FormatVersion /\ f[3] = Len(f) - 4
  BY <1>1 DEF FormatVersion
<1>4. Load(f) = Got(s)
  BY <1>1, <1>2, <1>3 DEF Load
<1> QED BY <1>4 DEF f

\* The beginning of a frame.
LEMMA Prefix ==
  ASSUME NEW s, Exported(s), NEW n \in 0 .. Len(FrameOf(s)) - 1
  PROVE  /\ Len(FrameOf(s)) \in Nat
         /\ Len(SubSeq(FrameOf(s), 1, n)) = n
         /\ Load(SubSeq(FrameOf(s), 1, n)) = Failed
<1> DEFINE f == FrameOf(s)
           g == SubSeq(f, 1, n)
           e == Encode(s)
<1>1. PICK X : f \in Seq(X) /\ Len(e) \in Nat /\ Len(f) = 4 + Len(e) /\ f[3] = Len(e)
  BY FrameIs
<1>2. n \in Nat /\ n < Len(f) /\ Len(f) \in Nat
  BY <1>1
<1> HIDE DEF f, e
<1>3. /\ Len(g) = IF 1 <= n THEN n - 1 + 1 ELSE 0
      /\ \A i \in 1 .. n - 1 + 1 : g[i] = f[1 + i - 1]
  <2>1. \A i \in 1 .. n : f[i] \in X
    BY <1>1, <1>2, LenProperties
  <2>2. 1 \in Int /\ n \in Int
    BY <1>2
  <2> QED BY <2>1, <2>2, SubSeqProperties
<1> HIDE DEF g
<1>4. Len(g) = n
  BY <1>2, <1>3
<1>5. Load(g) = Failed
  <2>1. CASE n < 4
    BY <2>1, <1>2, <1>4 DEF Load
  <2>2. CASE n >= 4
    <3>1. 3 \in 1 .. n - 1 + 1 /\ 1 + 3 - 1 = 3
      BY <2>2, <1>2
    <3>2. g[3] = Len(e)
      BY <3>1, <1>1, <1>3
    <3>3. ~ (g[3] = Len(g) - 4)
      BY <3>2, <1>1, <1>2, <1>4
    <3> QED BY <3>3 DEF Load
  <2> QED BY <2>1, <2>2, <1>2
<1> QED BY <1>2, <1>4, <1>5 DEF f, g

\* The payload of a file.
LEMMA PayloadOf ==
  ASSUME NEW X, NEW f \in Seq(X), NEW m \in Nat, Len(f) = 4 + m
  PROVE  /\ SubSeq(f, 5, Len(f)) \in Seq(X) /\ Len(SubSeq(f, 5, Len(f))) = m
         /\ \A i \in 1 .. m : SubSeq(f, 5, Len(f))[i] = f[4 + i]
<1> DEFINE n == Len(f)
           g == SubSeq(f, 5, n)
<1>1. n = 4 + m /\ n \in Int /\ 5 \in Int
  OBVIOUS
<1>2. \A i \in 5 .. n : f[i] \in X
  BY <1>1, LenProperties
<1> HIDE DEF n
<1>3. /\ g \in Seq(X)
      /\ Len(g) = IF 5 <= n THEN n - 5 + 1 ELSE 0
      /\ \A i \in 1 .. n - 5 + 1 : g[i] = f[5 + i - 1]
  BY <1>1, <1>2, SubSeqProperties
<1> HIDE DEF g
<1>4. Len(g) = m /\ n - 5 + 1 = m
  BY <1>1, <1>3
<1>5. ASSUME NEW i \in 1 .. m PROVE g[i] = f[4 + i]
  <2>1. i \in 1 .. n - 5 + 1 /\ 5 + i - 1 = 4 + i
    BY <1>4
  <2> QED BY <2>1, <1>3
<1> QED BY <1>3, <1>4, <1>5 DEF g, n

\* A sequence that ends in zeros.
ZeroedFrom(X, f, n, g) ==
  /\ g \in Seq(X) /\ Len(g) = Len(f)
  /\ \A i \in 1 .. n : g[i] = f[i]
  /\ \A i \in n + 1 .. Len(f) : g[i] = 0

LEMMA ZeroedAt ==
  ASSUME NEW X, NEW f \in Seq(X), 0 \in X, NEW n, n \in 0 .. Len(f) - 1,
         NEW g, g = SubSeq(f, 1, n) \o Zeros(Len(f) - n)
  PROVE  ZeroedFrom(X, f, n, g)
<1> DEFINE a == SubSeq(f, 1, n)
           m == Len(f) - n
           z == Zeros(m)
<1>1. n \in Nat /\ m \in Nat /\ Len(f) = n + m /\ 1 \in Int /\ n \in Int
  BY LenProperties
<1>2. g = a \o z
  OBVIOUS
<1> HIDE DEF m
<1>3. /\ a \in Seq(X)
      /\ Len(a) = IF 1 <= n THEN n - 1 + 1 ELSE 0
      /\ \A i \in 1 .. n - 1 + 1 : a[i] = f[1 + i - 1]
  <2>1. \A i \in 1 .. n : f[i] \in X
    BY <1>1, LenProperties
  <2> QED BY <2>1, <1>1, SubSeqProperties
<1>4. Len(a) = n /\ \A i \in 1 .. n : a[i] = f[i]
  <2>1. n - 1 + 1 = n /\ \A i \in 1 .. n : 1 + i - 1 = i
    BY <1>1
  <2> HIDE DEF a
  <2> QED BY <2>1, <1>1, <1>3
<1>5. z \in Seq(X) /\ Len(z) = m /\ \A i \in 1 .. m : z[i] = 0
  <2>1. z \in [1 .. m -> X] /\ DOMAIN z = 1 .. m /\ \A i \in 1 .. m : z[i] = 0
    BY DEF Zeros
  <2> HIDE DEF z
  <2> QED BY <2>1, <1>1
<1> HIDE DEF a, z
<1>6. /\ a \o z \in Seq(X) /\ Len(a \o z) = Len(a) + Len(z)
      /\ \A i \in 1 .. Len(a) : (a \o z)[i] = a[i]
      /\ \A i \in 1 .. Len(z) : (a \o z)[Len(a) + i] = z[i]
  <2>1. a \in Seq(X) /\ z \in Seq(X)
    BY <1>3, <1>5
  <2> QED BY ONLY <2>1, Joined
<1>7. Len(g) = Len(f) /\ \A i \in 1 .. n : g[i] = f[i]
  BY <1>1, <1>2, <1>4, <1>5, <1>6
<1>8. ASSUME NEW i \in n + 1 .. Len(f) PROVE g[i] = 0
  <2>1. i - n \in 1 .. m /\ n + (i - n) = i
    BY <1>1
  <2>2. (a \o z)[n + (i - n)] = z[i - n]
    BY <2>1, <1>4, <1>5, <1>6
  <2> QED BY <2>1, <2>2, <1>2, <1>5
<1> QED BY <1>2, <1>6, <1>7, <1>8 DEF ZeroedFrom

\* A torn file is cut, and then does not load, or has kept its size.
LEMMA Torn ==
  ASSUME NEW s, Exported(s), NEW f \in TornOf(FrameOf(s))
  PROVE  /\ Len(f) < Len(FrameOf(s)) => Load(f) = Failed
         /\ Load(f) = Failed \/ f \in ZeroedOf(FrameOf(s))
<1>1. CASE f \in {SubSeq(FrameOf(s), 1, n) : n \in 0 .. Len(FrameOf(s)) - 1}
  BY <1>1, Prefix
<1>2. CASE f \in ZeroedOf(FrameOf(s))
  <2>1. PICK X : FrameOf(s) \in Seq(X) /\ 0 \in X /\ Len(FrameOf(s)) \in Nat
    BY FrameIs, LenProperties
  <2> DEFINE g == FrameOf(s)
  <2>2. PICK n \in 0 .. Len(g) - 1 : f = SubSeq(g, 1, n) \o Zeros(Len(g) - n)
    BY <1>2 DEF ZeroedOf
  <2> HIDE DEF g
  <2>3. Len(f) = Len(g)
    <3>1. g \in Seq(X) /\ 0 \in X
      BY <2>1 DEF g
    <3>2. ZeroedFrom(X, g, n, f)
      BY <3>1, <2>2, ZeroedAt, Zenon
    <3> QED BY <3>2 DEF ZeroedFrom
  <2> QED BY <2>1, <2>3, <1>2 DEF g
<1> QED BY <1>1, <1>2 DEF TornOf

\* A payload has fields.
LEMMA PayloadNotEmpty ==
  ASSUME NEW s, Exported(s)
  PROVE  Len(Encode(s)) \in Nat /\ Len(Encode(s)) # 0
<1> DEFINE e == Encode(s)
<1>1. Len(e) \in Nat /\ Decode(e) = Got(s)
  BY FrameIs, RoundTrip
<1> HIDE DEF e
<1>2. Got(s) # Failed
  <2>1. Got(s).ok # Failed.ok
    BY DEF Got, Failed
  <2> QED BY <2>1
<1>3. Has(e, 1, 3)
  BY <1>1, <1>2 DEF Decode
<1>4. Len(e) # 0
  BY <1>1, <1>3 DEF Has
<1> QED BY <1>1, <1>4 DEF e

\* A file whose header is right, with a payload that the checksum was compared with.
LEMMA LoadOf ==
  ASSUME NEW f
  PROVE  \/ Load(f) = Failed
         \/ /\ f[1] = Magic /\ f[3] = Len(f) - 4
            /\ f[4] = Crc(SubSeq(f, 5, Len(f)))
            /\ Load(f) = Decode(SubSeq(f, 5, Len(f)))
BY DEF Load

\* A state file that holds zeros from some cell on is refused, or the zeros were
\* there before: without the length it has no payload, without the checksum none
\* but zeros.
LEMMA ZeroedLoads ==
  ASSUME NEW s \in States, Exported(s), NEW f \in ZeroedOf(FrameOf(s))
  PROVE  Load(f) \in {Failed, Got(s)}
<1> DEFINE g == FrameOf(s)
           e == Encode(s)
           m == Len(e)
           p == SubSeq(f, 5, Len(f))
<1>1. PICK X :
        /\ g \in Seq(X) /\ 0 \in X /\ m \in Nat /\ Len(g) = 4 + m
        /\ g[3] = m /\ g[4] = Crc(e) /\ SubSeq(g, 5, Len(g)) = e
  BY FrameIs
<1>2. PICK n \in 0 .. Len(g) - 1 : f = SubSeq(g, 1, n) \o Zeros(Len(g) - n)
  BY DEF ZeroedOf
<1>3. m # 0 /\ Decode(e) = Got(s)
  BY PayloadNotEmpty, RoundTrip
<1>4. e \in Seq(Nat)
  BY RoundTrip, EncodeType
<1> HIDE DEF g, e
<1>5. /\ f \in Seq(X) /\ Len(f) = Len(g)
      /\ \A i \in 1 .. n : f[i] = g[i]
      /\ \A i \in n + 1 .. Len(g) : f[i] = 0
  <2>1. g \in Seq(X) /\ 0 \in X
    BY <1>1
  <2>2. ZeroedFrom(X, g, n, f)
    BY <2>1, <1>2, ZeroedAt, Zenon
  <2> QED BY <2>2 DEF ZeroedFrom
<1>6. m \in Nat /\ Len(f) = 4 + m /\ n \in 0 .. 3 + m
  BY <1>1, <1>5
<1> HIDE DEF m
<1>7. p \in Seq(X) /\ Len(p) = m /\ \A i \in 1 .. m : p[i] = f[4 + i]
  BY <1>5, <1>6, PayloadOf
<1>8. e \in Seq(X) /\ \A i \in 1 .. m : e[i] = g[4 + i]
  BY <1>1, PayloadOf
<1> HIDE DEF p
<1>9. CASE n < 3
  <2>1. 3 \in n + 1 .. Len(g)
    BY <1>1, <1>9
  <2>2. f[3] # Len(f) - 4
    BY <2>1, <1>3, <1>5, <1>6
  <2> QED BY <2>2, LoadOf
<1>10. CASE n = 3
  <2>1. f[4] = 0
    BY <1>1, <1>5, <1>10
  <2>2. p = Zeros(m)
    <3>1. \A i \in 1 .. m : p[i] = 0
      <4> TAKE i \in 1 .. m
      <4>1. 4 + i \in n + 1 .. Len(g)
        BY <1>1, <1>10
      <4> QED BY <4>1, <1>5, <1>7
    <3>2. p = [i \in 1 .. m |-> p[i]]
      BY <1>7, LenProperties
    <3> QED BY <3>1, <3>2 DEF Zeros
  <2>3. Crc(Zeros(m)) # 0
    BY ChecksumAssumption DEF m, e
  <2> QED BY <2>1, <2>2, <2>3, LoadOf DEF p
<1>11. CASE n >= 4
  <2> DEFINE k == n - 4
             q == SubSeq(e, 1, k) \o Zeros(m - k)
  <2>1. f[4] = Crc(e)
    BY <1>1, <1>5, <1>11
  <2>2. k \in 0 .. m - 1 /\ n = 4 + k
    BY <1>6, <1>11
  <2> HIDE DEF k
  <2>3. /\ q \in Seq(X) /\ Len(q) = m
        /\ \A i \in 1 .. k : q[i] = e[i]
        /\ \A i \in k + 1 .. m : q[i] = 0
    <3>1. k \in 0 .. Len(e) - 1 /\ q = SubSeq(e, 1, k) \o Zeros(Len(e) - k)
      BY <2>2 DEF m
    <3>2. 0 \in X /\ e \in Seq(X) /\ Len(e) = m
      BY <1>1, <1>8 DEF m
    <3> HIDE DEF q
    <3>3. ZeroedFrom(X, e, k, q)
      BY <3>1, <3>2, ZeroedAt, Zenon
    <3> QED BY <3>2, <3>3 DEF ZeroedFrom
  <2>4. q \in ZeroedOf(e)
    BY <2>2 DEF ZeroedOf, m
  <2> HIDE DEF q
  <2>5. ASSUME NEW i \in 1 .. m PROVE p[i] = q[i]
    <3>1. CASE i <= k
      <4>1. i \in 1 .. k /\ 4 + i \in 1 .. n
        BY <3>1, <2>2
      <4> QED BY <4>1, <2>3, <1>5, <1>7, <1>8
    <3>2. CASE ~ (i <= k)
      <4>1. i \in k + 1 .. m /\ 4 + i \in n + 1 .. Len(g)
        BY <3>2, <2>2, <1>1, <1>6
      <4> QED BY <4>1, <2>3, <1>5, <1>7
    <3> QED BY <3>1, <3>2
  <2>6. p = q
    BY <2>3, <2>5, <1>7, SeqEqual
  <2>7. Crc(q) = Crc(e) => q = e
    BY <2>4, ChecksumAssumption DEF e
  <2> QED BY <2>1, <2>6, <2>7, <1>3, LoadOf DEF p
<1> QED BY <1>6, <1>9, <1>10, <1>11

\* A change of one cell is among the changes.
LEMMA ChangedIs ==
  ASSUME NEW t, NEW k \in DOMAIN t, NEW v \in 0 .. MaxField
  PROVE  [t EXCEPT ![k] = v] \in ChangedOf(t)
BY DEF ChangedOf

\* A file with one cell changed is refused, or the cell was the version.
LEMMA ChangedLoads ==
  ASSUME NEW s \in States, Exported(s), NEW f \in ChangedOf(FrameOf(s))
  PROVE  Load(f) \in {Failed, Got(s)}
<1> DEFINE g == FrameOf(s)
           e == Encode(s)
           m == Len(e)
           p == SubSeq(f, 5, Len(f))
<1>1. PICK X :
        /\ g \in Seq(X) /\ 0 \in X /\ m \in Nat /\ Len(g) = 4 + m
        /\ g[1] = Magic /\ g[3] = m /\ g[4] = Crc(e) /\ SubSeq(g, 5, Len(g)) = e
  BY FrameIs
<1>2. PICK c \in DOMAIN g, v \in 0 .. MaxField : f = [g EXCEPT ![c] = v]
  BY DEF ChangedOf
<1>3. Decode(e) = Got(s)
  BY RoundTrip
<1>4. e \in Seq(Nat)
  BY RoundTrip, EncodeType
<1> HIDE DEF g, e
<1> DEFINE Y == X \cup {v}
<1>5. g \in Seq(Y) /\ DOMAIN g = 1 .. Len(g) /\ c \in 1 .. Len(g) /\ v \in Y
  BY <1>1, LenProperties
<1> HIDE DEF Y
<1>6. /\ f \in Seq(Y) /\ Len(f) = Len(g) /\ f[c] = v
      /\ \A i \in 1 .. Len(g) : i # c => f[i] = g[i]
  <2>1. f \in Seq(Y) /\ Len(f) = Len(g)
    BY <1>2, <1>5, ExceptSeq
  <2> QED BY <2>1, <1>2, <1>5
<1>7. m \in Nat /\ Len(f) = 4 + m /\ c \in 1 .. 4 + m
  BY <1>1, <1>5, <1>6
<1>8. m = Len(e)
  OBVIOUS
<1> HIDE DEF m
<1>9. p \in Seq(Y) /\ Len(p) = m /\ \A i \in 1 .. m : p[i] = f[4 + i]
  BY <1>6, <1>7, PayloadOf
<1>10. \A i \in 1 .. m : e[i] = g[4 + i]
  BY <1>1, PayloadOf
<1> HIDE DEF p
<1>11. CASE c <= 4
  <2>1. p = e
    <3>1. ASSUME NEW i \in 1 .. m PROVE p[i] = e[i]
      <4>1. 4 + i \in 1 .. Len(g) /\ 4 + i # c
        BY <1>1, <1>7, <1>11
      <4> QED BY <4>1, <1>6, <1>9, <1>10
    <3> QED BY <3>1, <1>4, <1>8, <1>9, SeqEqual
  <2> QED BY <2>1, <1>3, LoadOf DEF p
<1>12. CASE c > 4
  <2> DEFINE k == c - 4
             q == [e EXCEPT ![k] = v]
  <2>1. f[4] = Crc(e)
    BY <1>1, <1>6, <1>7, <1>12
  <2>2. k \in 1 .. m /\ c = 4 + k
    BY <1>7, <1>12
  <2> HIDE DEF k
  <2>3. DOMAIN e = 1 .. m
    BY <1>4, <1>8, LenProperties
  <2>4. q \in ChangedOf(e)
    <3>1. k \in DOMAIN e /\ v \in 0 .. MaxField
      BY <2>2, <2>3
    <3> QED BY <3>1, ChangedIs
  <2>5. q = [i \in 1 .. m |-> q[i]] /\ q[k] = v /\ \A i \in 1 .. m : i # k => q[i] = e[i]
    BY <2>2, <2>3
  <2>6. p = [i \in 1 .. m |-> p[i]]
    BY <1>9, LenProperties
  <2> HIDE DEF q
  <2>7. ASSUME NEW i \in 1 .. m PROVE p[i] = q[i]
    <3>1. CASE i = k
      <4>1. p[i] = f[c]
        BY <3>1, <2>2, <1>9
      <4> QED BY <4>1, <3>1, <2>5, <1>6
    <3>2. CASE i # k
      <4>1. 4 + i \in 1 .. Len(g) /\ 4 + i # c
        BY <3>2, <2>2, <1>1, <1>7
      <4> QED BY <4>1, <3>2, <2>5, <1>6, <1>9, <1>10
    <3> QED BY <3>1, <3>2
  <2>8. p = q
    BY <2>5, <2>6, <2>7
  <2>9. Crc(q) = Crc(e) => q = e
    BY <2>4, ChecksumAssumption DEF e
  <2> QED BY <2>1, <2>8, <2>9, <1>3, LoadOf DEF p
<1> QED BY <1>7, <1>11, <1>12

-----------------------------------------------------------------------------
(* What is read can be written again *)

\* As many items as were asked for.
LEMMA ReadItemsLength ==
  ASSUME NEW T, NEW start \in Places, NEW n \in Nat, NEW item \in Readers(T),
         ReadItems(start, n, item).ok
  PROVE  Len(ReadItems(start, n, item).value) = n
<1>1. PICK f : ReadBy(f, T, start, n, item)
  BY ItemByItem
<1>2. /\ f \in [0 .. n -> Results(Seq(T))]
      /\ f[0] = [ok |-> TRUE, pos |-> start, value |-> <<>>]
      /\ \A k \in 1 .. n : f[k] = Next1(item, f[k - 1])
  BY <1>1 DEF ReadBy
<1> DEFINE G == {k \in 0 .. n : f[k].ok => Len(f[k].value) = k}
<1>3. 0 \in G
  BY <1>2, EmptySeq
<1>4. ASSUME NEW k \in 0 .. n, k < n, k \in G PROVE k + 1 \in G
  <2>1. k + 1 \in 1 .. n /\ (k + 1) - 1 = k /\ k + 1 \in 0 .. n
    BY <1>4
  <2>2. f[k + 1] = Next1(item, f[k]) /\ f[k] \in Results(Seq(T))
    BY <2>1, <1>2
  <2> DEFINE r == f[k]
             more == IF r.ok THEN item[r.pos] ELSE Failed
  <2>3. ASSUME f[k + 1].ok PROVE Len(f[k + 1].value) = k + 1
    <3>1. more.ok /\ f[k + 1].value = Append(r.value, more.value)
      BY <2>2, <2>3 DEF Next1, Failed
    <3>2. r.ok
      BY <3>1 DEF Failed
    <3>3. r.pos \in Places /\ r.value \in Seq(T) /\ Len(r.value) = k
      BY <3>2, <2>2, <1>4, ResultFields
    <3>4. more \in Results(T)
      BY <3>2, <3>3 DEF Readers
    <3> HIDE DEF r, more
    <3>5. more.value \in T
      BY <3>1, <3>4, ResultFields
    <3>6. Len(Append(r.value, more.value)) = Len(r.value) + 1
      BY <3>3, <3>5, AppendProperties
    <3> QED BY <3>1, <3>3, <3>6
  <2> QED BY <2>1, <2>3
<1> HIDE DEF G
<1>5. 0 .. n \subseteq G
  BY <1>3, <1>4, UpTo
<1>6. n \in G
  BY <1>5
<1> QED BY <1>1, <1>6 DEF G, ReadBy

\* A count that decode accepts.
LEMMA ReadCountedLength ==
  ASSUME NEW T, NEW t \in Seq(Nat), NEW pos \in Places, NEW item \in Readers(T),
         ReadCounted(t, pos, item).ok
  PROVE  Len(ReadCounted(t, pos, item).value) <= MaxCount
<1>1. Has(t, pos, 1) /\ t[pos] <= MaxCount /\ ReadCounted(t, pos, item) = ReadItems(pos + 1, t[pos], item)
  BY DEF ReadCounted, Failed
<1>2. t[pos + 0] \in Nat /\ pos + 0 = pos /\ pos + 1 \in Places
  <2>1. 0 \in Nat /\ 1 \in Nat /\ 0 < 1 /\ pos + 0 = pos /\ pos + 1 \in Places
    BY DEF Places
  <2> QED BY <2>1, <1>1, Fields
<1>3. Len(ReadItems(pos + 1, t[pos], item).value) = t[pos]
  BY <1>1, <1>2, ReadItemsLength
<1> QED BY <1>1, <1>3

\* The participants of a group that decode accepts.
CountedGroup == {g \in GroupRecord : Len(g.parts) <= MaxCount}

LEMMA PartsAtLength ==
  ASSUME NEW t \in Seq(Nat), NEW pos \in Places, Has(t, pos, 4), PartsAt(t, pos).ok
  PROVE  Len(PartsAt(t, pos).value) <= MaxCount
<1> DEFINE item == [p \in Nat \ {0} |-> ReadParticipant(t, p)]
<1>1. t[pos + 3] <= MaxCount /\ PartsAt(t, pos) = ReadItems(pos + 4, t[pos + 3], item)
  BY DEF PartsAt, Failed
<1>2. pos + 4 \in Places /\ 3 \in Nat /\ 4 \in Nat /\ 3 < 4
  BY DEF Places
<1>3. t[pos + 3] \in Nat
  BY <1>2, Fields
<1>4. item \in Readers(ParticipantRecord)
  BY ReadParticipantResult
<1> HIDE DEF item
<1>5. Len(ReadItems(pos + 4, t[pos + 3], item).value) = t[pos + 3]
  BY <1>1, <1>2, <1>3, <1>4, ReadItemsLength
<1> QED BY <1>1, <1>5

LEMMA ReadGroupCounted ==
  ASSUME NEW t \in Seq(Nat)
  PROVE  [p \in Nat \ {0} |-> ReadGroup(t, p)] \in Readers(CountedGroup)
<1>1. ASSUME NEW p \in Places PROVE ReadGroup(t, p) \in Results(CountedGroup)
  <2> DEFINE item == [q \in Nat \ {0} |-> ReadGroup(t, q)]
             r == ReadGroup(t, p)
  <2>1. r \in Results(GroupRecord)
    <3>1. item \in Readers(GroupRecord) /\ item[p] = r
      BY ReadGroupResult DEF Places
    <3> HIDE DEF item, r
    <3> QED BY <3>1 DEF Readers
  <2>2. ASSUME r.ok PROVE r.value.parts = PartsAt(t, p).value /\ PartsAt(t, p).ok /\ Has(t, p, 4)
    BY <2>2 DEF ReadGroup, PartsAt, Failed
  <2> HIDE DEF r
  <2>3. CASE r.ok
    <3>1. r.value \in CountedGroup
      BY <2>1, <2>2, <2>3, ResultFields, PartsAtLength DEF CountedGroup
    <3> QED BY <3>1, <2>1, <2>3, ResultFields DEF Results, r
  <2>4. CASE ~ r.ok
    BY <2>1, <2>4, ResultFields DEF Results, r
  <2> QED BY <2>3, <2>4
<1> QED BY <1>1 DEF Readers, Places

\* Whatever decode accepts is a state that the runtime could have exported.
LEMMA AcceptedIsExported ==
  ASSUME NEW t \in Seq(Nat), Decode(t).ok
  PROVE  Exported(Decode(t).value)
<1> DEFINE gs == GroupsOf(t)
           ms == MeasurementsOf(t)
           s == Decode(t).value
<1>1. Accepts(t) /\ s = StateIn(t)
  BY DecodeIs DEF Failed, Got
<1>2. HealthOf(t).ok /\ ms.ok /\ gs.ok
  BY <1>1 DEF Accepts, HealthOf, MeasurementsOf, Failed
<1>3. s \in StateRecord
  BY DecodeResult
<1>4. gs \in Results(Seq(CountedGroup)) /\ Len(gs.value) <= MaxCount /\ gs.pos \in Places
  <2> DEFINE item == [p \in Nat \ {0} |-> ReadGroup(t, p)]
  <2>1. item \in Readers(CountedGroup) /\ gs = ReadCounted(t, 4, item) /\ 4 \in Places
    BY ReadGroupCounted DEF GroupsOf, Places
  <2> HIDE DEF item, gs
  <2>2. gs \in Results(Seq(CountedGroup)) /\ Len(gs.value) <= MaxCount
    BY <2>1, <1>2, ReadCountedResult, ReadCountedLength
  <2> QED BY <2>2, <1>2, ResultFields
<1>5. Len(ms.value) <= MaxCount
  <2> DEFINE item == [p \in Nat \ {0} |-> ReadMeasurement(t, p)]
  <2>1. item \in Readers(MeasurementRecord) /\ ms = ReadCounted(t, gs.pos, item)
    BY <1>2, ReadMeasurementResult DEF MeasurementsOf
  <2> HIDE DEF item, gs, ms
  <2> QED BY <2>1, <1>2, <1>4, ReadCountedLength
<1>6. \A i \in DOMAIN gs.value : Len(gs.value[i].parts) <= MaxCount
  <2> HIDE DEF gs
  <2>1. gs.value \in Seq(CountedGroup)
    BY <1>2, <1>4, ResultFields
  <2>2. \A i \in DOMAIN gs.value : gs.value[i] \in CountedGroup
    BY <2>1, LenProperties
  <2> QED BY <2>2 DEF CountedGroup
<1>7. s.groups = gs.value /\ s.measurements = ms.value
  BY <1>1 DEF StateIn
<1>8. Distinct(s.groups, LAMBDA g : <<g.id, g.gen>>) /\ Distinct(s.measurements, LAMBDA m : m.id)
  BY <1>1, <1>7 DEF Accepts
<1> HIDE DEF s, gs, ms
<1>9. Len(s.groups) <= MaxCount /\ Len(s.measurements) <= MaxCount
      /\ \A i \in DOMAIN s.groups : Len(s.groups[i].parts) <= MaxCount
  BY <1>4, <1>5, <1>6, <1>7
<1>10. Exported(s)
  BY <1>3, <1>8, <1>9 DEF Exported, StateRecord, HealthFields
<1> QED BY <1>10 DEF s

\* A file with whatever contents of numbers that load accepts, once written again,
\* loads as the same state: what load lets through, save and load keep
\* (store.cpp decode's checks are no weaker than encode needs).
THEOREM LoadedMayBeSaved ==
  ASSUME NEW f \in Seq(Nat), Load(f).ok
  PROVE  Load(FrameOf(Load(f).value)) = Load(f)
<1> DEFINE t == SubSeq(f, 5, Len(f))
<1>1. f[3] = Len(f) - 4 /\ Len(f) >= 4 /\ Load(f) = Decode(t)
  BY DEF Load, Failed
<1>2. t \in Seq(Nat)
  <2>1. Len(f) \in Nat
    BY LenProperties
  <2> DEFINE m == Len(f) - 4
  <2>2. m \in Nat /\ Len(f) = 4 + m
    BY <1>1, <2>1
  <2> HIDE DEF m
  <2> DEFINE X == Nat
  <2>3. f \in Seq(X)
    OBVIOUS
  <2> HIDE DEF X
  <2>4. SubSeq(f, 5, Len(f)) \in Seq(X)
    BY <2>2, <2>3, PayloadOf
  <2> QED BY <2>4 DEF X
<1> HIDE DEF t
<1>3. Exported(Decode(t).value)
  BY <1>1, <1>2, AcceptedIsExported
<1>4. Decode(t) = Got(Decode(t).value)
  <2>1. Accepts(t) /\ Decode(t) = Got(StateIn(t))
    BY <1>1, DecodeIs DEF Failed
  <2> QED BY <2>1 DEF Got
<1>5. Load(FrameOf(Decode(t).value)) = Got(Decode(t).value)
  BY <1>3, LoadBack
<1> QED BY <1>1, <1>4, <1>5

-----------------------------------------------------------------------------
(* The inductive invariant *)

\* Only an exported state is ever written ...
Running == proc = "run" => mem \in States

\* ... it does not change during a save ...
Frozen == spc # "idle" => snap = FrameOf(mem)

\* ... and the temporary file has some of its frame, or all.
Written ==
  /\ spc = "writing" => \E n \in 0 .. Len(snap) - 1 : tmp = Got(SubSeq(snap, 1, n))
  /\ spc = "closed" => tmp = Got(snap)

\* The state file is the frame of the last state renamed, or torn from it.
Kept ==
  main.ok => \E s \in States :
    /\ lastSaved = Got(s)
    /\ medium # "torn" => main = Got(FrameOf(s))
    /\ medium = "torn" => \E f \in TornOf(FrameOf(s)) : main = Got(f)

IInv == TypeOK /\ Running /\ Frozen /\ Written /\ Kept

LEMMA SavedFrame ==
  ASSUME NEW s \in States
  PROVE  Exported(s) /\ Len(FrameOf(s)) \in Nat /\ Len(FrameOf(s)) > 0
<1>1. Exported(s)
  BY StoreAssumption
<1>2. Len(Encode(s)) \in Nat /\ Len(FrameOf(s)) = 4 + Len(Encode(s))
  BY <1>1, FrameIs
<1> QED BY <1>1, <1>2

LEMMA InitIInv == Init => IInv
<1> SUFFICES ASSUME Init PROVE IInv
  OBVIOUS
<1> QED BY DEF Init, IInv, TypeOK, Running, Frozen, Written, Kept, NoFile, Failed

LEMMA NextIInv == IInv /\ [Next]_vars => IInv'
<1> SUFFICES ASSUME IInv, [Next]_vars PROVE IInv'
  OBVIOUS
<1>0. TypeOK /\ Running /\ Frozen /\ Written /\ Kept
  BY DEF IInv
<1>1. CASE Change
  <2> USE <1>1 DEF Change
  <2>1. TypeOK'
    BY <1>0 DEF TypeOK
  <2>2. Running' /\ Frozen' /\ Written'
    BY DEF Running, Frozen, Written
  <2>3. Kept'
    BY <1>0 DEF Kept
  <2> QED BY <2>1, <2>2, <2>3 DEF IInv
<1>2. CASE SaveOpen
  <2> USE <1>2 DEF SaveOpen
  <2>1. mem \in States
    BY <1>0 DEF Running
  <2>2. Len(FrameOf(mem)) \in Nat /\ Len(FrameOf(mem)) > 0
    BY <2>1, SavedFrame
  <2>3. TypeOK'
    BY <1>0, <2>2, EmptySeq DEF TypeOK, Got
  <2>4. Running' /\ Frozen'
    BY <1>0 DEF Running, Frozen
  <2>5. Written'
    <3>1. 0 \in 0 .. Len(FrameOf(mem)) - 1
      BY <2>2
    <3>2. SubSeq(FrameOf(mem), 1, 0) = <<>>
      BY SubSeqEmpty
    <3> QED BY <3>1, <3>2 DEF Written
  <2>6. Kept'
    BY <1>0 DEF Kept
  <2> QED BY <2>3, <2>4, <2>5, <2>6 DEF IInv
<1>3. CASE SaveWrite
  <2>1. /\ proc = "run" /\ spc = "writing" /\ mem \in States /\ snap = FrameOf(mem)
        /\ UNCHANGED <<mem, proc, snap, main, medium, lastSaved, recovered>>
    BY <1>0, <1>3 DEF SaveWrite, Running, Frozen
  <2>2. PICK k \in 0 .. Len(snap) - 1 : tmp = Got(SubSeq(snap, 1, k))
    BY <1>0, <2>1 DEF Written
  <2>3. Exported(mem) /\ Len(snap) \in Nat
    BY <2>1, SavedFrame
  <2>4. Len(tmp.value) = k
    <3>1. tmp.value = SubSeq(snap, 1, k)
      BY <2>2 DEF Got
    <3> QED BY <3>1, <2>1, <2>3, Prefix
  <2>5. PICK n \in k + 1 .. Len(snap) :
          /\ tmp' = Got(SubSeq(snap, 1, n))
          /\ spc' = IF n = Len(snap) THEN "closed" ELSE "writing"
    BY <1>3, <2>4 DEF SaveWrite
  <2>6. CASE n = Len(snap)
    <3>1. PICK X : snap \in Seq(X)
      BY <2>1, <2>3, FrameIs
    <3>2. tmp' = Got(snap) /\ spc' = "closed"
      BY <3>1, <2>5, <2>6, SubSeqFull
    <3>3. TypeOK'
      BY <1>0, <2>1, <3>2 DEF TypeOK, Got
    <3>4. Running' /\ Frozen' /\ Written' /\ Kept'
      BY <1>0, <2>1, <3>2 DEF Running, Frozen, Written, Kept
    <3> QED BY <3>3, <3>4 DEF IInv
  <2>7. CASE n # Len(snap)
    <3>1. n \in 0 .. Len(snap) - 1 /\ n < Len(snap)
      BY <2>3, <2>5, <2>7
    <3>2. tmp' = Got(SubSeq(snap, 1, n)) /\ spc' = "writing"
      BY <2>5, <2>7
    <3>3. Len(tmp'.value) = n
      <4>1. tmp'.value = SubSeq(snap, 1, n)
        BY <3>2 DEF Got
      <4> QED BY <4>1, <3>1, <2>1, <2>3, Prefix
    <3>4. TypeOK'
      BY <1>0, <2>1, <3>1, <3>2, <3>3 DEF TypeOK, Got
    <3>5. Running' /\ Frozen' /\ Written' /\ Kept'
      BY <1>0, <2>1, <3>1, <3>2 DEF Running, Frozen, Written, Kept
    <3> QED BY <3>4, <3>5 DEF IInv
  <2> QED BY <2>6, <2>7
<1>4. CASE SaveRename
  <2> USE <1>4 DEF SaveRename
  <2>1. mem \in States /\ tmp = Got(FrameOf(mem))
    BY <1>0 DEF Running, Frozen, Written
  <2>2. TypeOK'
    BY <1>0, <2>1 DEF TypeOK, Got
  <2>3. Running' /\ Frozen' /\ Written'
    BY <1>0 DEF Running, Frozen, Written
  <2>4. Kept'
    BY <2>1 DEF Kept
  <2> QED BY <2>2, <2>3, <2>4 DEF IInv
<1>5. CASE End
  <2> USE <1>5 DEF End
  <2>1. TypeOK'
    BY <1>0 DEF TypeOK
  <2>2. Running' /\ Frozen' /\ Written'
    BY DEF Running, Frozen, Written
  <2>3. Kept'
    BY <1>0 DEF Kept
  <2> QED BY <2>1, <2>2, <2>3 DEF IInv
<1>6. CASE WriteBack
  <2> USE <1>6 DEF WriteBack
  <2>1. TypeOK'
    BY <1>0 DEF TypeOK
  <2>2. Running' /\ Frozen' /\ Written'
    BY <1>0 DEF Running, Frozen, Written
  <2>3. Kept'
    BY <1>0 DEF Kept
  <2> QED BY <2>1, <2>2, <2>3 DEF IInv
<1>7. CASE PowerLoss
  <2>1. PICK f \in TornOf(main.value) : main' = Got(f)
    BY <1>7 DEF PowerLoss
  <2>2. /\ medium = "cache" /\ medium' = "torn"
        /\ proc' = "down" /\ spc' = "idle" /\ snap' = <<>>
        /\ UNCHANGED <<mem, tmp, lastSaved, recovered>>
    BY <1>7 DEF PowerLoss
  <2>3. PICK s \in States : lastSaved = Got(s) /\ main = Got(FrameOf(s))
    BY <1>0, <2>2 DEF TypeOK, Kept
  <2>4. TypeOK'
    BY <1>0, <2>1, <2>2 DEF TypeOK, Got
  <2>5. Running' /\ Frozen' /\ Written'
    BY <2>2 DEF Running, Frozen, Written
  <2>6. Kept'
    <3>1. main.value = FrameOf(s)
      BY <2>3 DEF Got
    <3> QED BY <3>1, <2>1, <2>2, <2>3 DEF Kept
  <2> QED BY <2>4, <2>5, <2>6 DEF IInv
<1>8. CASE Start
  <2> USE <1>8 DEF Start
  <2>1. spc = "idle"
    BY <1>0 DEF TypeOK
  <2>2. TypeOK'
    BY <1>0, <2>1 DEF TypeOK
  <2>3. Running' /\ Frozen' /\ Written'
    BY <2>1 DEF Running, Frozen, Written
  <2>4. Kept'
    BY <1>0 DEF Kept
  <2> QED BY <2>2, <2>3, <2>4 DEF IInv
<1>9. CASE Recover
  <2>1. /\ proc = "down" /\ proc' = "recovered"
        /\ UNCHANGED <<spc, snap, tmp, main, medium, lastSaved>>
    BY <1>9 DEF Recover
  <2>2. spc = "idle"
    BY <1>0, <2>1 DEF TypeOK
  <2>3. TypeOK'
    BY <1>0, <2>1, <2>2 DEF TypeOK
  <2>4. Running' /\ Frozen' /\ Written'
    BY <2>1, <2>2 DEF Running, Frozen, Written
  <2>5. Kept'
    BY <1>0, <2>1 DEF Kept
  <2> QED BY <2>3, <2>4, <2>5 DEF IInv
<1>10. CASE UNCHANGED vars
  <2> USE <1>10 DEF vars
  <2>1. TypeOK'
    BY <1>0 DEF TypeOK
  <2>2. Running' /\ Frozen' /\ Written'
    BY <1>0 DEF Running, Frozen, Written
  <2>3. Kept'
    BY <1>0 DEF Kept
  <2> QED BY <2>1, <2>2, <2>3 DEF IInv
<1> QED BY <1>1, <1>2, <1>3, <1>4, <1>5, <1>6, <1>7, <1>8, <1>9, <1>10 DEF Next

\* The invariant of a save, a crash, a loss of power and a recovery (store.cpp
\* Store::save, coordinator.cpp run_recover): what the two files contain.
THEOREM Invariant == Spec => []IInv
<1> QED BY InitIInv, NextIInv, PTL DEF Spec

\* TypeOK: a save is under way only in a running process and with a temporary
\* file open, which is the full frame only once it is closed (store.cpp save).
THEOREM TypeCorrect == Spec => []TypeOK
<1>1. IInv => TypeOK
  BY DEF IInv
<1> QED BY <1>1, Invariant, PTL

\* SavesAreAtomic: for any exported states, wherever the process ends, the state
\* file is absent or loads as the last state renamed into place (store.cpp save,
\* load).
THEOREM AtomicSaves == Spec => []SavesAreAtomic
<1>1. IInv => SavesAreAtomic
  <2> SUFFICES ASSUME IInv, main.ok, medium # "torn" PROVE Load(main.value) = lastSaved
    BY DEF SavesAreAtomic
  <2>1. PICK s \in States : lastSaved = Got(s) /\ main = Got(FrameOf(s))
    BY DEF IInv, Kept
  <2>2. main.value = FrameOf(s)
    BY <2>1 DEF Got
  <2>3. Load(FrameOf(s)) = Got(s)
    BY SavedFrame, LoadBack
  <2> QED BY <2>1, <2>2, <2>3
<1> QED BY <1>1, Invariant, PTL

\* BrokenFilesRejected: an unfinished temporary file does not load, and a state
\* file that a loss of power tore does not either, or has kept its length and loads
\* as what was saved (the length and the checksum, store.cpp load), with any
\* checksum that meets ChecksumAssumption.
THEOREM BrokenFilesDoNotLoad == Spec => []BrokenFilesRejected
<1>1. IInv => BrokenFilesRejected
  <2> SUFFICES ASSUME IInv PROVE BrokenFilesRejected
    OBVIOUS
  <2>1. ASSUME spc = "writing" PROVE ~ Load(tmp.value).ok
    <3>1. mem \in States /\ snap = FrameOf(mem)
      BY <2>1 DEF IInv, TypeOK, Running, Frozen
    <3>2. PICK n \in 0 .. Len(snap) - 1 : tmp = Got(SubSeq(snap, 1, n))
      BY <2>1 DEF IInv, Written
    <3>3. tmp.value = SubSeq(snap, 1, n)
      BY <3>2 DEF Got
    <3>4. Load(SubSeq(snap, 1, n)) = Failed
      BY <3>1, SavedFrame, Prefix
    <3> QED BY <3>3, <3>4 DEF Failed
  <2>2. ASSUME medium = "torn"
        PROVE  /\ Load(main.value) \in {Failed, lastSaved}
               /\ Len(main.value) < Len(FrameOf(lastSaved.value)) => ~ Load(main.value).ok
    <3>1. main.ok
      BY <2>2 DEF IInv, TypeOK
    <3>2. PICK s \in States : lastSaved = Got(s) /\ \E f \in TornOf(FrameOf(s)) : main = Got(f)
      BY <2>2, <3>1 DEF IInv, Kept
    <3>3. PICK f \in TornOf(FrameOf(s)) : main = Got(f)
      BY <3>2
    <3>4. main.value = f /\ lastSaved.value = s
      BY <3>2, <3>3 DEF Got
    <3>5. Load(f) = Failed \/ f \in ZeroedOf(FrameOf(s))
      BY SavedFrame, Torn
    <3>6. Load(f) \in {Failed, Got(s)}
      BY <3>5, SavedFrame, ZeroedLoads
    <3>7. Len(f) < Len(FrameOf(s)) => Load(f) = Failed
      BY SavedFrame, Torn
    <3>8. ~ Failed.ok
      BY DEF Failed
    <3> QED BY <3>2, <3>4, <3>6, <3>7, <3>8
  <2> QED BY <2>1, <2>2 DEF BrokenFilesRejected
<1> QED BY <1>1, Invariant, PTL

\* DamageNeverMisread: whichever cell of the file is damaged, load refuses it or
\* returns what was saved (store.cpp load), with any checksum that meets
\* ChecksumAssumption.
THEOREM DamageIsSeen == Spec => []DamageNeverMisread
<1>1. IInv => DamageNeverMisread
  <2> SUFFICES ASSUME IInv, spc = "closed", NEW f \in ChangedOf(snap)
               PROVE  Load(f) \in {Failed, Got(mem)}
    BY DEF DamageNeverMisread
  <2>1. mem \in States /\ snap = FrameOf(mem)
    BY DEF IInv, TypeOK, Running, Frozen
  <2> QED BY <2>1, SavedFrame, ChangedLoads
<1> QED BY <1>1, Invariant, PTL

\* DecodeIsStrict: whatever one field of a payload becomes, decode (store.cpp)
\* accepts it only as a state that a runtime could have exported: distinct keys of
\* groups, participants, ranks and measurements, known values of all enumerations,
\* counts within the limit.
THEOREM StrictDecoding == Spec => []DecodeIsStrict
<1>1. IInv => DecodeIsStrict
  <2> SUFFICES ASSUME IInv, spc = "closed",
                      NEW i \in DOMAIN Encode(mem), NEW v \in 0 .. MaxField,
                      Decode([Encode(mem) EXCEPT ![i] = v]).ok
               PROVE  Exported(Decode([Encode(mem) EXCEPT ![i] = v]).value)
    BY DEF DecodeIsStrict
  <2>1. mem \in States
    BY DEF IInv, TypeOK, Running
  <2>2. Encode(mem) \in Seq(Nat)
    BY <2>1, SavedFrame, RoundTrip, EncodeType
  <2> DEFINE t == [Encode(mem) EXCEPT ![i] = v]
  <2>3. t \in Seq(Nat) /\ Decode(t).ok
    BY <2>2, StoreAssumption, ExceptSeq
  <2> HIDE DEF t
  <2>4. Exported(Decode(t).value)
    BY <2>3, AcceptedIsExported
  <2> QED BY <2>4 DEF t
<1> QED BY <1>1, Invariant, PTL

-----------------------------------------------------------------------------
(* Refinement of StateKeeper *)

\* Whatever happened to the state file, what loads is what was saved last.
LEMMA LoadsTheLastSaved ==
  ASSUME IInv, SavesAreAtomic, BrokenFilesRejected, main.ok, Load(main.value).ok
  PROVE  Load(main.value) = lastSaved
BY DEF SavesAreAtomic, BrokenFilesRejected, Failed

LEMMA KeeperInit == Init => Keeper!Init
BY DEF Init, Keeper!Init, NoFile, Failed

\* One step of StateKeeper, or none.
LEMMA KeeperStep ==
  ASSUME IInv, SavesAreAtomic, BrokenFilesRejected, [Next]_vars
  PROVE  [Keeper!Next]_(Keeper!vars)
<1>1. CASE Change
  BY <1>1 DEF Change, Keeper!Next, Keeper!Change
<1>2. CASE SaveOpen
  BY <1>2 DEF SaveOpen, Keeper!vars
<1>3. CASE SaveWrite
  BY <1>3 DEF SaveWrite, Keeper!vars
<1>4. CASE SaveRename
  BY <1>4 DEF SaveRename, Got, Keeper!Next, Keeper!Save
<1>5. CASE End
  BY <1>5 DEF End, Keeper!Next, Keeper!End
<1>6. CASE WriteBack
  BY <1>6 DEF WriteBack, Keeper!vars
<1>7. CASE PowerLoss
  <2>1. proc' = "down" /\ UNCHANGED <<mem, lastSaved, recovered>>
    BY <1>7 DEF PowerLoss
  <2>2. CASE proc = "down"
    BY <2>1, <2>2 DEF Keeper!vars
  <2>3. CASE proc # "down"
    BY <2>1, <2>3 DEF Keeper!Next, Keeper!End
  <2> QED BY <2>2, <2>3
<1>8. CASE Start
  BY <1>8 DEF Start, Keeper!Next, Keeper!Start
<1>9. CASE Recover
  <2>1. main.ok /\ Load(main.value).ok
    BY <1>9 DEF Recover
  <2>2. Load(main.value) = lastSaved
    BY <2>1, LoadsTheLastSaved
  <2> DEFINE loaded == Load(main.value)
  <2>3. /\ proc = "down" /\ proc' = "recovered" /\ UNCHANGED lastSaved
        /\ loaded.ok /\ loaded.value.groups # <<>>
        /\ mem' = [loaded.value EXCEPT !.live_boot = 0, !.measurements = <<>>, !.health = <<>>]
        /\ recovered' = loaded.value.measurements
    BY <1>9 DEF Recover
  <2> HIDE DEF loaded
  <2>4. loaded = lastSaved
    BY <2>2 DEF loaded
  <2>5. Keeper!Recover
    BY <2>3, <2>4 DEF Keeper!Recover
  <2> QED BY <2>5 DEF Keeper!Next
<1>10. CASE UNCHANGED vars
  BY <1>10 DEF vars, Keeper!vars
<1> QED BY <1>1, <1>2, <1>3, <1>4, <1>5, <1>6, <1>7, <1>8, <1>9, <1>10 DEF Next

\* ImplementsKeeper: saving in steps, ends of processes, losses of power and
\* recoveries implement the one value of StateKeeper (store.cpp save and load,
\* coordinator.cpp run_recover).
THEOREM Refinement == Spec => ImplementsKeeper
<1>1. IInv /\ SavesAreAtomic /\ BrokenFilesRejected /\ [Next]_vars => [Keeper!Next]_(Keeper!vars)
  BY KeeperStep
<1> QED BY <1>1, KeeperInit, Invariant, AtomicSaves, BrokenFilesDoNotLoad, PTL
        DEF Spec, ImplementsKeeper, Keeper!Spec

=============================================================================
