------------------------- MODULE MultiprocessProofs -------------------------
(***************************************************************************)
(* Theorems about module Multiprocess, for any two first workers, any      *)
(* replacement, any two workers of the recovery, whatever their boot       *)
(* identities, whichever of them may die and after however many requests   *)
(* each of them stalls.                                                    *)
(*                                                                         *)
(* The coordinator looks at no authority: that it takes no frame for       *)
(* another rests on where each worker is when it reads from it.  The       *)
(* invariant says so, connection by connection (InStep), or else that the  *)
(* first connection, from which every receiving loop starts, will never    *)
(* bring a frame again (Stuck).                                            *)
(***************************************************************************)
EXTENDS Multiprocess, FiniteSetTheorems, SequenceTheorems, TLAPS

-----------------------------------------------------------------------------
(* The inductive invariant: where the coordinator is *)

Beginning == {"accept", "form", "barrier", "release"}
InRound == {"request", "collect", "reduce", "acks", "record"}
Turning == {"replace", "regroup", "save2"}
Live == Running \cup Recovering

\* The round, the epoch and the number of connections at each place.
Control ==
  /\ cpc \in Beginning \cup {"save"} => round = 1
  /\ cpc \in Turning \cup {"reconfigure"} => round = 2
  /\ cpc = "final" => round = 3
  /\ cpc \in InRound => round < 4
  /\ cpc \in Recovering => round = 4
  /\ cpc \in Running => epoch = IF round = 3 \/ cpc \in Turning THEN 3 ELSE 2

Size == Len(workers)
Taken == Len(got)

Counts ==
  /\ cpc \in {"accept", "r_accept"} => 1 <= ci /\ ci <= 2 /\ Size = ci - 1
  /\ cpc = "load" => Size = 0
  /\ cpc \in Running \ {"accept"} =>
       Size = IF round = 3 \/ cpc \in {"regroup", "save2"} THEN 3 ELSE 2
  /\ cpc \in Recovering \ {"load", "r_accept"} => Size = 2
  /\ cpc \in {"barrier", "r_barrier", "acks", "r_acks"} => 1 <= ci /\ ci <= Size
  /\ cpc \in {"collect", "r_collect"} => 1 <= ci /\ ci <= 2 /\ Taken = ci - 1
  /\ cpc \in {"reduce", "acks", "record", "r_reduce", "r_acks"} => Taken = 2
  /\ cpc \in {"load", "r_accept", "r_form", "r_barrier", "r_release", "r_request"} => Taken = 0

\* Every group is a pair of workers ranked by boot, in the runtime and in files.
IsPair(group) == \E v, w \in Worker : group = RanksByBoot({v, w})

FileOK(f) ==
  /\ f = NoFile \/ f.epoch \in 2 .. 3
  /\ f.measured \subseteq 1 .. 3
  /\ \A g \in DOMAIN f.groups : g = 1 /\ IsPair(f.groups[g])

Stored ==
  /\ \A g \in DOMAIN groups : IsPair(groups[g])
  /\ disk = [main |-> disk.main, before2 |-> disk.before2]
  /\ FileOK(disk.main) /\ FileOK(disk.before2)

-----------------------------------------------------------------------------
(* ... which workers are connected ... *)

Injective(s) == \A i, j \in DOMAIN s : s[i] = s[j] => i = j

\* Whoever is off has no frames; the driver starts no worker ahead of its time.
NotStarted ==
  /\ \A w \in Worker : wpc[w] = "off" => toWorker[w] = <<>>
  /\ round < 4 => \A w \in Fresh : wpc[w] = "off"
  /\ cpc = "load" => backlog = <<>> /\ \A w \in Fresh : wpc[w] = "off"

Joining == <<Frame("HELLO", 0, 0), Frame("JOIN_GROUP", 0, 0)>>
Waiting(w) == toWorker[w] = <<>> /\ (wpc[w] = "accept" \/ Gone(w))

Connected ==
  cpc \in Live =>
    /\ Injective(backlog) /\ Injective(workers)
    /\ Range(backlog) \cap Range(workers) = {}
    /\ \A w \in Range(backlog) \cup Range(workers) : wpc[w] # "off"
    /\ \A w \in Range(backlog) : Waiting(w) /\ toCoord[w] = Joining
    /\ round = 4 => Range(backlog) \cup Range(workers) \subseteq Fresh
    /\ round < 4 =>
         /\ Range(backlog) \cup Range(workers) \subseteq First \cup {Late}
         /\ epoch = 2 => Range(backlog) \cup Range(workers) \subseteq First
         /\ \A i \in DOMAIN workers : i <= 2 => workers[i] \in First

\* Up to the forming of the group.
TakenIn ==
  cpc \in {"accept", "form", "r_accept", "r_form"} =>
    \A w \in Range(workers) : Waiting(w) /\ toCoord[w] = <<>>

-----------------------------------------------------------------------------
(* ... and where the first two of them are *)

Rank(w) == FormGroup(workers)[w]

NoneOf(kind, s) == \A i \in DOMAIN s : s[i].kind # kind

\* The last frame of s asks for round r, the others ask for nothing.
Asks(s, r) ==
  /\ s # <<>>
  /\ s[Len(s)] = Frame("REQUEST_COLLECTIVE", r, 0)
  /\ \A i \in DOMAIN s : i # Len(s) => s[i].kind # "REQUEST_COLLECTIVE"

Quiet(w, pcs) == toCoord[w] = <<>> /\ (Gone(w) \/ wpc[w] \in pcs)

\* GROUP_ACCEPT is out, BARRIER not yet read; then it is.
Grouped(w, k) ==
  \/ /\ Quiet(w, {"accept"})
     /\ wpc[w] = "accept" => Len(toWorker[w]) = 1 /\ toWorker[w][1].rank = k
  \/ /\ Len(toCoord[w]) = 1 /\ toCoord[w][1].kind = "BARRIER"
     /\ Gone(w) \/ (wpc[w] = "ack" /\ toWorker[w] = <<>>)

Joined(w) == Quiet(w, {"ack"}) /\ (wpc[w] = "ack" => toWorker[w] = <<>>)

\* Between two rounds; what is on the way to the worker asks for nothing.
Idle(w) ==
  /\ Quiet(w, {"ack", "loop"})
  /\ wpc[w] \in {"ack", "loop"} => NoneOf("REQUEST_COLLECTIVE", toWorker[w])
  /\ wpc[w] = "ack" => toWorker[w] # <<>>

\* Round r was asked for and the contribution, of rank k, not yet read; then it is.
Requested(w, r, k) ==
  \/ /\ Quiet(w, {"ack", "loop", "stalled"})
     /\ wpc[w] \in {"ack", "loop"} => Asks(toWorker[w], r)
     /\ wpc[w] = "ack" => Len(toWorker[w]) > 1
  \/ /\ toCoord[w] = <<Frame("CONTRIBUTION", r, k)>>
     /\ Gone(w) \/ (wpc[w] = "result" /\ toWorker[w] = <<>>)

Contributed(w) == Quiet(w, {"result"}) /\ (wpc[w] = "result" => toWorker[w] = <<>>)

\* The result of round r is out and COMPLETE not yet read.
Answered(w, r) ==
  \/ /\ Quiet(w, {"result"})
     /\ wpc[w] = "result" => toWorker[w] = <<Frame("RESULT", r, 0)>>
  \/ /\ Len(toCoord[w]) = 1
     /\ Gone(w) \/ (wpc[w] = "loop" /\ toWorker[w] = <<>>)
     /\ r \in results[w]

\* What holds of the p-th connection.
Stage(p) ==
  LET w == workers[p] IN
  /\ cpc \in {"barrier", "r_barrier"} => (p < ci => Joined(w)) /\ (ci <= p => Grouped(w, Rank(w)))
  /\ cpc \in {"release", "r_release"} => Joined(w)
  /\ cpc \in {"request", "r_request", "record", "save", "reconfigure"} \cup Turning => Idle(w)
  /\ cpc \in {"collect", "r_collect"} =>
       (p < ci => Contributed(w)) /\ (ci <= p => Requested(w, round, Rank(w)))
  /\ cpc = "reduce" => Contributed(w)
  /\ cpc = "acks" => (p < ci => Idle(w)) /\ (ci <= p => Answered(w, round))

Synchronised ==
  (Running \ {"accept", "form", "final"}) \cup {"r_barrier", "r_release", "r_request", "r_collect"}

\* A worker that can still contribute knows its rank.
KnowsRank(w, k) == wpc[w] \in {"ack", "loop", "result"} => wrank[w] = k

InStep == \A p \in {1, 2} : Stage(p) /\ KnowsRank(workers[p], Rank(workers[p]))

\* The worker sends nothing any more, unless a RESULT comes.
Mute(w) == Quiet(w, {"result"}) /\ (wpc[w] = "result" => NoneOf("RESULT", toWorker[w]))

Stuck ==
  /\ cpc \in {"request", "collect", "save", "reconfigure"} \cup Turning
  /\ cpc = "collect" => ci = 1
  /\ Mute(workers[1])

Synchrony == cpc \in Synchronised => InStep \/ Stuck

\* What was got is of this round and from whom it should be.
GotRight ==
  cpc \in {"collect", "reduce", "acks", "record", "r_collect", "r_reduce", "r_acks"} =>
    \A i \in DOMAIN got : got[i] = [round |-> round, rank |-> Rank(workers[i])]

\* Who has acknowledged the result has taken it.
Acknowledged ==
  /\ cpc = "acks" => \A p \in {1, 2} : p < ci => round \in results[workers[p]]
  /\ cpc = "record" => \A p \in {1, 2} : round \in results[workers[p]]

\* No worker is asked twice for one round.
Asked ==
  IF cpc \in Beginning \cup {"request", "load", "r_accept", "r_form", "r_barrier", "r_release", "r_request"}
  THEN round - 1 ELSE round

Once(a, s, asked) ==
  /\ a <= asked
  /\ \A i \in DOMAIN s :
       s[i].kind = "REQUEST_COLLECTIVE" =>
         /\ a < s[i].n /\ s[i].n <= asked
         /\ \A j \in DOMAIN s : i < j /\ s[j].kind = "REQUEST_COLLECTIVE" => s[i].n < s[j].n

OneAnswerEach == \A w \in Worker : Once(answered[w], toWorker[w], Asked)

IInv ==
  /\ TypeOK /\ Control /\ Counts /\ Stored
  /\ NotStarted /\ Connected /\ TakenIn
  /\ Synchrony /\ GotRight /\ Acknowledged
  /\ MeasuredMeansDelivered /\ OneAnswerEach


-----------------------------------------------------------------------------
(* Workers and their ranks *)

LEMMA WorkerSets ==
  /\ First \subseteq Worker /\ Fresh \subseteq Worker /\ Late \in Worker
  /\ First \cap Fresh = {} /\ Late \notin First /\ Late \notin Fresh
  /\ \A v, w \in First : v # w => First = {v, w}
<1>1. First \subseteq Worker /\ Fresh \subseteq Worker /\ {Late} \subseteq Worker
  BY DEF Worker
<1>2. IsFiniteSet(First) /\ IsFiniteSet(Fresh) /\ IsFiniteSet({Late})
  BY <1>1, FS_Subset, WorkerAssumption
<1>3. Cardinality({Late}) = 1
  BY FS_Singleton
<1>4. /\ IsFiniteSet(First \cup {Late})
      /\ Cardinality(First \cup {Late})
           = Cardinality(First) + Cardinality({Late}) - Cardinality(First \cap {Late})
  BY <1>2, FS_Union
<1>5. Cardinality(First \cup {Late} \cup Fresh)
        = Cardinality(First \cup {Late}) + Cardinality(Fresh) - Cardinality((First \cup {Late}) \cap Fresh)
  BY <1>2, <1>4, FS_Union
<1>6. /\ IsFiniteSet(First \cap {Late}) /\ IsFiniteSet((First \cup {Late}) \cap Fresh)
      /\ Cardinality(First \cap {Late}) \in Nat
      /\ Cardinality((First \cup {Late}) \cap Fresh) \in Nat
  <2>1. First \cap {Late} \in SUBSET First /\ (First \cup {Late}) \cap Fresh \in SUBSET Fresh
    OBVIOUS
  <2> QED BY <2>1, <1>2, FS_Subset, FS_CardinalityType
<1>7. Cardinality(First \cap {Late}) = 0 /\ Cardinality((First \cup {Late}) \cap Fresh) = 0
  BY <1>3, <1>4, <1>5, <1>6, WorkerAssumption DEF Worker
<1>8. First \cap {Late} = {} /\ (First \cup {Late}) \cap Fresh = {}
  BY <1>6, <1>7, FS_EmptySet
<1>9. ASSUME NEW v \in First, NEW w \in First, v # w PROVE First = {v, w}
  <2>1. IsFiniteSet({v}) /\ Cardinality({v}) = 1
    BY FS_Singleton
  <2>2. Cardinality({v} \cup {w}) = 2
    BY <2>1, <1>9, FS_AddElement
  <2>3. {v} \cup {w} \in SUBSET First
    OBVIOUS
  <2>4. First = {v} \cup {w}
    BY <2>2, <2>3, <1>2, FS_Subset, WorkerAssumption
  <2> QED BY <2>4
<1> QED BY <1>1, <1>8, <1>9

\* Of two workers one has rank 0 and the other rank 1.
LEMMA RanksOfTwo ==
  ASSUME NEW v \in Worker, NEW w \in Worker
  PROVE  /\ RanksByBoot({v, w}) \in [{v, w} -> 0 .. 1]
         /\ v # w => RanksByBoot({v, w})[v] # RanksByBoot({v, w})[w]
<1> DEFINE Lower(x) == {y \in {v, w} : BootOf[y] < BootOf[x]}
<1>1. BootOf[v] \in Nat /\ BootOf[w] \in Nat
  BY WorkerAssumption
<1>2. /\ Lower(v) = IF BootOf[w] < BootOf[v] THEN {w} ELSE {}
      /\ Lower(w) = IF BootOf[v] < BootOf[w] THEN {v} ELSE {}
  BY <1>1
<1>3. v # w => BootOf[w] < BootOf[v] \/ BootOf[v] < BootOf[w]
  BY <1>1, WorkerAssumption
<1>4. Cardinality({}) = 0 /\ Cardinality({v}) = 1 /\ Cardinality({w}) = 1
  BY FS_EmptySet, FS_Singleton
<1>5. RanksByBoot({v, w}) = [x \in {v, w} |-> Cardinality(Lower(x))]
  BY DEF RanksByBoot
<1> HIDE DEF Lower
<1>6. /\ Cardinality(Lower(v)) = IF BootOf[w] < BootOf[v] THEN 1 ELSE 0
      /\ Cardinality(Lower(w)) = IF BootOf[v] < BootOf[w] THEN 1 ELSE 0
  BY <1>2, <1>4
<1> QED BY <1>1, <1>3, <1>5, <1>6

LEMMA PairsType ==
  ASSUME NEW group, IsPair(group)
  PROVE  /\ group \in [DOMAIN group -> 0 .. 1] /\ DOMAIN group \subseteq Worker
         /\ RanksByBoot(DOMAIN group) = group
<1>1. PICK v \in Worker, w \in Worker : group = RanksByBoot({v, w})
  BY DEF IsPair
<1>2. DOMAIN group = {v, w}
  BY <1>1 DEF RanksByBoot
<1> QED BY <1>1, <1>2, RanksOfTwo

-----------------------------------------------------------------------------
(* Sequences *)

\* A frame, or a worker, is added at the end.
LEMMA Appended ==
  ASSUME NEW S, NEW s \in Seq(S), NEW x \in S, NEW t, t = Append(s, x)
  PROVE  /\ t \in Seq(S) /\ t # <<>> /\ Len(t) = Len(s) + 1
         /\ DOMAIN s = 1 .. Len(s) /\ DOMAIN t = 1 .. Len(t)
         /\ \A i \in DOMAIN s : i \in DOMAIN t /\ i <= Len(s) /\ t[i] = s[i]
         /\ t[Len(t)] = x
         /\ \A i \in DOMAIN t : i # Len(t) => i \in DOMAIN s
<1>1. t \in Seq(S) /\ t # <<>> /\ Len(t) = Len(s) + 1
  BY AppendProperties
<1>2. DOMAIN s = 1 .. Len(s) /\ DOMAIN t = 1 .. Len(t) /\ Len(s) \in Nat
  BY <1>1, LenProperties
<1>3. (\A i \in 1 .. Len(s) : t[i] = s[i]) /\ t[Len(t)] = x
  BY <1>1, AppendProperties
<1>4. \A i \in DOMAIN s : i \in DOMAIN t /\ i <= Len(s) /\ t[i] = s[i]
  BY <1>1, <1>2, <1>3
<1>5. \A i \in DOMAIN t : i # Len(t) => i \in DOMAIN s
  BY <1>1, <1>2
<1> QED BY <1>1, <1>2, <1>3, <1>4, <1>5

LEMMA RangeAppend ==
  ASSUME NEW S, NEW s \in Seq(S), NEW x \in S
  PROVE  Range(Append(s, x)) = Range(s) \cup {x}
<1>1. PICK t : t = Append(s, x)
  OBVIOUS
<1>2. /\ DOMAIN s = 1 .. Len(s) /\ DOMAIN t = 1 .. Len(t) /\ Len(s) \in Nat /\ Len(t) = Len(s) + 1
      /\ \A i \in 1 .. Len(s) : t[i] = s[i]
      /\ t[Len(s) + 1] = x
  <2>1. t \in Seq(S) /\ Len(t) = Len(s) + 1
    BY <1>1, AppendProperties
  <2>2. DOMAIN s = 1 .. Len(s) /\ DOMAIN t = 1 .. Len(t) /\ Len(s) \in Nat
    BY <2>1, LenProperties
  <2>3. (\A i \in 1 .. Len(s) : t[i] = s[i]) /\ t[Len(s) + 1] = x
    BY <1>1, AppendProperties
  <2> QED BY <2>1, <2>2, <2>3
<1>3. Range(t) = {t[i] : i \in DOMAIN t} /\ Range(s) = {s[i] : i \in DOMAIN s}
  BY DEF Range
<1>4. \A i \in DOMAIN t : i \in DOMAIN s \/ i = Len(s) + 1
  BY <1>2
<1>5. Len(s) + 1 \in DOMAIN t /\ \A i \in DOMAIN s : i \in DOMAIN t
  BY <1>2
<1>6. Range(t) = Range(s) \cup {x}
  BY <1>2, <1>3, <1>4, <1>5
<1> QED BY <1>1, <1>6

\* The first one is taken.
LEMMA FirstTaken ==
  ASSUME NEW S, NEW s \in Seq(S), s # <<>>, NEW t, t = Tail(s)
  PROVE  /\ t \in Seq(S) /\ Head(s) = s[1] /\ Head(s) \in S /\ 1 \in DOMAIN s
         /\ Len(t) = Len(s) - 1 /\ DOMAIN t = 1 .. Len(t) /\ DOMAIN s = 1 .. Len(s)
         /\ \A i \in DOMAIN t : i + 1 \in DOMAIN s /\ t[i] = s[i + 1]
         /\ Range(s) = {Head(s)} \cup Range(t)
<1>1. /\ t \in Seq(S) /\ Head(s) \in S /\ Len(t) = Len(s) - 1
      /\ \A i \in 1 .. Len(t) : t[i] = s[i + 1]
  BY HeadTailProperties
<1>2. DOMAIN s = 1 .. Len(s) /\ DOMAIN t = 1 .. Len(t) /\ Len(s) \in Nat /\ Len(t) \in Nat
  BY <1>1, LenProperties
<1>3. 1 \in DOMAIN s
  BY <1>1, <1>2
<1>4. Head(s) = s[1]
  OBVIOUS
<1>5. \A i \in DOMAIN t : i + 1 \in DOMAIN s /\ t[i] = s[i + 1]
  BY <1>1, <1>2
<1>6. Range(s) = {Head(s)} \cup Range(t)
  <2>1. Range(t) = {t[i] : i \in DOMAIN t} /\ Range(s) = {s[i] : i \in DOMAIN s}
    BY DEF Range
  <2>2. ASSUME NEW i \in DOMAIN s, i # 1 PROVE \E j \in DOMAIN t : t[j] = s[i]
    <3>1. PICK j \in Nat : j + 1 = i /\ j \in 1 .. Len(t)
      <4>1. i - 1 \in Nat /\ (i - 1) + 1 = i /\ i - 1 \in 1 .. Len(t)
        BY <1>1, <1>2, <2>2
      <4> QED BY <4>1
    <3>2. t[j] = s[j + 1]
      BY <3>1, <1>1
    <3> QED BY <3>1, <3>2, <1>2
  <2> QED BY <1>3, <1>4, <1>5, <2>1, <2>2
<1> QED BY <1>1, <1>2, <1>3, <1>4, <1>5, <1>6

\* Distinct connections stay distinct.
LEMMA StillInjective ==
  ASSUME NEW S, NEW s \in Seq(S), Injective(s)
  PROVE  /\ \A x \in S : x \notin Range(s) => Injective(Append(s, x))
         /\ s # <<>> => Injective(Tail(s)) /\ Head(s) \notin Range(Tail(s))
<1>0. \A i \in DOMAIN s : s[i] \in Range(s)
  BY DEF Range
<1>1. ASSUME NEW x \in S, x \notin Range(s) PROVE Injective(Append(s, x))
  <2> DEFINE t == Append(s, x)
  <2>1. /\ \A i \in DOMAIN s : t[i] = s[i]
        /\ t[Len(t)] = x
        /\ \A i \in DOMAIN t : i # Len(t) => i \in DOMAIN s
    BY Appended
  <2> HIDE DEF t
  <2>2. Injective(t)
    BY <1>0, <1>1, <2>1 DEF Injective
  <2> QED BY <2>2 DEF t
<1>2. ASSUME s # <<>> PROVE Injective(Tail(s)) /\ Head(s) \notin Range(Tail(s))
  <2> DEFINE t == Tail(s)
  <2>1. /\ Head(s) = s[1] /\ 1 \in DOMAIN s
        /\ \A i \in DOMAIN t : i + 1 \in DOMAIN s /\ t[i] = s[i + 1]
        /\ DOMAIN t = 1 .. Len(t)
    BY <1>2, FirstTaken
  <2> HIDE DEF t
  <2>2. Injective(t)
    BY <2>1 DEF Injective
  <2>3. Head(s) \notin Range(t)
    <3>1. SUFFICES ASSUME NEW i \in DOMAIN t, t[i] = Head(s) PROVE FALSE
      BY DEF Range
    <3>2. i + 1 = 1 /\ i \in 1 .. Len(t)
      BY <2>1, <3>1 DEF Injective
    <3> QED BY <3>2
  <2> QED BY <2>2, <2>3 DEF t
<1> QED BY <1>1, <1>2

-----------------------------------------------------------------------------
(* Initially *)

LEMMA InitIInv == Init => IInv
<1> SUFFICES ASSUME Init PROVE IInv
  OBVIOUS
<1> USE DEF Init, WorkersInit
<1>1. TypeOK
  <2>1. patience \in [Worker -> Nat]
    <3>1. patience \in [Worker -> UNION {StallAfter[w] : w \in Worker}]
      OBVIOUS
    <3>2. \A w \in Worker : patience[w] \in StallAfter[w] /\ StallAfter[w] \in SUBSET Nat
      BY WorkerAssumption
    <3> QED BY <3>1, <3>2
  <2>2. <<>> \in Seq(Worker) /\ <<>> \in Seq(Frames) /\ <<>> \in Seq([round : 0 .. 4, rank : 0 .. 1])
    OBVIOUS
  <2> QED BY <2>1, <2>2 DEF TypeOK, WorkersTypeOK, Running
<1>2. Control /\ Counts
  BY DEF Control, Counts, Size, Beginning, Turning, InRound, Running, Recovering
<1>3. Stored
  BY DEF Stored, FileOK, NoFile
<1>4. NotStarted /\ TakenIn
  BY WorkerSets DEF NotStarted, TakenIn, Range
<1>5. Connected
  BY DEF Connected, Injective, Range
<1>6. Synchrony /\ GotRight /\ Acknowledged
  BY DEF Synchrony, Synchronised, GotRight, Acknowledged, Running
<1>7. MeasuredMeansDelivered
  BY DEF MeasuredMeansDelivered, NoFile
<1>8. OneAnswerEach
  BY DEF OneAnswerEach, Once, Asked, Beginning
<1> QED BY <1>1, <1>2, <1>3, <1>4, <1>5, <1>6, <1>7, <1>8 DEF IInv

-----------------------------------------------------------------------------
(* Sending *)

LEMMA SendAllEffect ==
  ASSUME TypeOK, NEW frames, frames \in [Range(workers) -> Frames], SendAll(workers, frames)
  PROVE  /\ toWorker' \in [Worker -> Seq(Frames)]
         /\ \A w \in Worker :
              toWorker'[w] = IF w \in Range(workers) /\ ~ Gone(w)
                             THEN Append(toWorker[w], frames[w]) ELSE toWorker[w]
BY DEF TypeOK, WorkersTypeOK, SendAll

LEMMA InRange ==
  ASSUME NEW S, NEW s \in Seq(S)
  PROVE  /\ Range(s) \subseteq S
         /\ \A i \in 1 .. Len(s) : s[i] \in Range(s)
         /\ \A x \in Range(s) : \E i \in 1 .. Len(s) : x = s[i]
<1>1. DOMAIN s = 1 .. Len(s) /\ Range(s) = {s[i] : i \in 1 .. Len(s)}
  BY LenProperties, RangeEquality
<1> QED BY <1>1

LEMMA HeldAreWorkers ==
  ASSUME TypeOK
  PROVE  /\ Range(workers) \subseteq Worker /\ Range(backlog) \subseteq Worker
         /\ \A i \in 1 .. Len(workers) : workers[i] \in Range(workers)
         /\ \A i \in 1 .. Len(backlog) : backlog[i] \in Range(backlog)
<1>1. workers \in Seq(Worker) /\ backlog \in Seq(Worker)
  BY DEF TypeOK, WorkersTypeOK
<1> QED BY <1>1, InRange

LEMMA FramesSent ==
  /\ \A n \in 0 .. 4, k \in 0 .. 1, kind \in Kinds : Frame(kind, n, k) \in Frames
  /\ \A n, k, kind : /\ Frame(kind, n, k).kind = kind
                     /\ Frame(kind, n, k).n = n /\ Frame(kind, n, k).rank = k
BY DEF Frame, Frames

LEMMA FormedGroup ==
  ASSUME TypeOK, Len(workers) >= 2
  PROVE  /\ workers[1] \in Worker /\ workers[2] \in Worker
         /\ IsPair(FormGroup(workers))
         /\ FormGroup(workers) \in [{workers[1], workers[2]} -> 0 .. 1]
         /\ \A w : RankOf(FormGroup(workers), w) \in 0 .. 1
         /\ \A w \in {workers[1], workers[2]} : RankOf(FormGroup(workers), w) = Rank(w)
         /\ workers[1] # workers[2] => Rank(workers[1]) # Rank(workers[2])
<1>1. workers[1] \in Worker /\ workers[2] \in Worker
  BY DEF TypeOK
<1>2. FormGroup(workers) = RanksByBoot({workers[1], workers[2]})
  BY DEF FormGroup
<1>3. IsPair(FormGroup(workers))
  BY <1>1, <1>2 DEF IsPair
<1>4. /\ FormGroup(workers) \in [{workers[1], workers[2]} -> 0 .. 1]
      /\ workers[1] # workers[2] => FormGroup(workers)[workers[1]] # FormGroup(workers)[workers[2]]
  <2> DEFINE v == workers[1]
             w == workers[2]
  <2>1. v \in Worker /\ w \in Worker
    BY <1>1
  <2> HIDE DEF v, w
  <2>2. /\ RanksByBoot({v, w}) \in [{v, w} -> 0 .. 1]
        /\ v # w => RanksByBoot({v, w})[v] # RanksByBoot({v, w})[w]
    BY <2>1, RanksOfTwo
  <2> QED BY <2>2, <1>2 DEF v, w
<1>5. ASSUME NEW w PROVE RankOf(FormGroup(workers), w) \in 0 .. 1
  BY <1>4 DEF RankOf
<1>6. ASSUME NEW w \in {workers[1], workers[2]} PROVE RankOf(FormGroup(workers), w) = Rank(w)
  BY <1>4 DEF RankOf, Rank
<1> QED BY <1>1, <1>3, <1>4, <1>5, <1>6 DEF Rank

-----------------------------------------------------------------------------
(* The type invariant *)

\* A step of a worker, or its end.
WorkerMove(w) ==
  TakeAccept(w) \/ TakeAck(w) \/ TakeRequest(w) \/ TakeResult(w) \/ SeeClosed(w) \/ Ends(w)

LEMMA WorkerMoveType ==
  ASSUME IInv, NEW w \in Worker, WorkerMove(w)
  PROVE  WorkersTypeOK'
<1> USE DEF IInv, TypeOK, WorkersTypeOK
<1>1. ASSUME toWorker[w] # <<>>
      PROVE  /\ Head(toWorker[w]) \in Frames /\ Tail(toWorker[w]) \in Seq(Frames)
             /\ Head(toWorker[w]).n \in 0 .. 4 /\ Head(toWorker[w]).rank \in 0 .. 1
  <2>1. toWorker[w] \in Seq(Frames)
    OBVIOUS
  <2>2. Head(toWorker[w]) \in Frames /\ Tail(toWorker[w]) \in Seq(Frames)
    BY <1>1, <2>1, HeadTailProperties
  <2> QED BY <2>2 DEF Frames
<1>2. ASSUME NEW f \in Frames, Sends(w, f) PROVE toCoord' \in [Worker -> Seq(Frames)]
  BY <1>2 DEF Sends
<1>3. CASE TakeAccept(w)
  <2>1. Frame("BARRIER", Head(toWorker[w]).n, 0) \in Frames
    BY <1>1, <1>3, FramesSent DEF TakeAccept, Receives, Kinds
  <2> QED BY <1>1, <1>2, <1>3, <2>1 DEF TakeAccept, Receives
<1>4. CASE TakeAck(w)
  BY <1>1, <1>4 DEF TakeAck, Receives
<1>5. CASE TakeRequest(w)
  <2> DEFINE f == Head(toWorker[w])
  <2>1. toWorker[w] # <<>> /\ f \in Frames /\ f.n \in 0 .. 4
    BY <1>1, <1>5 DEF TakeRequest, Receives
  <2>2. Frame("CONTRIBUTION", f.n, wrank[w]) \in Frames
    BY <2>1, FramesSent DEF Kinds
  <2>3. f.kind = "REQUEST_COLLECTIVE" => answered[w] + 1 \in 0 .. 4
    <3>1. \A i \in DOMAIN toWorker[w] :
            toWorker[w][i].kind = "REQUEST_COLLECTIVE" => answered[w] < toWorker[w][i].n
      BY DEF OneAnswerEach, Once
    <3>2. f = toWorker[w][1] /\ 1 \in DOMAIN toWorker[w]
      <4>1. toWorker[w] \in Seq(Frames)
        OBVIOUS
      <4> QED BY <4>1, <2>1
    <3>3. answered[w] \in 0 .. 4
      OBVIOUS
    <3> HIDE DEF f
    <3> QED BY <2>1, <3>1, <3>2, <3>3
  <2> HIDE DEF f
  <2> QED BY <1>1, <1>2, <1>5, <2>1, <2>2, <2>3 DEF TakeRequest, Receives, f
<1>6. CASE TakeResult(w)
  <2> DEFINE f == Head(toWorker[w])
  <2>1. toWorker[w] # <<>> /\ f \in Frames /\ f.n \in 0 .. 4
    BY <1>1, <1>6 DEF TakeResult, Receives
  <2>2. Frame("COMPLETE", f.n, 0) \in Frames
    BY <2>1, FramesSent DEF Kinds
  <2>3. /\ toWorker' = [toWorker EXCEPT ![w] = Tail(toWorker[w])]
        /\ \/ /\ results' = [results EXCEPT ![w] = results[w] \cup {f.n}]
              /\ Sends(w, Frame("COMPLETE", f.n, 0))
              /\ wpc' = [wpc EXCEPT ![w] = "loop"]
           \/ wpc' = [wpc EXCEPT ![w] = "exited"] /\ UNCHANGED <<results, toCoord>>
        /\ UNCHANGED <<backlog, patience, wrank, answered>>
    BY <1>6 DEF TakeResult, Receives
  <2> HIDE DEF f
  <2>4. results' \in [Worker -> SUBSET (0 .. 4)]
    <3>1. results[w] \cup {f.n} \in SUBSET (0 .. 4)
      BY <2>1
    <3> QED BY <2>3, <3>1
  <2>5. toCoord' \in [Worker -> Seq(Frames)]
    BY <1>2, <2>2, <2>3
  <2> QED BY <1>1, <2>1, <2>3, <2>4, <2>5
<1>7. CASE SeeClosed(w)
  BY <1>7 DEF SeeClosed
<1>8. CASE Ends(w)
  BY <1>8 DEF Ends
<1> QED BY <1>3, <1>4, <1>5, <1>6, <1>7, <1>8 DEF WorkerMove

\* Reading a connection, and what is sent, keep the frames in their set.
LEMMA ReadType ==
  ASSUME TypeOK, NEW w \in Worker, ReadFails(w) \/ \E f \in Frames : Reads(w, f)
  PROVE  toCoord' \in [Worker -> Seq(Frames)]
<1>1. CASE ReadFails(w)
  BY <1>1 DEF ReadFails, TypeOK, WorkersTypeOK
<1>2. CASE \E f \in Frames : Reads(w, f)
  <2>1. toCoord[w] \in Seq(Frames) /\ toCoord[w] # <<>>
    BY <1>2 DEF Reads, TypeOK, WorkersTypeOK
  <2>2. Tail(toCoord[w]) \in Seq(Frames)
    BY <2>1, HeadTailProperties
  <2> QED BY <1>2, <2>2 DEF Reads, TypeOK, WorkersTypeOK
<1> QED BY <1>1, <1>2

LEMMA AcceptType ==
  ASSUME IInv, NEW at, NEW next, AcceptTwo(at, next)
  PROVE  WorkersTypeOK' /\ workers' \in Seq(Worker)
<1> DEFINE w == Head(backlog)
<1>1. backlog \in Seq(Worker) /\ backlog # <<>> /\ workers \in Seq(Worker)
  BY DEF IInv, TypeOK, WorkersTypeOK, AcceptTwo
<1>2. w \in Worker /\ Tail(backlog) \in Seq(Worker)
  BY <1>1, HeadTailProperties
<1>3. toCoord[w] \in Seq(Frames)
  BY <1>2 DEF IInv, TypeOK, WorkersTypeOK
<1>4. Len(toCoord[w]) >= 2 => SubSeq(toCoord[w], 3, Len(toCoord[w])) \in Seq(Frames)
  BY <1>3
<1>5. /\ \/ ReadFails(w) /\ UNCHANGED workers
         \/ /\ Len(toCoord[w]) >= 2
            /\ toCoord' = [toCoord EXCEPT ![w] = SubSeq(@, 3, Len(@))]
            /\ workers' = Append(workers, w)
      /\ backlog' = Tail(backlog)
      /\ UNCHANGED <<toWorker, workerVars>>
  BY DEF AcceptTwo, Quit
<1> HIDE DEF w
<1>6. toCoord' \in [Worker -> Seq(Frames)]
  <2>1. CASE ReadFails(w)
    BY <1>2, <2>1, ReadType DEF IInv
  <2>2. CASE Len(toCoord[w]) >= 2 /\ toCoord' = [toCoord EXCEPT ![w] = SubSeq(@, 3, Len(@))]
    BY <1>4, <2>2 DEF IInv, TypeOK, WorkersTypeOK
  <2> QED BY <1>5, <2>1, <2>2
<1>7. workers' \in Seq(Worker)
  BY <1>1, <1>2, <1>5
<1> QED BY <1>2, <1>5, <1>6, <1>7 DEF IInv, TypeOK, WorkersTypeOK, workerVars

\* Where the coordinator is when it takes in its two workers.
LEMMA AcceptTwoNext ==
  ASSUME IInv, AcceptFirst \/ RecoverAccept
  PROVE  (TypeOK /\ Control /\ Counts /\ Stored)'
<1>1. PICK at \in {"accept", "r_accept"} : cpc = at /\ AcceptTwo(at, IF at = "accept" THEN "form" ELSE "r_form")
  BY DEF AcceptFirst, RecoverAccept, AcceptTwo
<1>2. WorkersTypeOK' /\ workers' \in Seq(Worker)
  BY <1>1, AcceptType
<1>3. /\ (ci = 1 /\ Size = 0) \/ (ci = 2 /\ Size = 1)
      /\ at = "accept" => round = 1 /\ epoch = 2
      /\ at = "r_accept" => round = 4 /\ Taken = 0
  BY <1>1 DEF IInv, TypeOK, Control, Counts, Beginning, Recovering, Running, Turning
<1>4. /\ UNCHANGED <<round, groups, epoch, got, measured, disk>>
      /\ \/ cpc' = "failed" /\ ci' = ci /\ workers' = workers
         \/ /\ \/ ci = 2 /\ cpc' = (IF at = "accept" THEN "form" ELSE "r_form") /\ ci' = 1
               \/ ci # 2 /\ cpc' = at /\ ci' = ci + 1
            /\ workers' = Append(workers, Head(backlog))
  BY <1>1 DEF AcceptTwo, Quit, Goto
<1>5. workers' = Append(workers, Head(backlog)) => Size' = Size + 1
  BY DEF Size, IInv, TypeOK
<1>6. /\ UNCHANGED <<round, groups, epoch, got, measured, disk>>
      /\ \/ cpc' = "failed" /\ ci' = ci /\ Size' = Size
         \/ at = "accept" /\ cpc' = "form" /\ ci' = 1 /\ Size' = 2
         \/ at = "r_accept" /\ cpc' = "r_form" /\ ci' = 1 /\ Size' = 2
         \/ cpc' = at /\ ci' = 2 /\ Size' = 1
      /\ Taken' = Taken
  <2>1. Taken' = Taken /\ (workers' = workers => Size' = Size)
    BY <1>4 DEF Taken, Size
  <2> QED BY <1>3, <1>4, <1>5, <2>1
<1>7. TypeOK'
  <2>1. cpc' \in Running \cup Recovering \cup Ended
    BY <1>1, <1>6 DEF Running, Recovering, Ended
  <2>2. ci' \in 1 .. 4
    BY <1>3, <1>6
  <2>3. Size' <= 3
    BY <1>3, <1>6
  <2>4. Len(workers') <= 3
    BY <2>3 DEF Size
  <2> QED BY <1>2, <2>4, <1>6, <2>1, <2>2 DEF IInv, TypeOK
<1>8. (Control /\ Counts)'
  BY <1>1, <1>3, <1>6 DEF Control, Counts, Running, Recovering, Beginning, InRound, Turning
<1>9. Stored'
  BY <1>6 DEF IInv, Stored, FileOK
<1> QED BY <1>7, <1>8, <1>9

-----------------------------------------------------------------------------
(* The coordinator sends *)

Sender ==
  \/ FormFirstGroup \/ BarrierRelease \/ SendRequest \/ SendResult \/ Regroup
  \/ RecoverForm \/ RecoverRelease \/ RecoverRequest

\* What is sent, to every worker held.
LEMMA Sending ==
  ASSUME IInv, Sender
  PROVE  /\ Size >= 2
         /\ \E frames \in [Range(workers) -> Frames] :
              /\ SendAll(workers, frames)
              /\ \A w \in Range(workers) :
                   /\ cpc \in {"form", "r_form", "regroup"} =>
                        /\ frames[w].kind = "GROUP_ACCEPT"
                        /\ frames[w].rank = RankOf(FormGroup(workers), w)
                   /\ cpc \in {"release", "r_release"} => frames[w].kind = "COMPLETE"
                   /\ cpc \in {"request", "r_request"} => frames[w] = Frame("REQUEST_COLLECTIVE", round, 0)
                   /\ cpc = "reduce" => frames[w] = Frame("RESULT", round, 0)
<1>1. TypeOK /\ Control /\ Counts
  BY DEF IInv
<1>2. cpc \in {"form", "release", "request", "reduce", "regroup", "r_form", "r_release", "r_request"}
  BY DEF Sender, FormFirstGroup, BarrierRelease, SendRequest, SendResult, Regroup,
         RecoverForm, RecoverRelease, RecoverRequest
<1>3. Size >= 2 /\ (cpc = "r_form" => Size = 2)
  BY <1>1, <1>2 DEF Counts, Running, Recovering
<1>4. round \in 0 .. 4
  BY <1>1 DEF TypeOK
<1>5. Range(workers) \subseteq Worker
  BY <1>1, HeldAreWorkers
<1>6. \A w : RankOf(FormGroup(workers), w) \in 0 .. 1
  BY <1>1, <1>3, FormedGroup DEF Size
<1>7. /\ {"GROUP_ACCEPT", "COMPLETE", "REQUEST_COLLECTIVE", "RESULT"} \subseteq Kinds
      /\ 0 \in 0 .. 1 /\ {1, 2, 3} \subseteq 0 .. 4
  BY DEF Kinds
<1> DEFINE Accept(g) == [w \in Range(workers) |-> Frame("GROUP_ACCEPT", g, RankOf(FormGroup(workers), w))]
           Ack == [w \in Range(workers) |-> Frame("COMPLETE", 1, 0)]
           Request == [w \in Range(workers) |-> Frame("REQUEST_COLLECTIVE", round, 0)]
           Result == [w \in Range(workers) |-> Frame("RESULT", round, 0)]
<1>8. /\ \A g \in {1, 2, 3} : Accept(g) \in [Range(workers) -> Frames]
      /\ Ack \in [Range(workers) -> Frames]
      /\ Request \in [Range(workers) -> Frames] /\ Result \in [Range(workers) -> Frames]
  BY <1>4, <1>6, <1>7, FramesSent
<1>9. /\ FormFirstGroup => cpc = "form" /\ SendAll(workers, Accept(1))
      /\ Regroup => cpc = "regroup" /\ SendAll(workers, Accept(2))
  BY DEF FormFirstGroup, Regroup, AnnounceGroup
<1>10. RecoverForm => cpc = "r_form" /\ SendAll(workers, Accept(3))
  <2> SUFFICES ASSUME RecoverForm PROVE cpc = "r_form" /\ SendAll(workers, Accept(3))
    OBVIOUS
  <2> DEFINE Form == [w \in Range(workers) |-> Frame("GROUP_ACCEPT", 3, FormGroup(workers)[w])]
  <2>1. cpc = "r_form" /\ SendAll(workers, Form)
    BY DEF RecoverForm
  <2>2. \A w \in Range(workers) : w \in {workers[1], workers[2]}
    <3>1. workers \in Seq(Worker) /\ Len(workers) = 2
      BY <1>1, <1>3, <2>1 DEF TypeOK, Size
    <3>2. \A x \in Range(workers) : \E i \in 1 .. 2 : x = workers[i]
      BY <3>1, InRange
    <3> QED BY <3>2
  <2>3. \A w \in {workers[1], workers[2]} : RankOf(FormGroup(workers), w) = FormGroup(workers)[w]
    BY <1>1, <1>3, FormedGroup DEF Size, Rank
  <2>4. Form = Accept(3)
    BY <2>2, <2>3
  <2> QED BY <2>1, <2>4
<1>11. /\ BarrierRelease => cpc = "release" /\ SendAll(workers, Ack)
       /\ RecoverRelease => cpc = "r_release" /\ SendAll(workers, Ack)
       /\ SendRequest => cpc = "request" /\ SendAll(workers, Request)
       /\ RecoverRequest => cpc = "r_request" /\ SendAll(workers, Request)
       /\ SendResult => cpc = "reduce" /\ SendAll(workers, Result)
  BY DEF BarrierRelease, RecoverRelease, SendRequest, RecoverRequest, SendResult
<1>12. /\ \A g \in {1, 2, 3}, w \in Range(workers) :
            /\ Accept(g)[w].kind = "GROUP_ACCEPT"
            /\ Accept(g)[w].rank = RankOf(FormGroup(workers), w)
       /\ \A w \in Range(workers) :
            /\ Ack[w].kind = "COMPLETE"
            /\ Request[w] = Frame("REQUEST_COLLECTIVE", round, 0)
            /\ Result[w] = Frame("RESULT", round, 0)
  BY FramesSent
<1> HIDE DEF Accept, Ack, Request, Result
<1>13. CASE FormFirstGroup
  BY <1>3, <1>8, <1>9, <1>12, <1>13
<1>14. CASE Regroup
  BY <1>3, <1>8, <1>9, <1>12, <1>14
<1>15. CASE RecoverForm
  BY <1>3, <1>8, <1>10, <1>12, <1>15
<1>16. CASE BarrierRelease \/ RecoverRelease
  BY <1>3, <1>8, <1>11, <1>12, <1>16
<1>17. CASE SendRequest \/ RecoverRequest
  BY <1>3, <1>8, <1>11, <1>12, <1>17
<1>18. CASE SendResult
  BY <1>3, <1>8, <1>11, <1>12, <1>18
<1> QED BY <1>13, <1>14, <1>15, <1>16, <1>17, <1>18 DEF Sender

\* What sending changes besides the connections.
LEMMA SenderNext ==
  ASSUME IInv, Sender
  PROVE  /\ (TypeOK /\ Control /\ Counts /\ Stored)'
         /\ UNCHANGED <<workers, round, epoch, measured, disk, backlog, toCoord, workerVars>>
         /\ ci' = 1
         /\ <<cpc, cpc'>> \in {<<"form", "barrier">>, <<"release", "request">>, <<"request", "collect">>,
                               <<"reduce", "acks">>, <<"regroup", "save2">>, <<"r_form", "r_barrier">>,
                               <<"r_release", "r_request">>, <<"r_request", "r_collect">>}
         /\ IF cpc = "request" THEN got' = <<>> ELSE got' = got
<1> DEFINE Step(from, to) == cpc = from /\ cpc' = to
           Steps == \/ Step("form", "barrier") \/ Step("release", "request") \/ Step("request", "collect")
                    \/ Step("reduce", "acks") \/ Step("regroup", "save2") \/ Step("r_form", "r_barrier")
                    \/ Step("r_release", "r_request") \/ Step("r_request", "r_collect")
<1>1. /\ TypeOK /\ Control /\ Counts /\ Stored
      /\ Size >= 2
  BY Sending DEF IInv
<1>2. /\ UNCHANGED <<workers, round, epoch, measured, disk, backlog, toCoord, workerVars>>
      /\ ci' = 1
      /\ Steps
      /\ \/ cpc = "request" /\ got' = <<>>
         \/ cpc # "request" /\ got' = got
  BY DEF Sender, FormFirstGroup, BarrierRelease, SendRequest, SendResult, Regroup,
         RecoverForm, RecoverRelease, RecoverRequest, AnnounceGroup, Goto
<1>3. \/ groups' = groups
      \/ \E g \in {1, 2, 3} :
           groups' = [h \in DOMAIN groups \cup {g} |-> IF h = g THEN FormGroup(workers) ELSE groups[h]]
  BY DEF Sender, FormFirstGroup, BarrierRelease, SendRequest, SendResult, Regroup,
         RecoverForm, RecoverRelease, RecoverRequest, AnnounceGroup
<1>4. IsPair(FormGroup(workers))
  BY <1>1, FormedGroup DEF Size
<1>5. DOMAIN groups' \subseteq 1 .. 3 /\ \A g \in DOMAIN groups' : IsPair(groups'[g])
  BY <1>1, <1>3, <1>4 DEF Stored, TypeOK
<1>6. \A g \in DOMAIN groups' : groups'[g] \in [DOMAIN groups'[g] -> 0 .. 1]
  BY <1>5, PairsType
<1>7. toWorker' \in [Worker -> Seq(Frames)]
  BY <1>1, Sending, SendAllEffect
<1>8. Size' = Size /\ (cpc = "request" => Taken' = 0) /\ (cpc # "request" => Taken' = Taken)
  <2>1. Len(<<>>) = 0
    OBVIOUS
  <2> QED BY <1>2, <2>1 DEF Size, Taken
<1>9. (Control /\ Counts)'
  BY <1>1, <1>2, <1>8 DEF Control, Counts, Running, Recovering, Beginning, InRound, Turning
<1>10. Stored'
  BY <1>1, <1>2, <1>5 DEF Stored, FileOK
<1>11. TypeOK'
  <2>1. cpc' \in Running \cup Recovering \cup Ended /\ ci' \in 1 .. 4
    BY <1>2 DEF Running, Recovering
  <2>2. got' \in Seq([round : 0 .. 4, rank : 0 .. 1]) /\ Len(got') <= 2
    <3>1. Len(<<>>) = 0
      OBVIOUS
    <3>2. <<>> \in Seq([round : 0 .. 4, rank : 0 .. 1])
      BY EmptySeq
    <3>3. got \in Seq([round : 0 .. 4, rank : 0 .. 1]) /\ Len(got) <= 2
      BY <1>1 DEF TypeOK
    <3>4. got' = <<>> \/ got' = got
      BY <1>2
    <3>5. CASE got' = <<>>
      <4>1. Len(got') <= 2
        BY <3>1, <3>5
      <4> QED BY <3>2, <3>5, <4>1
    <3>6. CASE got' = got
      BY <3>3, <3>6
    <3> QED BY <3>4, <3>5, <3>6
  <2> QED BY <1>1, <1>2, <1>5, <1>6, <1>7, <2>1, <2>2 DEF TypeOK, WorkersTypeOK, workerVars
<1>12. <<cpc, cpc'>> \in {<<"form", "barrier">>, <<"release", "request">>, <<"request", "collect">>,
                          <<"reduce", "acks">>, <<"regroup", "save2">>, <<"r_form", "r_barrier">>,
                          <<"r_release", "r_request">>, <<"r_request", "r_collect">>}
  BY <1>2
<1> QED BY <1>2, <1>9, <1>10, <1>11, <1>12

-----------------------------------------------------------------------------
(* The coordinator receives *)

Receiver ==
  BarrierRecv \/ RecvContribution \/ RecvComplete \/ RecoverBarrier \/ RecoverContribution \/ RecoverAcks

\* One connection is read, or its failure met.
LEMMA ReceiverReads ==
  ASSUME IInv, Receiver
  PROVE  /\ workers[ci] \in Worker /\ workers[ci] \in Range(workers)
         /\ ReadFails(workers[ci]) \/ \E f \in Frames : Reads(workers[ci], f)
         /\ toCoord' \in [Worker -> Seq(Frames)]
         /\ UNCHANGED <<workers, round, epoch, measured, disk, groups, backlog, toWorker, workerVars>>
<1>1. TypeOK /\ Control /\ Counts
  BY DEF IInv
<1>2. cpc \in {"barrier", "collect", "acks", "r_barrier", "r_collect", "r_acks"}
  BY DEF Receiver, BarrierRecv, RecvContribution, RecvComplete, RecoverBarrier, RecoverContribution,
         RecoverAcks, RecvFromEach
<1>3. 1 <= ci /\ ci <= Size
  <2>1. CASE cpc \in {"barrier", "acks", "r_barrier", "r_acks"}
    BY <1>1, <2>1 DEF Counts
  <2>2. CASE cpc = "collect"
    <3>1. 1 <= ci /\ ci <= 2
      BY <1>1, <2>2 DEF Counts
    <3>2. Size = 2 \/ Size = 3
      BY <1>1, <2>2 DEF Counts, Running
    <3>3. ci \in Nat
      BY <1>1 DEF TypeOK
    <3> QED BY <3>1, <3>2, <3>3
  <2>3. CASE cpc = "r_collect"
    <3>1. 1 <= ci /\ ci <= 2 /\ Size = 2
      BY <1>1, <2>3 DEF Counts, Recovering
    <3> QED BY <3>1
  <2> QED BY <1>2, <2>1, <2>2, <2>3
<1>4. workers[ci] \in Range(workers) /\ workers[ci] \in Worker
  <2>1. ci \in 1 .. Len(workers)
    BY <1>1, <1>3 DEF TypeOK, Size
  <2> QED BY <1>1, <2>1, HeldAreWorkers
<1>5. /\ ReadFails(workers[ci]) \/ \E f \in Frames : Reads(workers[ci], f)
      /\ UNCHANGED <<workers, round, epoch, measured, disk, groups, backlog, toWorker, workerVars>>
  BY DEF Receiver, BarrierRecv, RecvContribution, RecvComplete, RecoverBarrier, RecoverContribution,
         RecoverAcks, RecvFromEach, Quit
<1>6. toCoord' \in [Worker -> Seq(Frames)]
  BY <1>1, <1>4, <1>5, ReadType
<1> QED BY <1>4, <1>5, <1>6

LEMMA AfterRoundIs ==
  ASSUME round \in 1 .. 4, round < 4
  PROVE  \/ round = 1 /\ AfterRound = "save"
         \/ round = 2 /\ AfterRound = "reconfigure"
         \/ round = 3 /\ AfterRound = "final"
<1>1. round = 1 \/ round = 2 \/ round = 3
  OBVIOUS
<1> QED BY <1>1 DEF AfterRound

\* The places a receiving loop goes to; got stays as it is ...
PassedOver ==
  LET fails == ReadFails(workers[ci])
      reads == \E f \in Frames : Reads(workers[ci], f)
  IN
  /\ got' = got
  /\ \/ cpc = "barrier" /\ cpc' = "failed" /\ ci' = ci
     \/ /\ cpc = "collect" /\ cpc' = AfterRound /\ ci' = 1
        /\ fails \/ \E f \in Frames : Reads(workers[ci], f) /\ f.kind # "CONTRIBUTION"
     \/ cpc = "acks" /\ cpc' = AfterRound /\ ci' = 1 /\ fails
     \/ cpc = "r_collect" /\ cpc' = "failed" /\ ci' = 1
     \/ cpc = "acks" /\ cpc' = "acks" /\ ci # Size /\ ci' = ci + 1 /\ reads
     \/ cpc = "acks" /\ cpc' = "record" /\ ci = Size /\ ci' = 1 /\ reads
     \/ cpc \in {"barrier", "r_barrier", "r_acks"} /\ cpc' = cpc /\ ci # Size /\ ci' = ci + 1
     \/ cpc = "barrier" /\ cpc' = "release" /\ ci = Size /\ ci' = 1
     \/ cpc = "r_barrier" /\ cpc' = "r_release" /\ ci = Size /\ ci' = 1
     \/ cpc = "r_acks" /\ cpc' = "done" /\ ci = Size /\ ci' = 1

\* ... or grows by one.
Gained ==
  /\ \E f \in Frames :
       /\ Reads(workers[ci], f)
       /\ \/ f.kind = "CONTRIBUTION" /\ got' = Append(got, [round |-> f.n, rank |-> f.rank])
          \/ /\ cpc = "r_collect" /\ f.kind # "CONTRIBUTION"
             /\ got' = Append(got, [round |-> 0, rank |-> f.rank])
  /\ \/ cpc = "collect" /\ cpc' = "collect" /\ ci # 2 /\ ci' = ci + 1
     \/ cpc = "collect" /\ cpc' = "reduce" /\ ci = 2 /\ ci' = 1
     \/ cpc = "r_collect" /\ cpc' = "r_collect" /\ ci # Size /\ ci' = ci + 1
     \/ cpc = "r_collect" /\ cpc' = "r_reduce" /\ ci = Size /\ ci' = 1

LEMMA ReceiverSteps ==
  ASSUME Receiver
  PROVE  PassedOver \/ Gained
<1>1. CASE BarrierRecv
  BY <1>1 DEF BarrierRecv, PassedOver, Goto, Quit, Size
<1>2. CASE RecvContribution
  <2>1. cpc = "collect"
    BY <1>2 DEF RecvContribution
  <2> DEFINE lost == /\ Goto(AfterRound, 1) /\ got' = got
                     /\ \/ ReadFails(workers[ci])
                        \/ \E f \in Frames : Reads(workers[ci], f) /\ f.kind # "CONTRIBUTION"
  <2>2. CASE lost
    BY <2>1, <2>2 DEF PassedOver, Goto
  <2>3. CASE ~ lost
    <3>1. /\ \E f \in Frames : /\ Reads(workers[ci], f) /\ f.kind = "CONTRIBUTION"
                               /\ got' = Append(got, [round |-> f.n, rank |-> f.rank])
          /\ IF ci = 2 THEN Goto("reduce", 1) ELSE Goto("collect", ci + 1)
      BY <1>2, <2>3 DEF RecvContribution
    <3> QED BY <2>1, <3>1 DEF Gained, Goto
  <2> QED BY <2>2, <2>3
<1>3. CASE RecvComplete
  BY <1>3 DEF RecvComplete, PassedOver, Goto, Size
<1>4. CASE RecoverBarrier
  BY <1>4 DEF RecoverBarrier, RecvFromEach, PassedOver, Goto, Size
<1>5. CASE RecoverAcks
  BY <1>5 DEF RecoverAcks, RecvFromEach, PassedOver, Goto, Size
<1>6. CASE RecoverContribution
  <2>1. CASE ReadFails(workers[ci]) /\ Goto("failed", 1) /\ UNCHANGED got
    BY <1>6, <2>1 DEF RecoverContribution, PassedOver, Goto
  <2>2. CASE ~ (ReadFails(workers[ci]) /\ Goto("failed", 1) /\ UNCHANGED got)
    <3>1. /\ cpc = "r_collect"
          /\ \E f \in Frames :
               /\ Reads(workers[ci], f)
               /\ got' = Append(got, [round |-> IF f.kind = "CONTRIBUTION" THEN f.n ELSE 0,
                                      rank |-> f.rank])
          /\ IF ci = Len(workers) THEN Goto("r_reduce", 1) ELSE Goto("r_collect", ci + 1)
      BY <1>6, <2>2 DEF RecoverContribution
    <3>2. \E f \in Frames :
            /\ Reads(workers[ci], f)
            /\ \/ f.kind = "CONTRIBUTION" /\ got' = Append(got, [round |-> f.n, rank |-> f.rank])
               \/ f.kind # "CONTRIBUTION" /\ got' = Append(got, [round |-> 0, rank |-> f.rank])
      BY <3>1
    <3> QED BY <3>1, <3>2 DEF Gained, Goto, Size
  <2> QED BY <2>1, <2>2
<1> QED BY <1>1, <1>2, <1>3, <1>4, <1>5, <1>6 DEF Receiver

LEMMA ReceiverNext ==
  ASSUME IInv, Receiver
  PROVE  (TypeOK /\ Control /\ Counts /\ Stored)'
<1>1. TypeOK /\ Control /\ Counts /\ Stored
  BY DEF IInv
<1>2. /\ toCoord' \in [Worker -> Seq(Frames)]
      /\ UNCHANGED <<workers, round, epoch, measured, disk, groups, backlog, toWorker, workerVars>>
  BY ReceiverReads
<1>3. Size' = Size
  BY <1>2 DEF Size
<1>4. /\ got' \in Seq([round : 0 .. 4, rank : 0 .. 1])
      /\ \/ PassedOver /\ Taken' = Taken
         \/ Gained /\ Taken' = Taken + 1
  <2>1. got \in Seq([round : 0 .. 4, rank : 0 .. 1])
    BY <1>1 DEF TypeOK
  <2>2. CASE PassedOver
    <3>1. got' = got
      BY <2>2 DEF PassedOver
    <3>2. Taken' = Taken
      BY <3>1 DEF Taken
    <3>3. got' \in Seq([round : 0 .. 4, rank : 0 .. 1])
      BY <2>1, <3>1
    <3> QED BY <2>2, <3>2, <3>3
  <2>3. ASSUME NEW f \in Frames, NEW n \in {f.n, 0}, got' = Append(got, [round |-> n, rank |-> f.rank])
        PROVE  got' \in Seq([round : 0 .. 4, rank : 0 .. 1]) /\ Len(got') = Len(got) + 1
    <3>1. n \in 0 .. 4 /\ f.rank \in 0 .. 1
      BY DEF Frames
    <3>2. [round |-> n, rank |-> f.rank] \in [round : 0 .. 4, rank : 0 .. 1]
      BY <3>1
    <3> QED BY <2>1, <2>3, <3>2, AppendProperties
  <2>4. CASE Gained
    <3>1. \E f \in Frames : \E n \in {f.n, 0} : got' = Append(got, [round |-> n, rank |-> f.rank])
      BY <2>4 DEF Gained
    <3> QED BY <2>3, <2>4, <3>1 DEF Taken
  <2> QED BY <2>2, <2>4, ReceiverSteps
<1>5. round < 4 => \/ round = 1 /\ AfterRound = "save"
                   \/ round = 2 /\ AfterRound = "reconfigure"
                   \/ round = 3 /\ AfterRound = "final"
  BY <1>1, AfterRoundIs DEF TypeOK
<1>6. /\ cpc \in {"barrier", "collect", "acks"} => round < 4
      /\ cpc \in {"barrier", "collect", "acks"} => Size = 2 \/ (Size = 3 /\ round = 3)
      /\ cpc \in {"r_barrier", "r_collect", "r_acks"} => round = 4 /\ Size = 2
      /\ cpc = "barrier" => round = 1
  <2>1. cpc \in {"barrier", "collect", "acks"} => round < 4
    BY <1>1 DEF Control, Beginning, InRound
  <2>2. cpc \in {"barrier", "collect", "acks"} => Size = 2 \/ (Size = 3 /\ round = 3)
    BY <1>1 DEF Counts, Running
  <2>3. cpc \in {"r_barrier", "r_collect", "r_acks"} => round = 4 /\ Size = 2
    BY <1>1 DEF Control, Counts, Recovering
  <2> QED BY <2>1, <2>2, <2>3, <1>1 DEF Control, Beginning
<1>7. /\ ci \in 1 .. 4
      /\ cpc \in {"barrier", "acks", "r_barrier", "r_acks"} => 1 <= ci /\ ci <= Size
      /\ cpc \in {"collect", "r_collect"} => 1 <= ci /\ ci <= 2 /\ Taken = ci - 1
      /\ cpc = "acks" => Taken = 2
      /\ cpc \in {"barrier", "r_barrier"} => cpc = "barrier" \/ Taken = 0
      /\ cpc = "r_acks" => Taken = 2
  BY <1>1 DEF Counts, TypeOK
<1>8. \/ /\ Taken' = Taken
         /\ \/ cpc = "barrier" /\ cpc' = "failed" /\ ci' = ci
            \/ /\ cpc \in {"collect", "acks"} /\ ci' = 1
               /\ \/ round = 1 /\ cpc' = "save"
                  \/ round = 2 /\ cpc' = "reconfigure"
                  \/ round = 3 /\ cpc' = "final"
            \/ cpc = "r_collect" /\ cpc' = "failed" /\ ci' = 1
            \/ /\ cpc \in {"barrier", "acks", "r_barrier", "r_acks"} /\ cpc' = cpc
               /\ ci # Size /\ ci' = ci + 1
            \/ cpc = "barrier" /\ cpc' = "release" /\ ci' = 1
            \/ cpc = "acks" /\ cpc' = "record" /\ ci' = 1
            \/ cpc = "r_barrier" /\ cpc' = "r_release" /\ ci' = 1
            \/ cpc = "r_acks" /\ cpc' = "done" /\ ci' = 1
      \/ /\ Taken' = Taken + 1
         /\ \/ cpc \in {"collect", "r_collect"} /\ cpc' = cpc /\ ci = 1 /\ ci' = 2
            \/ cpc = "collect" /\ cpc' = "reduce" /\ ci = 2 /\ ci' = 1
            \/ cpc = "r_collect" /\ cpc' = "r_reduce" /\ ci = 2 /\ ci' = 1
  <2>1. CASE PassedOver /\ Taken' = Taken
    BY <1>5, <1>6, <2>1 DEF PassedOver
  <2>2. CASE Gained /\ Taken' = Taken + 1
    <3>1. ci = 1 \/ ci = 2 \/ cpc \notin {"collect", "r_collect"}
      BY <1>7
    <3>2. cpc = "r_collect" => Size = 2
      BY <1>6
    <3>3. \/ cpc = "collect" /\ cpc' = "collect" /\ ci # 2 /\ ci' = ci + 1
          \/ cpc = "collect" /\ cpc' = "reduce" /\ ci = 2 /\ ci' = 1
          \/ cpc = "r_collect" /\ cpc' = "r_collect" /\ ci # Size /\ ci' = ci + 1
          \/ cpc = "r_collect" /\ cpc' = "r_reduce" /\ ci = Size /\ ci' = 1
      BY <2>2 DEF Gained
    <3> QED BY <2>2, <3>1, <3>2, <3>3
  <2> QED BY <1>4, <2>1, <2>2
<1>9. Control'
  BY <1>1, <1>2, <1>6, <1>8 DEF Control, Running, Recovering, Beginning, InRound, Turning
<1>10. Counts'
  BY <1>1, <1>2, <1>3, <1>6, <1>7, <1>8 DEF Counts, Running, Recovering
<1>11. Stored'
  BY <1>1, <1>2 DEF Stored, FileOK
<1>12. TypeOK'
  <2>1. cpc' \in Running \cup Recovering \cup Ended
    BY <1>8 DEF Running, Recovering, Ended
  <2>2. ci' \in 1 .. 4
    BY <1>6, <1>7, <1>8
  <2>3. Taken' <= 2
    <3>1. Taken \in Nat /\ Taken <= 2
      BY <1>1 DEF TypeOK, Taken
    <3> QED BY <3>1, <1>7, <1>8
  <2>4. Len(got') <= 2
    BY <2>3 DEF Taken
  <2> QED BY <1>1, <1>2, <1>4, <2>1, <2>2, <2>4 DEF TypeOK, WorkersTypeOK, workerVars
<1> QED BY <1>9, <1>10, <1>11, <1>12

-----------------------------------------------------------------------------
(* The coordinator by itself *)

\* What is saved is a state file.
LEMMA SnapshotIsFile ==
  ASSUME IInv
  PROVE  FileOK(Snapshot) /\ Snapshot.measured = measured
<1>1. epoch \in 2 .. 3 /\ measured \subseteq 1 .. 3 /\ \A g \in DOMAIN groups : IsPair(groups[g])
  BY DEF IInv, TypeOK, Stored
<1>2. /\ Snapshot.epoch = epoch /\ Snapshot.measured = measured
      /\ DOMAIN Snapshot.groups = DOMAIN groups \cap {1}
      /\ \A g \in DOMAIN groups \cap {1} : Snapshot.groups[g] = groups[g]
  BY DEF Snapshot
<1> QED BY <1>1, <1>2 DEF FileOK

Inner == Record \/ Save \/ Reconfigure \/ SaveBefore2 \/ SaveFinal

LEMMA InnerNext ==
  ASSUME IInv, Inner
  PROVE  /\ (TypeOK /\ Control /\ Counts /\ Stored)'
         /\ UNCHANGED <<workers, groups, got, backlog, toCoord, toWorker, workerVars>>
         /\ ci' = 1
         /\ \/ cpc = "record" /\ round' = round /\ cpc' \in {"save", "reconfigure", "final"}
            \/ cpc = "save" /\ round = 1 /\ round' = 2 /\ cpc' = "request"
            \/ cpc = "reconfigure" /\ round = 2 /\ round' = 2 /\ cpc' = "replace"
            \/ cpc = "save2" /\ round = 2 /\ round' = 3 /\ cpc' = "request"
            \/ cpc = "final" /\ round' = round /\ cpc' = "done"
         /\ epoch' = epoch \/ (epoch = 2 /\ epoch' = 3)
         /\ \A r \in measured' \cup disk'.main.measured \cup disk'.before2.measured :
              \/ r \in measured \cup disk.main.measured \cup disk.before2.measured
              \/ cpc = "record" /\ r = round
<1>1. TypeOK /\ Control /\ Counts /\ Stored /\ FileOK(Snapshot) /\ Snapshot.measured = measured
  BY SnapshotIsFile DEF IInv
<1>2. /\ UNCHANGED <<workers, groups, got, backlog, toCoord, toWorker, workerVars>>
      /\ ci' = 1
  BY DEF Inner, Record, Save, Reconfigure, SaveBefore2, SaveFinal, Goto
<1>3. Size' = Size /\ Taken' = Taken
  BY <1>2 DEF Size, Taken
<1>4. \/ /\ cpc = "record" /\ round < 4 /\ cpc' = AfterRound
         /\ measured' = measured \cup {round} /\ UNCHANGED <<round, epoch, disk>>
      \/ /\ cpc = "save" /\ round = 1 /\ round' = 2 /\ cpc' = "request"
         /\ disk' = [disk EXCEPT !.main = Snapshot] /\ UNCHANGED <<epoch, measured>>
      \/ /\ cpc = "reconfigure" /\ round = 2 /\ round' = 2 /\ cpc' = "replace" /\ epoch = 2 /\ epoch' = 3
         /\ UNCHANGED <<measured, disk>>
      \/ /\ cpc = "save2" /\ round = 2 /\ round' = 3 /\ cpc' = "request"
         /\ disk' = [disk EXCEPT !.before2 = Snapshot] /\ UNCHANGED <<epoch, measured>>
      \/ /\ cpc = "final" /\ cpc' = "done"
         /\ disk' = [disk EXCEPT !.main = Snapshot] /\ UNCHANGED <<round, epoch, measured>>
  <2>1. CASE Record
    BY <1>1, <2>1 DEF Record, Control, InRound, Goto
  <2>2. CASE Save
    BY <1>1, <2>2 DEF Save, Control, Goto
  <2>3. CASE Reconfigure
    <3>1. cpc = "reconfigure" /\ round = 2 /\ epoch = 2
      BY <1>1, <2>3 DEF Reconfigure, Control, Running, Turning
    <3> QED BY <2>3, <3>1 DEF Reconfigure, Goto
  <2>4. CASE SaveBefore2
    BY <1>1, <2>4 DEF SaveBefore2, Control, Turning, Goto
  <2>5. CASE SaveFinal
    BY <2>5 DEF SaveFinal, Goto
  <2> QED BY <2>1, <2>2, <2>3, <2>4, <2>5 DEF Inner
<1>5. /\ \/ cpc = "record" /\ round' = round
            /\ \/ round = 1 /\ cpc' = "save"
               \/ round = 2 /\ cpc' = "reconfigure"
               \/ round = 3 /\ cpc' = "final"
         \/ cpc = "save" /\ round = 1 /\ round' = 2 /\ cpc' = "request" /\ epoch' = epoch
         \/ cpc = "reconfigure" /\ round = 2 /\ round' = 2 /\ cpc' = "replace" /\ epoch = 2 /\ epoch' = 3
         \/ cpc = "save2" /\ round = 2 /\ round' = 3 /\ cpc' = "request" /\ epoch' = epoch
         \/ cpc = "final" /\ round' = round /\ cpc' = "done"
      /\ epoch' = epoch \/ (cpc = "reconfigure" /\ epoch = 2 /\ epoch' = 3)
  <2>1. round \in 1 .. 4
    BY <1>1 DEF TypeOK
  <2> QED BY <1>4, <2>1, AfterRoundIs
<1>6. /\ disk' = [main |-> disk'.main, before2 |-> disk'.before2]
      /\ disk'.main = disk.main \/ disk'.main = Snapshot
      /\ disk'.before2 = disk.before2 \/ disk'.before2 = Snapshot
  BY <1>1, <1>4 DEF Stored
<1>7. measured' = measured \/ (cpc = "record" /\ measured' = measured \cup {round} /\ disk' = disk)
  BY <1>4
<1>8. Control'
  BY <1>1, <1>5 DEF Control, Running, Recovering, Beginning, InRound, Turning
<1>9. Counts'
  BY <1>1, <1>2, <1>3, <1>5 DEF Counts, Control, Running, Recovering, Turning
<1>10. Stored'
  BY <1>1, <1>2, <1>6 DEF Stored, FileOK
<1>11. TypeOK'
  <2>1. cpc' \in Running \cup Recovering \cup Ended /\ ci' \in 1 .. 4 /\ round' \in 1 .. 4 /\ epoch' \in 2 .. 3
    BY <1>1, <1>2, <1>5 DEF Running, Ended, TypeOK
  <2>2. measured' \subseteq 1 .. 3
    <3>1. cpc = "record" => round \in 1 .. 3
      BY <1>4, <1>1 DEF TypeOK
    <3> QED BY <3>1, <1>1, <1>7 DEF TypeOK
  <2> QED BY <1>1, <1>2, <2>1, <2>2 DEF TypeOK, WorkersTypeOK, workerVars
<1>12. ASSUME NEW r \in measured' \cup disk'.main.measured \cup disk'.before2.measured
       PROVE  \/ r \in measured \cup disk.main.measured \cup disk.before2.measured
              \/ cpc = "record" /\ r = round
  BY <1>1, <1>6, <1>7, <1>12
<1> QED BY <1>2, <1>5, <1>8, <1>9, <1>10, <1>11, <1>12

\* The ranks computed anew from a saved group are the ranks it had.
LEMMA RebuildKeepsRanks ==
  ASSUME NEW f, FileOK(f)
  PROVE  RebuildRuntime(f.groups) = [g \in DOMAIN f.groups |-> f.groups[g]]
BY PairsType DEF FileOK, RebuildRuntime

LEMMA RecoverLoadNext ==
  ASSUME IInv, RecoverLoad
  PROVE  /\ (TypeOK /\ Control /\ Counts /\ Stored)'
         /\ UNCHANGED <<round, workers, got, measured, disk, backlog, toCoord, toWorker, workerVars>>
         /\ cpc = "load" /\ cpc' \in {"done", "failed", "r_accept"}
<1>1. TypeOK /\ Control /\ Counts /\ Stored /\ FileOK(disk.main)
  BY DEF IInv, Stored
<1>2. /\ UNCHANGED <<round, workers, got, measured, disk, backlog, toCoord, toWorker, workerVars>>
      /\ cpc = "load" /\ ci' = 1 /\ cpc' \in {"done", "failed", "r_accept"}
      /\ \/ UNCHANGED <<epoch, groups>>
         \/ disk.main # NoFile /\ epoch' = disk.main.epoch /\ groups' = RebuildRuntime(disk.main.groups)
  BY DEF RecoverLoad, Goto
<1>3. /\ epoch' \in 2 .. 3
      /\ DOMAIN groups' \subseteq 1 .. 3 /\ \A g \in DOMAIN groups' : IsPair(groups'[g])
  <2>1. CASE UNCHANGED <<epoch, groups>>
    BY <1>1, <2>1 DEF TypeOK, Stored
  <2>2. CASE disk.main # NoFile /\ epoch' = disk.main.epoch /\ groups' = RebuildRuntime(disk.main.groups)
    <3>1. groups' = [g \in DOMAIN disk.main.groups |-> disk.main.groups[g]]
      BY <1>1, <2>2, RebuildKeepsRanks
    <3>2. \A g \in DOMAIN disk.main.groups : g = 1 /\ IsPair(disk.main.groups[g])
      BY <1>1 DEF FileOK
    <3>3. epoch' \in 2 .. 3
      BY <1>1, <2>2 DEF FileOK
    <3>4. DOMAIN groups' = DOMAIN disk.main.groups /\ \A g \in DOMAIN groups' : IsPair(groups'[g])
      BY <3>1, <3>2
    <3> QED BY <3>2, <3>3, <3>4
  <2> QED BY <1>2, <2>1, <2>2
<1>4. \A g \in DOMAIN groups' : groups'[g] \in [DOMAIN groups'[g] -> 0 .. 1]
  BY <1>3, PairsType
<1>5. Size' = Size /\ Size = 0 /\ Taken' = Taken /\ Taken = 0 /\ round' = 4
  BY <1>1, <1>2 DEF Size, Taken, Counts, Control, Recovering
<1>6. (Control /\ Counts)'
  BY <1>2, <1>5 DEF Control, Counts, Running, Recovering, Beginning, InRound, Turning
<1>7. Stored'
  BY <1>1, <1>2, <1>3 DEF Stored, FileOK
<1>8. TypeOK'
  <2>1. cpc' \in Running \cup Recovering \cup Ended /\ ci' \in 1 .. 4
    BY <1>2 DEF Recovering, Ended
  <2> QED BY <1>1, <1>2, <1>3, <1>4, <2>1 DEF TypeOK, WorkersTypeOK, workerVars
<1> QED BY <1>2, <1>6, <1>7, <1>8

LEMMA RecoverResultNext ==
  ASSUME IInv, RecoverResult
  PROVE  /\ (TypeOK /\ Control /\ Counts /\ Stored)'
         /\ UNCHANGED <<round, workers, groups, epoch, got, measured, disk, backlog, toCoord, workerVars>>
         /\ cpc = "r_reduce" /\ cpc' \in {"done", "r_acks"}
         /\ \/ UNCHANGED toWorker
            \/ \E frames \in [Range(workers) -> Frames] :
                 /\ SendAll(workers, frames)
                 /\ \A w \in Range(workers) : frames[w].kind = "RESULT"
<1>1. TypeOK /\ Control /\ Counts /\ Stored
  BY DEF IInv
<1> DEFINE Result == [w \in Range(workers) |-> Frame("RESULT", round, 0)]
<1>2. /\ UNCHANGED <<round, workers, groups, epoch, got, measured, disk, backlog, toCoord, workerVars>>
      /\ cpc = "r_reduce" /\ ci' = 1
      /\ \/ cpc' = "done" /\ UNCHANGED toWorker
         \/ cpc' = "r_acks" /\ SendAll(workers, Result)
  BY DEF RecoverResult, Goto
<1>3. Result \in [Range(workers) -> Frames] /\ \A w \in Range(workers) : Result[w].kind = "RESULT"
  <2>1. round \in 0 .. 4 /\ 0 \in 0 .. 1 /\ "RESULT" \in Kinds
    BY <1>1 DEF TypeOK, Kinds
  <2> QED BY <2>1, FramesSent
<1> HIDE DEF Result
<1>4. toWorker' \in [Worker -> Seq(Frames)]
  <2>1. CASE UNCHANGED toWorker
    BY <1>1, <2>1 DEF TypeOK, WorkersTypeOK
  <2>2. CASE SendAll(workers, Result)
    BY <1>1, <1>3, <2>2, SendAllEffect
  <2> QED BY <1>2, <2>1, <2>2
<1>5. Size' = Size /\ Size = 2 /\ Taken' = Taken /\ Taken = 2 /\ round' = 4
  BY <1>1, <1>2 DEF Size, Taken, Counts, Control, Recovering
<1>6. (Control /\ Counts)'
  BY <1>2, <1>5 DEF Control, Counts, Running, Recovering, Beginning, InRound, Turning
<1>7. Stored'
  BY <1>1, <1>2 DEF Stored, FileOK
<1>8. TypeOK'
  <2>1. cpc' \in Running \cup Recovering \cup Ended /\ ci' \in 1 .. 4
    BY <1>2 DEF Recovering, Ended
  <2> QED BY <1>1, <1>2, <1>4, <2>1 DEF TypeOK, WorkersTypeOK, workerVars
<1>9. \/ UNCHANGED toWorker
      \/ \E frames \in [Range(workers) -> Frames] :
           /\ SendAll(workers, frames)
           /\ \A w \in Range(workers) : frames[w].kind = "RESULT"
  BY <1>2, <1>3
<1> QED BY <1>2, <1>6, <1>7, <1>8, <1>9

LEMMA AcceptReplacementNext ==
  ASSUME IInv, AcceptReplacement
  PROVE  (TypeOK /\ Control /\ Counts /\ Stored)'
<1> DEFINE w == Head(backlog)
<1>1. /\ TypeOK /\ Control /\ Counts /\ Stored
      /\ backlog \in Seq(Worker) /\ backlog # <<>> /\ workers \in Seq(Worker)
  BY DEF IInv, TypeOK, WorkersTypeOK, AcceptReplacement
<1>2. w \in Worker /\ Tail(backlog) \in Seq(Worker)
  BY <1>1, HeadTailProperties
<1>3. /\ cpc = "replace" /\ backlog' = Tail(backlog)
      /\ ReadFails(w) \/ (/\ Len(toCoord[w]) >= 2
                          /\ toCoord' = [toCoord EXCEPT ![w] = SubSeq(@, 3, Len(@))])
      /\ \/ cpc' = "failed" /\ ci' = ci /\ workers' = workers
         \/ cpc' = "regroup" /\ ci' = 1 /\ workers' = Append(workers, w)
      /\ UNCHANGED <<round, groups, epoch, got, measured, disk, toWorker, workerVars>>
  BY DEF AcceptReplacement, Quit, Goto
<1> HIDE DEF w
<1>4. toCoord' \in [Worker -> Seq(Frames)]
  <2>1. CASE ReadFails(w)
    BY <1>1, <1>2, <2>1, ReadType
  <2>2. CASE Len(toCoord[w]) >= 2 /\ toCoord' = [toCoord EXCEPT ![w] = SubSeq(@, 3, Len(@))]
    <3>1. toCoord[w] \in Seq(Frames)
      BY <1>1, <1>2 DEF TypeOK, WorkersTypeOK
    <3>2. SubSeq(toCoord[w], 3, Len(toCoord[w])) \in Seq(Frames)
      BY <3>1
    <3> QED BY <1>1, <2>2, <3>2 DEF TypeOK, WorkersTypeOK
  <2> QED BY <1>3, <2>1, <2>2
<1>5. round = 2 /\ epoch = 3 /\ Size = 2
  BY <1>1, <1>3 DEF Control, Counts, Running, Turning
<1>6. /\ workers' \in Seq(Worker) /\ Taken' = Taken
      /\ \/ cpc' = "failed" /\ ci' = ci /\ Size' = 2
         \/ cpc' = "regroup" /\ ci' = 1 /\ Size' = 3
  <2>1. CASE cpc' = "failed" /\ ci' = ci /\ workers' = workers
    BY <1>1, <1>3, <1>5, <2>1 DEF Size, Taken
  <2>2. CASE cpc' = "regroup" /\ ci' = 1 /\ workers' = Append(workers, w)
    <3>1. workers' \in Seq(Worker) /\ Len(workers') = Len(workers) + 1
      BY <1>1, <1>2, <2>2, AppendProperties
    <3> QED BY <1>3, <1>5, <2>2, <3>1 DEF Size, Taken
  <2> QED BY <1>3, <2>1, <2>2
<1>7. (Control /\ Counts)'
  BY <1>3, <1>5, <1>6 DEF Control, Counts, Running, Recovering, Beginning, InRound, Turning
<1>8. Stored'
  BY <1>1, <1>3 DEF Stored, FileOK
<1>9. TypeOK'
  <2>1. cpc' \in Running \cup Recovering \cup Ended /\ ci' \in 1 .. 4
    BY <1>1, <1>6 DEF TypeOK, Running, Ended
  <2>2. Size' <= 3
    BY <1>6
  <2>3. Len(workers') <= 3
    BY <2>2 DEF Size
  <2> QED BY <1>1, <1>2, <1>3, <1>4, <1>6, <2>1, <2>3 DEF TypeOK, WorkersTypeOK, workerVars
<1> QED BY <1>7, <1>8, <1>9

-----------------------------------------------------------------------------
(* The workers and the driver *)

LEMMA WorkerMoveNext ==
  ASSUME IInv, NEW w \in Worker, WorkerMove(w), UNCHANGED coordVars
  PROVE  /\ (TypeOK /\ Control /\ Counts /\ Stored)'
         /\ cpc' = cpc
<1>1. TypeOK /\ Control /\ Counts /\ Stored
  BY DEF IInv
<1>2. WorkersTypeOK'
  BY WorkerMoveType
<1>3. cpc' = cpc
  BY DEF WorkerMove, TakeAccept, TakeAck, TakeRequest, TakeResult, SeeClosed, Ends
<1>4. Size' = Size /\ Taken' = Taken
  BY DEF coordVars, Size, Taken
<1>5. Control' /\ Counts'
  BY <1>1, <1>3, <1>4 DEF coordVars, Control, Counts
<1>6. Stored'
  BY <1>1 DEF coordVars, Stored, FileOK
<1>7. TypeOK'
  BY <1>1, <1>2, <1>3 DEF coordVars, TypeOK
<1> QED BY <1>3, <1>5, <1>6, <1>7

LEMMA StartNext ==
  ASSUME IInv, NEW w \in Worker, Start(w)
  PROVE  (TypeOK /\ Control /\ Counts /\ Stored)'
<1>1. TypeOK /\ Control /\ Counts /\ Stored
  BY DEF IInv
<1>2. UNCHANGED <<coordVars, cpc, toWorker, patience, wrank, answered, results>>
  BY DEF Start, Launch
<1>3. Size' = Size /\ Taken' = Taken
  BY <1>2 DEF coordVars, Size, Taken
<1>4. Control' /\ Counts'
  BY <1>1, <1>2, <1>3 DEF coordVars, Control, Counts
<1>5. Stored'
  BY <1>1, <1>2 DEF coordVars, Stored, FileOK
<1>6. backlog' \in Seq(Worker)
  BY <1>1, AppendProperties DEF Start, Launch, TypeOK, WorkersTypeOK
<1>7. toCoord' \in [Worker -> Seq(Frames)]
  <2>1. Frame("HELLO", 0, 0) \in Frames /\ Frame("JOIN_GROUP", 0, 0) \in Frames
    BY FramesSent DEF Kinds
  <2>2. <<Frame("HELLO", 0, 0), Frame("JOIN_GROUP", 0, 0)>> \in Seq(Frames)
    BY <2>1
  <2> QED BY <1>1, <2>2 DEF Start, Launch, TypeOK, WorkersTypeOK
<1>8. TypeOK'
  BY <1>1, <1>2, <1>6, <1>7 DEF Start, Launch, coordVars, TypeOK, WorkersTypeOK
<1> QED BY <1>4, <1>5, <1>8

LEMMA CoordinatorDiesNext ==
  ASSUME IInv, CoordinatorDies
  PROVE  (TypeOK /\ Control /\ Counts /\ Stored)'
<1>1. TypeOK /\ Control /\ Counts /\ Stored
  BY DEF IInv
<1>2. cpc' = "failed" /\ UNCHANGED <<coordVars, backlog, toCoord, toWorker, workerVars>>
  BY DEF CoordinatorDies
<1>3. Control' /\ Counts'
  BY <1>2 DEF Control, Counts, Running, Recovering, Beginning, InRound, Turning
<1>4. Stored'
  BY <1>1, <1>2 DEF coordVars, Stored, FileOK
<1>5. TypeOK'
  BY <1>1, <1>2 DEF coordVars, workerVars, Ended, TypeOK, WorkersTypeOK
<1> QED BY <1>3, <1>4, <1>5

LEMMA StartRecoveryNext ==
  ASSUME IInv, StartRecovery
  PROVE  (TypeOK /\ Control /\ Counts /\ Stored)'
<1>1. TypeOK /\ Control /\ Counts /\ Stored
  BY DEF IInv
<1>2. /\ cpc' = "load" /\ ci' = 1 /\ round' = 4
      /\ workers' = <<>> /\ groups' = <<>> /\ got' = <<>> /\ measured' = {}
      /\ backlog' = <<>>
      /\ toCoord' = [w \in Worker |-> <<>>]
      /\ toWorker' = [w \in Worker |-> <<>>]
      /\ wpc' = [w \in Worker |-> IF w \in Fresh THEN wpc[w] ELSE "dead"]
      /\ UNCHANGED <<epoch, disk, patience, wrank, answered, results>>
  BY DEF StartRecovery, Goto
<1>3. Size' = 0 /\ Taken' = 0
  <2>1. Len(<<>>) = 0
    OBVIOUS
  <2> QED BY <1>2, <2>1 DEF Size, Taken
<1>4. Control' /\ Counts'
  BY <1>2, <1>3 DEF Control, Counts, Running, Recovering, Beginning, InRound, Turning
<1>5. Stored'
  <2>1. DOMAIN groups' = {}
    BY <1>2
  <2> QED BY <1>1, <1>2, <2>1 DEF Stored, FileOK
<1>6. WorkersTypeOK'
  <2>1. <<>> \in Seq(Worker) /\ <<>> \in Seq(Frames)
    OBVIOUS
  <2> QED BY <1>1, <1>2, <2>1 DEF TypeOK, WorkersTypeOK
<1>7. TypeOK'
  <2>1. workers' \in Seq(Worker) /\ Len(workers') <= 3
    <3>1. Len(workers') <= 3
      BY <1>3 DEF Size
    <3> QED BY <1>2, <3>1, EmptySeq
  <2>2. got' \in Seq([round : 0 .. 4, rank : 0 .. 1]) /\ Len(got') <= 2
    <3>1. Len(got') <= 2
      BY <1>3 DEF Taken
    <3> QED BY <1>2, <3>1, EmptySeq
  <2>3. DOMAIN groups' = {} /\ cpc' \in Recovering
    BY <1>2 DEF Recovering
  <2> QED BY <1>1, <1>2, <1>6, <2>1, <2>2, <2>3 DEF TypeOK
<1> QED BY <1>4, <1>5, <1>7

-----------------------------------------------------------------------------
(* What is on the way to a worker *)

\* A frame less.
LEMMA LessOnTheWay ==
  ASSUME NEW s \in Seq(Frames), s # <<>>, NEW t, t = Tail(s)
  PROVE  /\ \A kind : NoneOf(kind, s) => Head(s).kind # kind /\ NoneOf(kind, t)
         /\ \A r : Asks(s, r) =>
              /\ Head(s).kind = "REQUEST_COLLECTIVE" => t = <<>> /\ Head(s).n = r
              /\ Head(s).kind # "REQUEST_COLLECTIVE" \/ Len(s) > 1 =>
                   Asks(t, r) /\ Head(s).kind # "REQUEST_COLLECTIVE"
         /\ Len(s) = 1 => t = <<>>
         /\ Len(s) > 1 => t # <<>>
<1>1. /\ t \in Seq(Frames) /\ Head(s) = s[1] /\ 1 \in DOMAIN s
      /\ Len(t) = Len(s) - 1 /\ DOMAIN t = 1 .. Len(t) /\ DOMAIN s = 1 .. Len(s)
      /\ \A i \in DOMAIN t : i + 1 \in DOMAIN s /\ t[i] = s[i + 1]
  BY FirstTaken
<1>2. Len(s) \in Nat /\ Len(t) \in Nat /\ Len(s) >= 1
  <2>1. Len(s) \in Nat /\ Len(t) \in Nat
    BY <1>1, LenProperties
  <2> QED BY <1>1, <2>1
<1>3. ASSUME NEW kind, NoneOf(kind, s) PROVE Head(s).kind # kind /\ NoneOf(kind, t)
  BY <1>1, <1>3 DEF NoneOf
<1>4. Len(t) = 0 => t = <<>>
  BY <1>1
<1>5. Len(s) = 1 => t = <<>>
  BY <1>1, <1>2, <1>4
<1>6. Len(s) > 1 => t # <<>>
  <2> SUFFICES ASSUME Len(s) > 1 PROVE Len(t) # 0
    OBVIOUS
  <2> QED BY <1>1, <1>2
<1>7. ASSUME NEW r, Asks(s, r)
      PROVE  /\ Head(s).kind = "REQUEST_COLLECTIVE" => t = <<>> /\ Head(s).n = r
             /\ Head(s).kind # "REQUEST_COLLECTIVE" \/ Len(s) > 1 =>
                  Asks(t, r) /\ Head(s).kind # "REQUEST_COLLECTIVE"
  <2>1. CASE Len(s) = 1
    <3>1. Head(s) = Frame("REQUEST_COLLECTIVE", r, 0)
      BY <1>1, <1>7, <2>1 DEF Asks
    <3> QED BY <1>5, <2>1, <3>1, FramesSent
  <2>2. CASE Len(s) > 1
    <3>1. Head(s).kind # "REQUEST_COLLECTIVE"
      BY <1>1, <1>7, <2>2 DEF Asks
    <3>2. t # <<>> /\ Len(t) \in DOMAIN t /\ Len(t) + 1 = Len(s)
      <4>1. Len(t) + 1 = Len(s) /\ Len(t) >= 1
        BY <1>1, <1>2, <2>2
      <4> QED BY <1>1, <1>2, <1>6, <2>2, <4>1
    <3>3. t[Len(t)] = Frame("REQUEST_COLLECTIVE", r, 0)
      BY <1>1, <1>7, <3>2 DEF Asks
    <3>4. ASSUME NEW i \in DOMAIN t, i # Len(t) PROVE t[i].kind # "REQUEST_COLLECTIVE"
      <4>1. i + 1 # Len(s)
        BY <1>1, <1>2, <3>2, <3>4
      <4> QED BY <1>1, <1>7, <4>1 DEF Asks
    <3>5. Asks(t, r)
      BY <3>2, <3>3, <3>4 DEF Asks
    <3> QED BY <3>1, <3>5
  <2>3. Len(s) = 1 \/ Len(s) > 1
    <3>1. \A n \in Nat : n >= 1 => n = 1 \/ n > 1
      OBVIOUS
    <3> QED BY <1>2, <3>1, Zenon
  <2> QED BY <2>1, <2>2, <2>3
<1> QED BY <1>3, <1>5, <1>6, <1>7

\* A frame more.
LEMMA MoreOnTheWay ==
  ASSUME NEW s \in Seq(Frames), NEW f \in Frames, NEW t, t = Append(s, f)
  PROVE  /\ \A kind : NoneOf(kind, s) /\ f.kind # kind => NoneOf(kind, t)
         /\ \A r : NoneOf("REQUEST_COLLECTIVE", s) /\ f = Frame("REQUEST_COLLECTIVE", r, 0) => Asks(t, r)
         /\ t # <<>>
         /\ s # <<>> => Len(t) > 1
         /\ s = <<>> => t = <<f>>
<1>1. /\ t # <<>> /\ Len(t) = Len(s) + 1 /\ t[Len(t)] = f
      /\ \A i \in DOMAIN s : t[i] = s[i]
      /\ \A i \in DOMAIN t : i # Len(t) => i \in DOMAIN s
  BY Appended
<1>2. \A kind : NoneOf(kind, s) /\ f.kind # kind => NoneOf(kind, t)
  BY <1>1 DEF NoneOf
<1>3. \A r : NoneOf("REQUEST_COLLECTIVE", s) /\ f = Frame("REQUEST_COLLECTIVE", r, 0) => Asks(t, r)
  BY <1>1 DEF NoneOf, Asks
<1>4. s # <<>> => Len(t) > 1
  <2>1. s # <<>> => Len(s) \in Nat \ {0}
    BY EmptySeq
  <2> QED BY <1>1, <2>1
<1>5. s = <<>> => t = <<f>>
  OBVIOUS
<1> QED BY <1>1, <1>2, <1>3, <1>4, <1>5

-----------------------------------------------------------------------------
(* What a worker does, seen from its connection *)

Goes(w, from, to) == wpc[w] = from /\ wpc'[w] = to
Took(w) == toWorker[w] # <<>> /\ toWorker'[w] = Tail(toWorker[w])
Sent(w, f) == toCoord'[w] = Append(toCoord[w], f)

SameRecord(w) == wrank'[w] = wrank[w] /\ answered'[w] = answered[w] /\ results'[w] = results[w]
Untouched(w) ==
  /\ toCoord'[w] = toCoord[w] /\ toWorker'[w] = toWorker[w] /\ wpc'[w] = wpc[w]
  /\ SameRecord(w)

Moves(w) ==
  LET f == Head(toWorker[w]) IN
  \/ /\ Took(w) /\ Goes(w, "accept", "ack") /\ Sent(w, Frame("BARRIER", f.n, 0))
     /\ wrank'[w] = f.rank /\ answered'[w] = answered[w] /\ results'[w] = results[w]
  \/ /\ Took(w) /\ toCoord'[w] = toCoord[w] /\ SameRecord(w)
     /\ \/ Goes(w, "ack", "loop")
        \/ Goes(w, "loop", "loop") /\ f.kind # "REQUEST_COLLECTIVE"
        \/ Goes(w, "loop", "stalled") /\ f.kind = "REQUEST_COLLECTIVE"
        \/ Goes(w, "result", "exited") /\ f.kind # "RESULT"
  \/ /\ Took(w) /\ Goes(w, "loop", "result") /\ f.kind = "REQUEST_COLLECTIVE"
     /\ Sent(w, Frame("CONTRIBUTION", f.n, wrank[w]))
     /\ wrank'[w] = wrank[w] /\ answered'[w] = answered[w] + 1 /\ results'[w] = results[w]
  \/ /\ Took(w) /\ Goes(w, "result", "loop") /\ f.kind = "RESULT" /\ Sent(w, Frame("COMPLETE", f.n, 0))
     /\ wrank'[w] = wrank[w] /\ answered'[w] = answered[w] /\ results'[w] = results[w] \cup {f.n}
  \/ /\ wpc[w] \notin {"off", "dead", "exited"} /\ wpc'[w] = "dead" /\ toWorker'[w] = <<>>
     /\ toCoord'[w] = toCoord[w] /\ SameRecord(w)

LEMMA MoveEffect ==
  ASSUME IInv, NEW w \in Worker, WorkerMove(w), cpc \notin Ended
  PROVE  Moves(w) /\ UNCHANGED backlog /\ \A v \in Worker : v # w => Untouched(v)
<1> USE DEF Untouched, SameRecord, Moves, Goes, Took, Sent
<1>1. /\ toCoord \in [Worker -> Seq(Frames)] /\ toWorker \in [Worker -> Seq(Frames)]
      /\ wpc \in [Worker -> {"off", "accept", "ack", "loop", "result", "stalled", "dead", "exited"}]
      /\ wrank \in [Worker -> 0 .. 1] /\ answered \in [Worker -> 0 .. 4]
      /\ results \in [Worker -> SUBSET (0 .. 4)]
  BY DEF IInv, TypeOK, WorkersTypeOK
<1>2. CASE TakeAccept(w)
  BY <1>1, <1>2 DEF TakeAccept, Receives, Sends
<1>3. CASE TakeAck(w)
  BY <1>1, <1>3 DEF TakeAck, Receives
<1>4. CASE TakeRequest(w)
  BY <1>1, <1>4 DEF TakeRequest, Receives, Sends
<1>5. CASE TakeResult(w)
  BY <1>1, <1>5 DEF TakeResult, Receives, Sends
<1>6. CASE SeeClosed(w)
  BY <1>6 DEF SeeClosed
<1>7. CASE Ends(w)
  BY <1>1, <1>7 DEF Ends
<1> QED BY <1>2, <1>3, <1>4, <1>5, <1>6, <1>7 DEF WorkerMove

\* Where a connection is, whoever moves, it stays.
LEMMA MoveKeeps ==
  ASSUME IInv, NEW w \in Worker, Moves(w)
  PROVE  /\ Joined(w) => Joined(w)'
         /\ Idle(w) => Idle(w)'
         /\ Contributed(w) => Contributed(w)'
         /\ Mute(w) => Mute(w)'
         /\ \A k : Grouped(w, k) => Grouped(w, k)'
         /\ \A r : Answered(w, r) => Answered(w, r)'
         /\ \A k : KnowsRank(w, k) /\ (wpc[w] = "accept" => Grouped(w, k)) => KnowsRank(w, k)'
         /\ \A r, k : KnowsRank(w, k) /\ Requested(w, r, k) => Requested(w, r, k)'
         /\ results[w] \subseteq results'[w]
<1>1. toWorker[w] \in Seq(Frames) /\ toCoord[w] \in Seq(Frames)
  BY DEF IInv, TypeOK, WorkersTypeOK
<1> DEFINE f == Head(toWorker[w])
           t == Tail(toWorker[w])
<1>2. ASSUME Took(w)
      PROVE  /\ toWorker[w] # <<>> /\ toWorker'[w] = t
             /\ \A kind : NoneOf(kind, toWorker[w]) => f.kind # kind /\ NoneOf(kind, t)
             /\ \A r : Asks(toWorker[w], r) =>
                  /\ f.kind = "REQUEST_COLLECTIVE" => t = <<>> /\ f.n = r
                  /\ f.kind # "REQUEST_COLLECTIVE" \/ Len(toWorker[w]) > 1 =>
                       Asks(t, r) /\ f.kind # "REQUEST_COLLECTIVE"
             /\ Len(toWorker[w]) = 1 => t = <<>>
             /\ f = toWorker[w][1]
  <2>1. toWorker[w] # <<>> /\ toWorker'[w] = t
    BY <1>2 DEF Took
  <2>2. f = toWorker[w][1]
    BY <1>1, <2>1
  <2> HIDE DEF f
  <2>3. Head(toWorker[w]) = f
    BY DEF f
  <2> QED BY <1>1, <2>1, <2>2, <2>3, LessOnTheWay, Zenon
<1>3. ASSUME NEW g, toCoord[w] = <<>>, Sent(w, g)
      PROVE  toCoord'[w] = <<g>> /\ Len(toCoord'[w]) = 1 /\ toCoord'[w][1] = g
  <2>1. toCoord'[w] = <<g>>
    BY <1>3 DEF Sent
  <2> QED BY <2>1
<1> HIDE DEF f, t
<1>4. CASE Took(w) /\ Goes(w, "accept", "ack") /\ Sent(w, Frame("BARRIER", f.n, 0))
           /\ wrank'[w] = f.rank /\ answered'[w] = answered[w] /\ results'[w] = results[w]
  <2> USE <1>4 DEF Goes, Quiet, Gone
  <2>1. ASSUME NEW k, Grouped(w, k) PROVE Grouped(w, k)' /\ KnowsRank(w, k)'
    <3>1. toCoord[w] = <<>> /\ Len(toWorker[w]) = 1 /\ toWorker[w][1].rank = k
      BY <2>1 DEF Grouped
    <3>2. toWorker'[w] = <<>> /\ f.rank = k
      BY <1>2, <3>1
    <3>3. Len(toCoord'[w]) = 1 /\ toCoord'[w][1].kind = "BARRIER"
      BY <1>3, <3>1, FramesSent
    <3> QED BY <3>2, <3>3 DEF Grouped, KnowsRank
  <2>2. /\ ~ Joined(w) /\ ~ Idle(w) /\ ~ Contributed(w) /\ ~ Mute(w)
        /\ \A r : ~ Answered(w, r)
        /\ \A r, k : ~ Requested(w, r, k)
    BY DEF Joined, Idle, Contributed, Mute, Answered, Requested
  <2> QED BY <2>1, <2>2
<1>5. CASE Took(w) /\ toCoord'[w] = toCoord[w] /\ SameRecord(w)
           /\ (Goes(w, "ack", "loop") \/ (Goes(w, "loop", "loop") /\ f.kind # "REQUEST_COLLECTIVE"))
  <2> USE <1>5 DEF Goes, SameRecord, Quiet, Gone
  <2>1. Idle(w) => Idle(w)'
    BY <1>2 DEF Idle
  <2>2. ASSUME NEW r, NEW k, Requested(w, r, k) PROVE Requested(w, r, k)'
    <3>1. toCoord[w] = <<>> /\ Asks(toWorker[w], r) /\ (wpc[w] = "ack" => Len(toWorker[w]) > 1)
      BY <1>2, <2>2 DEF Requested
    <3>2. Asks(toWorker'[w], r)
      BY <1>2, <3>1
    <3> QED BY <3>1, <3>2 DEF Requested
  <2>3. /\ ~ Joined(w) /\ ~ Contributed(w) /\ ~ Mute(w)
        /\ \A k : ~ Grouped(w, k)
        /\ \A r : ~ Answered(w, r)
    BY <1>2 DEF Joined, Contributed, Mute, Grouped, Answered
  <2>4. \A k : KnowsRank(w, k) => KnowsRank(w, k)'
    BY DEF KnowsRank
  <2> QED BY <2>1, <2>2, <2>3, <2>4
<1>6. CASE Took(w) /\ toCoord'[w] = toCoord[w] /\ SameRecord(w)
           /\ Goes(w, "loop", "stalled") /\ f.kind = "REQUEST_COLLECTIVE"
  <2> USE <1>6 DEF Goes, SameRecord, Quiet, Gone
  <2>1. /\ ~ Idle(w) /\ ~ Joined(w) /\ ~ Contributed(w) /\ ~ Mute(w)
        /\ \A k : ~ Grouped(w, k)
        /\ \A r : ~ Answered(w, r)
    BY <1>2 DEF Idle, Joined, Contributed, Mute, Grouped, Answered
  <2>2. ASSUME NEW r, NEW k, Requested(w, r, k) PROVE Requested(w, r, k)'
    BY <2>2 DEF Requested
  <2>3. \A k : KnowsRank(w, k)'
    BY DEF KnowsRank
  <2> QED BY <2>1, <2>2, <2>3
<1>7. CASE Took(w) /\ toCoord'[w] = toCoord[w] /\ SameRecord(w)
           /\ Goes(w, "result", "exited") /\ f.kind # "RESULT"
  <2> USE <1>7 DEF Goes, SameRecord, Quiet, Gone
  <2>1. /\ ~ Idle(w) /\ ~ Joined(w) /\ ~ Contributed(w)
        /\ \A k : ~ Grouped(w, k)
        /\ \A r, k : ~ Requested(w, r, k)
    BY <1>2 DEF Idle, Joined, Contributed, Grouped, Requested
  <2>2. \A r : ~ Answered(w, r)
    BY <1>2, FramesSent DEF Answered
  <2>3. Mute(w) => Mute(w)'
    BY DEF Mute
  <2>4. \A k : KnowsRank(w, k)'
    BY DEF KnowsRank
  <2> QED BY <2>1, <2>2, <2>3, <2>4
<1>8. CASE Took(w) /\ Goes(w, "loop", "result") /\ f.kind = "REQUEST_COLLECTIVE"
           /\ Sent(w, Frame("CONTRIBUTION", f.n, wrank[w]))
           /\ wrank'[w] = wrank[w] /\ answered'[w] = answered[w] + 1 /\ results'[w] = results[w]
  <2> USE <1>8 DEF Goes, Quiet, Gone
  <2>1. /\ ~ Idle(w) /\ ~ Joined(w) /\ ~ Contributed(w) /\ ~ Mute(w)
        /\ \A k : ~ Grouped(w, k)
        /\ \A r : ~ Answered(w, r)
    BY <1>2 DEF Idle, Joined, Contributed, Mute, Grouped, Answered
  <2>2. ASSUME NEW r, NEW k, Requested(w, r, k), KnowsRank(w, k) PROVE Requested(w, r, k)'
    <3>1. toCoord[w] = <<>> /\ Asks(toWorker[w], r) /\ wrank[w] = k
      BY <2>2 DEF Requested, KnowsRank
    <3>2. toWorker'[w] = <<>> /\ f.n = r
      BY <1>2, <3>1
    <3>3. toCoord'[w] = <<Frame("CONTRIBUTION", r, k)>>
      BY <1>3, <3>1, <3>2
    <3> QED BY <3>2, <3>3 DEF Requested
  <2>3. \A k : KnowsRank(w, k) => KnowsRank(w, k)'
    BY DEF KnowsRank
  <2> QED BY <2>1, <2>2, <2>3
<1>9. CASE Took(w) /\ Goes(w, "result", "loop") /\ f.kind = "RESULT" /\ Sent(w, Frame("COMPLETE", f.n, 0))
           /\ wrank'[w] = wrank[w] /\ answered'[w] = answered[w] /\ results'[w] = results[w] \cup {f.n}
  <2> USE <1>9 DEF Goes, Quiet, Gone
  <2>1. /\ ~ Idle(w) /\ ~ Joined(w) /\ ~ Contributed(w) /\ ~ Mute(w)
        /\ \A k : ~ Grouped(w, k)
        /\ \A r, k : ~ Requested(w, r, k)
    BY <1>2 DEF Idle, Joined, Contributed, Mute, Grouped, Requested
  <2>2. ASSUME NEW r, Answered(w, r) PROVE Answered(w, r)'
    <3>1. toCoord[w] = <<>> /\ toWorker[w] = <<Frame("RESULT", r, 0)>>
      BY <2>2 DEF Answered
    <3>2. Len(toWorker[w]) = 1 /\ toWorker[w][1] = Frame("RESULT", r, 0)
      BY <3>1
    <3>3. toWorker'[w] = <<>> /\ f.n = r
      BY <1>2, <3>2, FramesSent
    <3>4. Len(toCoord'[w]) = 1
      BY <1>3, <3>1
    <3> QED BY <3>3, <3>4 DEF Answered
  <2>3. \A k : KnowsRank(w, k) => KnowsRank(w, k)'
    BY DEF KnowsRank
  <2> QED BY <2>1, <2>2, <2>3
<1>10. CASE wpc[w] \notin {"off", "dead", "exited"} /\ wpc'[w] = "dead" /\ toWorker'[w] = <<>>
            /\ toCoord'[w] = toCoord[w] /\ SameRecord(w)
  <2> USE <1>10 DEF Quiet, Gone, SameRecord
  <2>1. /\ Joined(w) => Joined(w)'
        /\ Idle(w) => Idle(w)'
        /\ Contributed(w) => Contributed(w)'
        /\ Mute(w) => Mute(w)'
    BY DEF Joined, Idle, Contributed, Mute
  <2>2. \A k : Grouped(w, k) => Grouped(w, k)'
    BY DEF Grouped
  <2>3. \A r : Answered(w, r) => Answered(w, r)'
    BY DEF Answered
  <2>4. \A k : KnowsRank(w, k)'
    BY DEF KnowsRank
  <2>5. \A r, k : Requested(w, r, k) => Requested(w, r, k)'
    BY DEF Requested
  <2> QED BY <2>1, <2>2, <2>3, <2>4, <2>5
<1>11. Moves(w)
  OBVIOUS
<1> QED BY <1>4, <1>5, <1>6, <1>7, <1>8, <1>9, <1>10, <1>11 DEF Moves, f

\* A connection that nobody touches.
LEMMA UntouchedKeeps ==
  ASSUME NEW v, Untouched(v)
  PROVE  /\ Joined(v) => Joined(v)'
         /\ Idle(v) => Idle(v)'
         /\ Contributed(v) => Contributed(v)'
         /\ Mute(v) => Mute(v)'
         /\ Waiting(v) => Waiting(v)'
         /\ \A k : Grouped(v, k) => Grouped(v, k)'
         /\ \A r : Answered(v, r) => Answered(v, r)'
         /\ \A k : KnowsRank(v, k) => KnowsRank(v, k)'
         /\ \A r, k : Requested(v, r, k) => Requested(v, r, k)'
         /\ results'[v] = results[v]
<1> USE DEF Untouched, SameRecord, Quiet, Gone
<1>1. /\ Joined(v) => Joined(v)'
      /\ Idle(v) => Idle(v)'
      /\ Contributed(v) => Contributed(v)'
      /\ Mute(v) => Mute(v)'
      /\ Waiting(v) => Waiting(v)'
  BY DEF Joined, Idle, Contributed, Mute, Waiting
<1>2. \A k : Grouped(v, k) => Grouped(v, k)'
  BY DEF Grouped
<1>3. \A r : Answered(v, r) => Answered(v, r)'
  BY DEF Answered
<1>4. \A k : KnowsRank(v, k) => KnowsRank(v, k)'
  BY DEF KnowsRank
<1>5. \A r, k : Requested(v, r, k) => Requested(v, r, k)'
  BY DEF Requested
<1> QED BY <1>1, <1>2, <1>3, <1>4, <1>5

\* What the coordinator reads from a connection, and where that leaves it.
LEMMA ReadEffect ==
  ASSUME IInv, NEW w \in Worker, UNCHANGED <<toWorker, workerVars>>
  PROVE  /\ ReadFails(w) =>
              /\ Joined(w)' /\ Idle(w)' /\ Contributed(w)' /\ Mute(w)'
              /\ \A v \in Worker : v # w => Untouched(v)
         /\ \A f : Reads(w, f) =>
              /\ ~ Joined(w) /\ ~ Idle(w) /\ ~ Contributed(w) /\ ~ Mute(w)
              /\ \A k : Grouped(w, k) => f.kind = "BARRIER" /\ Joined(w)'
              /\ \A r, k : Requested(w, r, k) => f = Frame("CONTRIBUTION", r, k) /\ Contributed(w)'
              /\ \A r : Answered(w, r) => Idle(w)' /\ r \in results[w]
              /\ \A v \in Worker : v # w => Untouched(v)
         /\ \A v, k : KnowsRank(v, k) => KnowsRank(v, k)'
<1>1. toCoord \in [Worker -> Seq(Frames)] /\ toCoord[w] \in Seq(Frames)
  BY DEF IInv, TypeOK, WorkersTypeOK
<1>2. UNCHANGED <<toWorker, wpc, patience, wrank, answered, results>>
  BY DEF workerVars
<1> USE <1>2 DEF Quiet, Gone
<1>3. ASSUME ReadFails(w)
      PROVE  /\ Joined(w)' /\ Idle(w)' /\ Contributed(w)' /\ Mute(w)'
             /\ \A v \in Worker : v # w => Untouched(v)
  <2>1. wpc[w] \in {"dead", "exited"} /\ toCoord'[w] = <<>>
        /\ \A v \in Worker : v # w => toCoord'[v] = toCoord[v]
    BY <1>1, <1>3 DEF ReadFails
  <2> QED BY <2>1 DEF Joined, Idle, Contributed, Mute, Untouched, SameRecord
<1>4. ASSUME NEW f, Reads(w, f)
      PROVE  /\ ~ Joined(w) /\ ~ Idle(w) /\ ~ Contributed(w) /\ ~ Mute(w)
             /\ \A k : Grouped(w, k) => f.kind = "BARRIER" /\ Joined(w)'
             /\ \A r, k : Requested(w, r, k) => f = Frame("CONTRIBUTION", r, k) /\ Contributed(w)'
             /\ \A r : Answered(w, r) => Idle(w)' /\ r \in results[w]
             /\ \A v \in Worker : v # w => Untouched(v)
  <2>1. /\ toCoord[w] # <<>> /\ f = Head(toCoord[w]) /\ toCoord'[w] = Tail(toCoord[w])
        /\ \A v \in Worker : v # w => toCoord'[v] = toCoord[v]
    BY <1>1, <1>4 DEF Reads
  <2>2. f = toCoord[w][1]
    BY <2>1
  <2>3. Len(toCoord[w]) = 1 => toCoord'[w] = <<>>
    <3>1. Len(toCoord[w]) = 1 => Tail(toCoord[w]) = <<>>
      BY <1>1, <2>1, LessOnTheWay, Zenon
    <3> QED BY <2>1, <3>1
  <2>4. ~ Joined(w) /\ ~ Idle(w) /\ ~ Contributed(w) /\ ~ Mute(w)
    BY <2>1 DEF Joined, Idle, Contributed, Mute
  <2>5. ASSUME NEW k, Grouped(w, k) PROVE f.kind = "BARRIER" /\ Joined(w)'
    BY <2>1, <2>2, <2>3, <2>5 DEF Grouped, Joined
  <2>6. ASSUME NEW r, NEW k, Requested(w, r, k) PROVE f = Frame("CONTRIBUTION", r, k) /\ Contributed(w)'
    <3>1. toCoord[w] = <<Frame("CONTRIBUTION", r, k)>> /\ (Gone(w) \/ (wpc[w] = "result" /\ toWorker[w] = <<>>))
      BY <2>1, <2>6 DEF Requested
    <3>2. f = Frame("CONTRIBUTION", r, k) /\ Len(toCoord[w]) = 1
      BY <2>2, <3>1
    <3> QED BY <2>3, <3>1, <3>2 DEF Contributed
  <2>7. ASSUME NEW r, Answered(w, r) PROVE Idle(w)' /\ r \in results[w]
    <3>1. Len(toCoord[w]) = 1 /\ (Gone(w) \/ (wpc[w] = "loop" /\ toWorker[w] = <<>>)) /\ r \in results[w]
      BY <2>1, <2>7 DEF Answered
    <3>2. NoneOf("REQUEST_COLLECTIVE", <<>>)
      BY DEF NoneOf
    <3> QED BY <2>3, <3>1, <3>2 DEF Idle
  <2>8. \A v \in Worker : v # w => Untouched(v)
    BY <2>1 DEF Untouched, SameRecord
  <2> QED BY <2>4, <2>5, <2>6, <2>7, <2>8
<1>5. \A v, k : KnowsRank(v, k) => KnowsRank(v, k)'
  BY DEF KnowsRank
<1> QED BY <1>3, <1>4, <1>5

\* What the coordinator sends to a connection, and where that leaves it.
LEMMA SendEffect ==
  ASSUME IInv, UNCHANGED <<toCoord, workerVars>>,
         NEW frames \in [Range(workers) -> Frames], SendAll(workers, frames),
         NEW w \in Range(workers)
  PROVE  /\ Waiting(w) /\ toCoord[w] = <<>> => Grouped(w, frames[w].rank)' /\ wpc[w] \notin {"ack", "loop", "result"}
         /\ Joined(w) /\ frames[w].kind = "COMPLETE" => Idle(w)'
         /\ Idle(w) /\ frames[w].kind # "REQUEST_COLLECTIVE" => Idle(w)'
         /\ \A r, k : Idle(w) /\ frames[w] = Frame("REQUEST_COLLECTIVE", r, 0) => Requested(w, r, k)'
         /\ \A r : Contributed(w) /\ frames[w] = Frame("RESULT", r, 0) => Answered(w, r)'
         /\ Mute(w) /\ frames[w].kind # "RESULT" => Mute(w)'
         /\ \A k : KnowsRank(w, k) => KnowsRank(w, k)'
<1>1. TypeOK /\ w \in Worker
  BY HeldAreWorkers DEF IInv
<1>2. toWorker[w] \in Seq(Frames) /\ frames[w] \in Frames
  BY <1>1 DEF TypeOK, WorkersTypeOK
<1>3. /\ Gone(w) => toWorker'[w] = toWorker[w]
      /\ ~ Gone(w) => toWorker'[w] = Append(toWorker[w], frames[w])
  BY <1>1, SendAllEffect
<1>4. UNCHANGED <<toCoord, wpc, wrank, results>>
  BY DEF workerVars
<1>5. ASSUME ~ Gone(w)
      PROVE  /\ \A kind : NoneOf(kind, toWorker[w]) /\ frames[w].kind # kind => NoneOf(kind, toWorker'[w])
             /\ \A r : NoneOf("REQUEST_COLLECTIVE", toWorker[w]) /\ frames[w] = Frame("REQUEST_COLLECTIVE", r, 0)
                         => Asks(toWorker'[w], r)
             /\ toWorker'[w] # <<>>
             /\ toWorker[w] # <<>> => Len(toWorker'[w]) > 1
             /\ toWorker[w] = <<>> => toWorker'[w] = <<frames[w]>>
  BY <1>2, <1>3, <1>5, MoreOnTheWay, Zenon
<1> USE <1>4 DEF Quiet, Gone
<1>6. CASE Gone(w)
  <2> USE <1>3, <1>6
  <2>1. /\ Joined(w) => Idle(w)'
        /\ Idle(w) => Idle(w)'
        /\ \A r, k : Idle(w) => Requested(w, r, k)'
        /\ \A r : Contributed(w) => Answered(w, r)'
        /\ Mute(w) => Mute(w)'
    BY DEF Joined, Idle, Requested, Contributed, Answered, Mute
  <2>2. Waiting(w) /\ toCoord[w] = <<>> => Grouped(w, frames[w].rank)' /\ wpc[w] \notin {"ack", "loop", "result"}
    BY DEF Waiting, Grouped
  <2>3. \A k : KnowsRank(w, k)'
    BY DEF KnowsRank
  <2> QED BY <2>1, <2>2, <2>3
<1>7. CASE ~ Gone(w)
  <2>1. ASSUME Waiting(w), toCoord[w] = <<>>
        PROVE  Grouped(w, frames[w].rank)' /\ wpc[w] \notin {"ack", "loop", "result"}
    <3>1. toWorker'[w] = <<frames[w]>> /\ wpc[w] = "accept"
      BY <1>5, <1>7, <2>1 DEF Waiting
    <3>2. Len(toWorker'[w]) = 1 /\ toWorker'[w][1].rank = frames[w].rank
      BY <3>1
    <3> QED BY <2>1, <3>1, <3>2 DEF Grouped
  <2>2. ASSUME Joined(w), frames[w].kind = "COMPLETE" PROVE Idle(w)'
    <3>1. toWorker[w] = <<>> /\ wpc[w] = "ack" /\ toCoord[w] = <<>>
      BY <1>7, <2>2 DEF Joined
    <3>2. NoneOf("REQUEST_COLLECTIVE", <<>>)
      BY DEF NoneOf
    <3>3. NoneOf("REQUEST_COLLECTIVE", toWorker'[w]) /\ toWorker'[w] # <<>>
      BY <1>5, <1>7, <2>2, <3>1, <3>2
    <3> QED BY <3>1, <3>3 DEF Idle
  <2>3. ASSUME Idle(w), frames[w].kind # "REQUEST_COLLECTIVE" PROVE Idle(w)'
    BY <1>5, <1>7, <2>3 DEF Idle
  <2>4. ASSUME NEW r, NEW k, Idle(w), frames[w] = Frame("REQUEST_COLLECTIVE", r, 0) PROVE Requested(w, r, k)'
    <3>1. /\ toCoord[w] = <<>> /\ wpc[w] \in {"ack", "loop"}
          /\ NoneOf("REQUEST_COLLECTIVE", toWorker[w]) /\ (wpc[w] = "ack" => toWorker[w] # <<>>)
      BY <1>7, <2>4 DEF Idle
    <3>2. Asks(toWorker'[w], r) /\ (wpc[w] = "ack" => Len(toWorker'[w]) > 1)
      BY <1>5, <1>7, <2>4, <3>1
    <3> QED BY <3>1, <3>2 DEF Requested
  <2>5. ASSUME NEW r, Contributed(w), frames[w] = Frame("RESULT", r, 0) PROVE Answered(w, r)'
    BY <1>5, <1>7, <2>5 DEF Contributed, Answered
  <2>6. ASSUME Mute(w), frames[w].kind # "RESULT" PROVE Mute(w)'
    BY <1>5, <1>7, <2>6 DEF Mute
  <2>7. \A k : KnowsRank(w, k) => KnowsRank(w, k)'
    BY DEF KnowsRank
  <2> QED BY <2>1, <2>2, <2>3, <2>4, <2>5, <2>6, <2>7
<1> QED BY <1>6, <1>7

-----------------------------------------------------------------------------
(* Each step keeps the connections in step, or stuck *)

LEMMA TwoConnections ==
  ASSUME IInv, cpc \in Synchronised \cup {"form", "r_form"}
  PROVE  /\ Size >= 2 /\ workers[1] # workers[2]
         /\ \A p \in {1, 2} :
              /\ p \in DOMAIN workers /\ workers[p] \in Range(workers) /\ workers[p] \in Worker
              /\ RankOf(FormGroup(workers), workers[p]) = Rank(workers[p])
         /\ Rank(workers[1]) \in 0 .. 1 /\ Rank(workers[2]) \in 0 .. 1
         /\ Rank(workers[1]) # Rank(workers[2])
         /\ \A w \in Range(workers) : wpc[w] # "off"
<1>1. TypeOK /\ Counts /\ Connected
  BY DEF IInv
<1>2. Size >= 2
  <2>1. Size = 2 \/ Size = 3
    BY <1>1 DEF Counts, Synchronised, Running, Recovering
  <2> QED BY <2>1
<1>3. DOMAIN workers = 1 .. Len(workers) /\ workers \in Seq(Worker)
  BY <1>1, LenProperties DEF TypeOK
<1>4. 1 \in 1 .. Len(workers) /\ 2 \in 1 .. Len(workers)
  BY <1>2, <1>3 DEF Size
<1>5. \A p \in {1, 2} : p \in DOMAIN workers /\ workers[p] \in Range(workers) /\ workers[p] \in Worker
  BY <1>1, <1>3, <1>4, HeldAreWorkers
<1>6. workers[1] # workers[2] /\ \A w \in Range(workers) : wpc[w] # "off"
  <2>1. cpc \in Live
    BY DEF Live, Synchronised, Running, Recovering
  <2>2. Injective(workers)
    BY <1>1, <2>1 DEF Connected
  <2>3. workers[1] # workers[2]
    BY <1>5, <2>2 DEF Injective
  <2> QED BY <1>1, <2>1, <2>3 DEF Connected
<1>7. /\ FormGroup(workers) \in [{workers[1], workers[2]} -> 0 .. 1]
      /\ \A w \in {workers[1], workers[2]} : RankOf(FormGroup(workers), w) = Rank(w)
      /\ Rank(workers[1]) # Rank(workers[2])
  BY <1>1, <1>2, <1>6, FormedGroup DEF Size
<1>8. Rank(workers[1]) \in 0 .. 1 /\ Rank(workers[2]) \in 0 .. 1
  BY <1>7 DEF Rank
<1> QED BY <1>2, <1>5, <1>6, <1>7, <1>8

\* The ranks are those of the first two connections.
LEMMA SameRanks ==
  ASSUME workers'[1] = workers[1], workers'[2] = workers[2]
  PROVE  \A w : Rank(w)' = Rank(w)
BY DEF Rank, FormGroup

LEMMA SenderSynchrony ==
  ASSUME IInv, Sender
  PROVE  Synchrony'
<1>1. Synchrony /\ TakenIn
  BY DEF IInv
<1>2. /\ UNCHANGED <<workers, round, toCoord, workerVars>>
      /\ ci' = 1
      /\ \/ cpc = "form" /\ cpc' = "barrier"
         \/ cpc = "r_form" /\ cpc' = "r_barrier"
         \/ cpc = "release" /\ cpc' = "request"
         \/ cpc = "r_release" /\ cpc' = "r_request"
         \/ cpc = "request" /\ cpc' = "collect"
         \/ cpc = "r_request" /\ cpc' = "r_collect"
         \/ cpc = "reduce" /\ cpc' = "acks"
         \/ cpc = "regroup" /\ cpc' = "save2"
  BY SenderNext
<1>3. PICK frames \in [Range(workers) -> Frames] :
        /\ SendAll(workers, frames)
        /\ \A w \in Range(workers) :
             /\ cpc \in {"form", "r_form", "regroup"} =>
                  /\ frames[w].kind = "GROUP_ACCEPT"
                  /\ frames[w].rank = RankOf(FormGroup(workers), w)
             /\ cpc \in {"release", "r_release"} => frames[w].kind = "COMPLETE"
             /\ cpc \in {"request", "r_request"} => frames[w] = Frame("REQUEST_COLLECTIVE", round, 0)
             /\ cpc = "reduce" => frames[w] = Frame("RESULT", round, 0)
  BY Sending
<1>4. cpc \in Synchronised \cup {"form", "r_form"}
  BY <1>2 DEF Synchronised, Running
<1>5. \A w : Rank(w)' = Rank(w)
  BY <1>2, SameRanks
<1>6. ASSUME NEW p \in {1, 2}, NEW w \in Range(workers), w = workers[p],
             InStep \/ cpc \in {"form", "r_form"}
      PROVE  Stage(p)' /\ KnowsRank(w, Rank(w))'
  <2>1. ci' <= p /\ workers'[p] = w /\ RankOf(FormGroup(workers), w) = Rank(w)
    BY <1>2, <1>4, <1>6, TwoConnections
  <2>2. /\ cpc \in {"form", "r_form"} => Waiting(w) /\ toCoord[w] = <<>>
        /\ cpc \in {"release", "r_release"} => Joined(w)
        /\ cpc \in {"request", "r_request", "regroup"} => Idle(w)
        /\ cpc = "reduce" => Contributed(w)
        /\ cpc \notin {"form", "r_form"} => KnowsRank(w, Rank(w))
    BY <1>1, <1>6 DEF TakenIn, InStep, Stage, Turning
  <2>3. /\ Waiting(w) /\ toCoord[w] = <<>> => Grouped(w, frames[w].rank)' /\ wpc[w] \notin {"ack", "loop", "result"}
        /\ Joined(w) /\ frames[w].kind = "COMPLETE" => Idle(w)'
        /\ Idle(w) /\ frames[w].kind # "REQUEST_COLLECTIVE" => Idle(w)'
        /\ \A r, k : Idle(w) /\ frames[w] = Frame("REQUEST_COLLECTIVE", r, 0) => Requested(w, r, k)'
        /\ \A r : Contributed(w) /\ frames[w] = Frame("RESULT", r, 0) => Answered(w, r)'
        /\ \A k : KnowsRank(w, k) => KnowsRank(w, k)'
    BY <1>2, <1>3, SendEffect
  <2>4. KnowsRank(w, Rank(w))'
    <3>1. CASE cpc \in {"form", "r_form"}
      BY <1>2, <2>2, <2>3, <3>1 DEF KnowsRank, workerVars
    <3>2. CASE cpc \notin {"form", "r_form"}
      <4>1. PICK k : k = Rank(w)
        OBVIOUS
      <4>2. KnowsRank(w, k)'
        BY <2>2, <2>3, <3>2, <4>1
      <4> QED BY <1>5, <4>1, <4>2
    <3> QED BY <3>1, <3>2
  <2>5. PICK k : k = Rank(w)
    OBVIOUS
  <2>6. k = Rank(w)'
    BY <1>5, <2>5
  <2>7. CASE cpc \in {"form", "r_form"}
    <3>1. Grouped(w, k)'
      BY <1>3, <2>1, <2>2, <2>3, <2>5, <2>7
    <3> QED BY <1>2, <2>1, <2>4, <2>6, <2>7, <3>1 DEF Stage, Turning
  <2>8. CASE cpc \in {"release", "r_release"}
    <3>1. Idle(w)'
      BY <1>3, <2>2, <2>3, <2>8
    <3> QED BY <1>2, <2>1, <2>4, <2>8, <3>1 DEF Stage, Turning
  <2>9. CASE cpc \in {"request", "r_request"}
    <3>1. Requested(w, round, k)'
      <4>1. PICK r : r = round
        OBVIOUS
      <4>2. Requested(w, r, k)'
        BY <1>3, <2>2, <2>3, <2>9, <4>1
      <4> QED BY <1>2, <4>1, <4>2
    <3> QED BY <1>2, <2>1, <2>4, <2>6, <2>9, <3>1 DEF Stage, Turning
  <2>10. CASE cpc = "reduce"
    <3>1. PICK r : r = round
      OBVIOUS
    <3>2. Answered(w, r)'
      BY <1>3, <2>2, <2>3, <2>10, <3>1
    <3> QED BY <1>2, <2>1, <2>4, <2>10, <3>1, <3>2 DEF Stage, Turning
  <2>11. CASE cpc = "regroup"
    <3>1. Idle(w)'
      BY <1>3, <2>2, <2>3, <2>11
    <3> QED BY <1>2, <2>1, <2>4, <2>11, <3>1 DEF Stage, Turning
  <2> QED BY <1>2, <2>7, <2>8, <2>9, <2>10, <2>11
<1>7. CASE InStep \/ cpc \in {"form", "r_form"}
  <2>1. PICK v \in Range(workers), w \in Range(workers) : v = workers[1] /\ w = workers[2]
    BY <1>4, TwoConnections
  <2>2. Stage(1)' /\ KnowsRank(v, Rank(v))' /\ Stage(2)' /\ KnowsRank(w, Rank(w))'
    BY <1>6, <1>7, <2>1
  <2>3. v = workers'[1] /\ w = workers'[2]
    BY <1>2, <2>1
  <2> QED BY <2>2, <2>3 DEF Synchrony, InStep
<1>8. CASE Stuck
  <2>1. PICK w \in Range(workers) : w = workers[1]
    BY <1>4, TwoConnections
  <2>2. Mute(w) /\ (cpc = "request" \/ cpc = "regroup")
    BY <1>2, <1>8, <2>1 DEF Stuck, Turning
  <2>3. frames[w].kind # "RESULT"
    BY <1>3, <2>2, FramesSent
  <2>4. Mute(w)'
    BY <1>2, <1>3, <2>2, <2>3, SendEffect
  <2> QED BY <1>2, <2>1, <2>2, <2>4 DEF Synchrony, Stuck, Turning
<1> QED BY <1>1, <1>4, <1>7, <1>8 DEF Synchrony

\* Who contributed says no more until the result comes.
LEMMA ContributedIsMute ==
  ASSUME NEW w, Contributed(w)
  PROVE  Mute(w)
<1>1. NoneOf("RESULT", <<>>)
  BY DEF NoneOf
<1> QED BY <1>1 DEF Contributed, Mute

LEMMA ReceiverSynchrony ==
  ASSUME IInv, Receiver
  PROVE  Synchrony' /\ Acknowledged'
<1>1. TypeOK /\ Counts /\ Synchrony /\ Acknowledged /\ (PassedOver \/ Gained)
  BY ReceiverSteps DEF IInv
<1>2. UNCHANGED <<workers, round, toWorker, workerVars>> /\ UNCHANGED results
  BY ReceiverReads DEF workerVars
<1>3. cpc \in {"barrier", "collect", "acks", "r_barrier", "r_collect", "r_acks"}
  BY DEF Receiver, BarrierRecv, RecvContribution, RecvComplete, RecoverBarrier, RecoverContribution,
         RecoverAcks, RecvFromEach
<1>4. CASE cpc = "r_acks"
  <2>1. cpc' \in {"r_acks", "done"}
    BY <1>1, <1>4 DEF PassedOver, Gained
  <2> QED BY <2>1 DEF Synchrony, Synchronised, Acknowledged, Running
<1>5. CASE cpc # "r_acks"
  <2>1. cpc \in Synchronised
    BY <1>3, <1>5 DEF Synchronised, Running
  <2>2. PICK v \in Worker, w \in Worker :
          v = workers[1] /\ w = workers[2] /\ v # w /\ v \in Range(workers) /\ w \in Range(workers)
    BY <2>1, TwoConnections
  <2>3. v = workers'[1] /\ w = workers'[2] /\ \A y : Rank(y)' = Rank(y)
    BY <1>2, <2>2, SameRanks
  <2>4. PICK x \in Worker : x = workers[ci]
    BY ReceiverReads
  <2>5. /\ ReadFails(x) =>
             /\ Joined(x)' /\ Idle(x)' /\ Contributed(x)' /\ Mute(x)'
             /\ \A y \in Worker : y # x => Untouched(y)
        /\ \A f : Reads(x, f) =>
             /\ ~ Joined(x) /\ ~ Idle(x) /\ ~ Contributed(x) /\ ~ Mute(x)
             /\ \A k : Grouped(x, k) => f.kind = "BARRIER" /\ Joined(x)'
             /\ \A r, k : Requested(x, r, k) => f = Frame("CONTRIBUTION", r, k) /\ Contributed(x)'
             /\ \A r : Answered(x, r) => Idle(x)' /\ r \in results[x]
             /\ \A y \in Worker : y # x => Untouched(y)
        /\ \A y, k : KnowsRank(y, k) => KnowsRank(y, k)'
    BY <1>2, ReadEffect
  <2>6. /\ \A y \in Worker : y # x => Untouched(y)
        /\ ReadFails(x) \/ \E f : Reads(x, f)
    BY <2>4, <2>5, ReceiverReads
  <2>7. PICK j, k, n : j = Rank(v) /\ k = Rank(w) /\ n = round
    OBVIOUS
  <2>8. j = Rank(v)' /\ k = Rank(w)' /\ n = round'
    BY <1>2, <2>3, <2>7
  <2>9. InStep => /\ KnowsRank(v, Rank(v))' /\ KnowsRank(w, Rank(w))'
                  /\ Stage(1) /\ Stage(2)
    BY <2>2, <2>5, <2>7, <2>8 DEF InStep
  <2>10. ASSUME InStep, Stage(1)', Stage(2)' PROVE InStep'
    BY <2>3, <2>9, <2>10 DEF InStep
  <2>11. /\ cpc \in {"barrier", "r_barrier", "r_collect"} => Size = 2
         /\ Size = 2 \/ Size = 3
         /\ ci = 1 \/ ci = 2 \/ (ci = 3 /\ cpc = "acks" /\ Size = 3)
    <3>1. cpc \in {"barrier", "r_barrier", "r_collect"} => Size = 2
      BY <1>1 DEF Counts, Control, IInv, Running, Recovering, Beginning
    <3>2. Size = 2 \/ Size = 3
      BY <1>1, <2>1 DEF Counts, Synchronised, Running, Recovering
    <3>3. /\ ci \in 1 .. 4
          /\ cpc \in {"barrier", "r_barrier", "acks"} => ci <= Size
          /\ cpc \in {"collect", "r_collect"} => ci <= 2
      BY <1>1 DEF Counts, TypeOK
    <3>4. ci = 1 \/ ci = 2 \/ ci = 3 \/ ci = 4
      BY <3>3
    <3>5. ci = 3 => cpc = "acks" /\ Size = 3
      BY <1>3, <1>5, <3>1, <3>2, <3>3
    <3>6. ci # 4
      BY <1>3, <1>5, <3>1, <3>2, <3>3
    <3> QED BY <3>1, <3>2, <3>4, <3>5, <3>6
  <2>12. cpc \in {"collect", "acks"} => AfterRound \in {"save", "reconfigure", "final"}
    <3>1. cpc \in {"collect", "acks"} => round < 4
      BY DEF IInv, Control, InRound
    <3> QED BY <1>1, <3>1, AfterRoundIs DEF TypeOK
  <2>13. /\ Untouched(v) => /\ Joined(v) => Joined(v)'
                            /\ Idle(v) => Idle(v)'
                            /\ Contributed(v) => Contributed(v)'
                            /\ Mute(v) => Mute(v)'
         /\ Untouched(w) => /\ Grouped(w, k) => Grouped(w, k)'
                            /\ Idle(w) => Idle(w)'
                            /\ Requested(w, n, k) => Requested(w, n, k)'
                            /\ Answered(w, n) => Answered(w, n)'
    BY UntouchedKeeps
  <2> HIDE DEF Synchrony
  <2>14. CASE cpc \in {"barrier", "r_barrier"}
    <3>1. InStep /\ ci # 3
      BY <1>1, <2>1, <2>11, <2>14 DEF Synchrony, Stuck, Turning
    <3>2. CASE ci = 1
      <4>1. x = v /\ Grouped(v, j) /\ Grouped(w, k)
        BY <2>2, <2>4, <2>7, <2>9, <2>14, <3>1, <3>2 DEF Stage
      <4>2. Joined(v)' /\ Grouped(w, k)'
        BY <2>2, <2>5, <2>6, <2>13, <4>1
      <4>3. cpc' = "failed" \/ (cpc' = cpc /\ ci' = 2)
        BY <1>1, <2>11, <2>14, <3>2 DEF PassedOver, Gained
      <4>4. cpc' = cpc /\ ci' = 2 => Stage(1)' /\ Stage(2)'
        BY <2>3, <2>8, <2>14, <4>2 DEF Stage, Turning
      <4> QED BY <2>10, <2>14, <3>1, <4>3, <4>4 DEF Synchrony, Synchronised, Acknowledged, Running
    <3>3. CASE ci = 2
      <4>1. x = w /\ Joined(v) /\ Grouped(w, k)
        BY <2>2, <2>4, <2>7, <2>9, <2>14, <3>1, <3>3 DEF Stage
      <4>2. Joined(v)' /\ Joined(w)'
        BY <2>2, <2>5, <2>6, <2>13, <4>1
      <4>3. cpc' \in {"failed", "release", "r_release"}
        BY <1>1, <2>11, <2>14, <3>3 DEF PassedOver, Gained
      <4>4. cpc' \in {"release", "r_release"} => Stage(1)' /\ Stage(2)'
        BY <2>3, <4>2 DEF Stage, Turning
      <4> QED BY <2>10, <3>1, <4>3, <4>4 DEF Synchrony, Synchronised, Acknowledged, Running
    <3> QED BY <2>11, <3>1, <3>2, <3>3
  <2>15. CASE Stuck
    <3>1. cpc = "collect" /\ x = v /\ Mute(v)
      BY <1>3, <2>2, <2>4, <2>15 DEF Stuck, Turning
    <3>2. Mute(v)' /\ \A f : ~ Reads(x, f)
      BY <2>5, <2>6, <3>1
    <3>3. cpc' = AfterRound
      BY <1>1, <2>4, <3>1, <3>2 DEF PassedOver, Gained
    <3> QED BY <2>3, <2>12, <3>1, <3>2, <3>3 DEF Synchrony, Synchronised, Acknowledged, Stuck, Running
  <2>16. CASE InStep /\ cpc \in {"collect", "r_collect"}
    <3>1. CASE ci = 1
      <4>1. x = v /\ Requested(v, n, j) /\ Requested(w, n, k)
        BY <2>2, <2>4, <2>7, <2>9, <2>16, <3>1 DEF Stage
      <4>2. Requested(w, n, k)' /\ \A f : Reads(x, f) => f = Frame("CONTRIBUTION", n, j) /\ Contributed(v)'
        BY <2>2, <2>5, <2>6, <2>13, <4>1
      <4>3. CASE PassedOver
        <5>1. cpc' = "failed" \/ (cpc = "collect" /\ cpc' = AfterRound /\ ReadFails(x))
          BY <2>4, <2>16, <4>2, <4>3, FramesSent DEF PassedOver
        <5>2. ReadFails(x) => Mute(v)'
          BY <2>5, <4>1
        <5> QED BY <2>3, <2>12, <5>1, <5>2 DEF Synchrony, Synchronised, Acknowledged, Stuck, Running
      <4>4. CASE Gained
        <5>1. cpc' = cpc /\ ci' = 2 /\ Contributed(v)'
          BY <2>4, <2>11, <2>16, <3>1, <4>2, <4>4 DEF Gained
        <5>2. Stage(1)' /\ Stage(2)'
          BY <2>3, <2>8, <2>16, <4>2, <5>1 DEF Stage, Turning
        <5> QED BY <2>10, <2>16, <5>1, <5>2 DEF Synchrony, Acknowledged
      <4> QED BY <1>1, <4>3, <4>4
    <3>2. CASE ci = 2
      <4>1. x = w /\ Contributed(v) /\ Requested(w, n, k)
        BY <2>2, <2>4, <2>7, <2>9, <2>16, <3>2 DEF Stage
      <4>2. Contributed(v)' /\ Mute(v)' /\ \A f : Reads(x, f) => Contributed(w)'
        BY <2>2, <2>5, <2>6, <2>13, <4>1, ContributedIsMute
      <4>3. CASE PassedOver
        <5>1. cpc' = "failed" \/ (cpc = "collect" /\ cpc' = AfterRound)
          BY <2>16, <4>3 DEF PassedOver
        <5> QED BY <2>3, <2>12, <4>2, <5>1 DEF Synchrony, Synchronised, Acknowledged, Stuck, Running
      <4>4. CASE Gained
        <5>1. (cpc' = "reduce" \/ cpc' = "r_reduce") /\ Contributed(w)'
          BY <2>4, <2>11, <2>16, <3>2, <4>2, <4>4 DEF Gained
        <5>2. Stage(1)' /\ Stage(2)'
          BY <2>3, <4>2, <5>1 DEF Stage, Turning
        <5> QED BY <2>10, <2>16, <5>1, <5>2 DEF Synchrony, Acknowledged
      <4> QED BY <1>1, <4>3, <4>4
    <3> QED BY <2>11, <2>16, <3>1, <3>2
  <2>17. CASE InStep /\ cpc = "acks"
    <3>1. \/ cpc' = AfterRound /\ ReadFails(x)
          \/ cpc' = "acks" /\ ci # Size /\ ci' = ci + 1 /\ \E f : Reads(x, f)
          \/ cpc' = "record" /\ ci = Size /\ \E f : Reads(x, f)
      BY <1>1, <2>4, <2>17 DEF PassedOver, Gained
    <3>2. CASE ci = 1
      <4>1. x = v /\ Answered(v, n) /\ Answered(w, n)
        BY <2>2, <2>4, <2>7, <2>9, <2>17, <3>2 DEF Stage
      <4>2. Answered(w, n)' /\ (ReadFails(x) => Mute(v)') /\ \A f : Reads(x, f) => Idle(v)' /\ n \in results[v]
        BY <2>2, <2>5, <2>6, <2>13, <4>1
      <4>3. CASE cpc' = AfterRound /\ ReadFails(x)
        BY <2>3, <2>12, <2>17, <4>2, <4>3 DEF Synchrony, Synchronised, Acknowledged, Stuck, Running
      <4>4. CASE cpc' = "acks" /\ ci' = 2 /\ \E f : Reads(x, f)
        <5>1. Idle(v)' /\ n \in results'[v]
          BY <1>2, <4>2, <4>4
        <5>2. Stage(1)' /\ Stage(2)'
          BY <2>3, <2>8, <4>2, <4>4, <5>1 DEF Stage, Turning
        <5>3. Acknowledged'
          BY <2>3, <2>8, <4>4, <5>1 DEF Acknowledged
        <5> QED BY <2>10, <2>17, <5>2, <5>3 DEF Synchrony
      <4> QED BY <2>11, <3>1, <3>2, <4>3, <4>4
    <3>3. CASE ci = 2
      <4>1. x = w /\ Idle(v) /\ Answered(w, n) /\ n \in results[v]
        BY <1>1, <2>2, <2>4, <2>7, <2>9, <2>17, <3>3 DEF Stage, Acknowledged
      <4>2. Idle(v)' /\ Idle(w)' /\ \A f : Reads(x, f) => n \in results[w]
        BY <2>2, <2>5, <2>6, <2>13, <4>1
      <4>3. cpc' \in {"save", "reconfigure", "final", "record"} \/ (cpc' = "acks" /\ ci' = 3)
        BY <2>12, <2>17, <3>1, <3>3
      <4>4. Stage(1)' /\ Stage(2)'
        BY <2>3, <4>2, <4>3 DEF Stage, Turning
      <4>5. cpc' \in {"save", "reconfigure", "final"} \/ (n \in results'[v] /\ n \in results'[w])
        BY <1>2, <2>12, <2>17, <3>1, <4>1, <4>2
      <4>6. Acknowledged'
        BY <2>3, <2>8, <4>5 DEF Acknowledged
      <4> QED BY <2>10, <2>17, <4>4, <4>6 DEF Synchrony
    <3>4. CASE ci = 3
      <4>1. x # v /\ x # w /\ Idle(v) /\ Idle(w) /\ n \in results[v] /\ n \in results[w] /\ Size = 3
        <5>1. Idle(v) /\ Idle(w) /\ n \in results[v] /\ n \in results[w] /\ Size = 3
          BY <1>1, <2>2, <2>7, <2>9, <2>11, <2>17, <3>4 DEF Stage, Acknowledged
        <5>2. DOMAIN workers = 1 .. 3
          BY <1>1, <5>1, LenProperties DEF Size, TypeOK
        <5>3. Injective(workers)
          BY <2>17 DEF IInv, Connected, Live, Running
        <5>4. {1, 2, 3} \subseteq DOMAIN workers
          BY <5>2
        <5>5. workers[3] # workers[1] /\ workers[3] # workers[2]
          BY <5>3, <5>4 DEF Injective
        <5> QED BY <2>2, <2>4, <3>4, <5>1, <5>5
      <4>2. Idle(v)' /\ Idle(w)'
        BY <2>6, <2>13, <4>1
      <4>3. cpc' \in {"save", "reconfigure", "final", "record"}
        BY <2>12, <2>17, <3>1, <3>4, <4>1
      <4>4. Stage(1)' /\ Stage(2)'
        BY <2>3, <4>2, <4>3 DEF Stage, Turning
      <4>5. Acknowledged'
        BY <1>2, <2>3, <2>8, <4>1, <4>3 DEF Acknowledged
      <4> QED BY <2>10, <2>17, <4>4, <4>5 DEF Synchrony
    <3> QED BY <2>11, <3>2, <3>3, <3>4
  <2> QED BY <1>1, <1>3, <1>5, <2>1, <2>14, <2>15, <2>16, <2>17 DEF Synchrony
<1> QED BY <1>3, <1>4, <1>5

\* What is got is the contribution that was waited for.
LEMMA ReceiverGotRight ==
  ASSUME IInv, Receiver
  PROVE  GotRight'
<1>1. TypeOK /\ Counts /\ Synchrony /\ GotRight /\ (PassedOver \/ Gained)
  BY ReceiverSteps DEF IInv
<1>2. UNCHANGED <<workers, round, toWorker, workerVars>>
  BY ReceiverReads
<1>3. \A y : Rank(y)' = Rank(y)
  BY <1>2, SameRanks
<1>4. CASE PassedOver
  <2>1. got' = got
    BY <1>4 DEF PassedOver
  <2>2. \/ cpc \in {"collect", "acks", "r_collect", "r_acks"}
        \/ cpc' \in {"failed", "barrier", "release", "r_barrier", "r_release"}
    BY <1>4 DEF PassedOver
  <2> QED BY <1>1, <1>2, <1>3, <2>1, <2>2 DEF GotRight
<1>5. CASE Gained
  <2>1. cpc \in {"collect", "r_collect"}
    BY <1>5 DEF Gained
  <2>2. cpc \in Synchronised /\ 1 <= ci /\ ci <= 2 /\ Taken = ci - 1 /\ ci \in 1 .. 4
    BY <1>1, <2>1 DEF Synchronised, Running, Counts, TypeOK
  <2>3. PICK x \in Worker : x = workers[ci]
    BY ReceiverReads
  <2>4. PICK f \in Frames :
          /\ Reads(x, f)
          /\ \/ f.kind = "CONTRIBUTION" /\ got' = Append(got, [round |-> f.n, rank |-> f.rank])
             \/ f.kind # "CONTRIBUTION" /\ got' = Append(got, [round |-> 0, rank |-> f.rank])
    BY <1>5, <2>3 DEF Gained
  <2>5. /\ ~ Mute(x)
        /\ \A r, k : Requested(x, r, k) => f = Frame("CONTRIBUTION", r, k)
    BY <1>2, <2>4, ReadEffect
  <2>6. InStep
    <3>1. ~ Stuck
      BY <2>1, <2>3, <2>5 DEF Stuck, Turning
    <3> QED BY <1>1, <2>2, <3>1 DEF Synchrony
  <2>7. ci = 1 \/ ci = 2
    BY <2>2
  <2>8. Requested(x, round, Rank(x))
    <3>1. Stage(ci) /\ ci <= ci
      BY <2>2, <2>6, <2>7 DEF InStep
    <3> QED BY <2>1, <2>3, <3>1 DEF Stage
  <2>9. got' = Append(got, [round |-> round, rank |-> Rank(x)])
    <3>1. f = Frame("CONTRIBUTION", round, Rank(x))
      BY <2>5, <2>8
    <3> QED BY <2>4, <3>1, FramesSent
  <2>10. /\ got \in Seq([round : 0 .. 4, rank : 0 .. 1])
         /\ [round |-> round, rank |-> Rank(x)] \in [round : 0 .. 4, rank : 0 .. 1]
    <3>1. Rank(x) \in 0 .. 1
      BY <2>2, <2>3, <2>7, TwoConnections
    <3>2. round \in 0 .. 4
      BY <1>1 DEF TypeOK
    <3> QED BY <1>1, <3>1, <3>2 DEF TypeOK
  <2>11. /\ \A i \in DOMAIN got : got'[i] = got[i]
         /\ got'[Len(got')] = [round |-> round, rank |-> Rank(x)]
         /\ Len(got') = Len(got) + 1
         /\ \A i \in DOMAIN got' : i # Len(got') => i \in DOMAIN got
    BY <2>9, <2>10, Appended
  <2>12. Len(got') = ci
    BY <2>2, <2>11 DEF Taken
  <2>13. ASSUME NEW i \in DOMAIN got' PROVE got'[i] = [round |-> round, rank |-> Rank(workers[i])]
    <3>1. CASE i = Len(got')
      BY <2>3, <2>11, <2>12, <3>1
    <3>2. CASE i # Len(got')
      BY <1>1, <2>1, <2>11, <3>2 DEF GotRight
    <3> QED BY <3>1, <3>2
  <2> QED BY <1>2, <1>3, <2>13 DEF GotRight
<1> QED BY <1>1, <1>4, <1>5

\* The other steps of the coordinator gain nothing.
LEMMA SenderGotRight ==
  ASSUME IInv, Sender
  PROVE  GotRight' /\ Acknowledged'
<1>1. TypeOK /\ Counts /\ GotRight
  BY DEF IInv
<1>2. /\ UNCHANGED <<workers, round, workerVars>> /\ ci' = 1
      /\ \/ cpc' \in {"barrier", "request", "save2", "r_barrier", "r_request"}
         \/ cpc = "request" /\ cpc' = "collect" /\ got' = <<>>
         \/ cpc = "reduce" /\ cpc' = "acks" /\ got' = got
         \/ cpc = "r_request" /\ cpc' = "r_collect" /\ got' = got
  BY SenderNext
<1>3. \A y : Rank(y)' = Rank(y)
  BY <1>2, SameRanks
<1>4. cpc = "r_request" => got = <<>>
  <2>1. cpc = "r_request" => Len(got) = 0
    BY <1>1 DEF Counts, Taken
  <2> QED BY <1>1, <2>1 DEF TypeOK
<1>5. Acknowledged'
  BY <1>2 DEF Acknowledged
<1> QED BY <1>1, <1>2, <1>3, <1>4, <1>5 DEF GotRight

\* Between two rounds.
LEMMA TurnSynchrony ==
  ASSUME IInv, cpc \in {"record", "save", "reconfigure"} \cup Turning,
         cpc' \in {"request", "save", "reconfigure", "final", "done", "failed"} \cup Turning,
         \A p \in {1, 2} : workers'[p] = workers[p] /\ Untouched(workers[p])
  PROVE  Synchrony' /\ GotRight' /\ Acknowledged'
<1>1. Synchrony /\ cpc \in Synchronised
  BY DEF IInv, Synchronised, Running, Turning
<1>2. PICK v \in Worker, w \in Worker : v = workers[1] /\ w = workers[2]
  BY <1>1, TwoConnections
<1>3. /\ v = workers'[1] /\ w = workers'[2] /\ Untouched(v) /\ Untouched(w)
      /\ \A y : Rank(y)' = Rank(y)
  BY <1>2, SameRanks
<1>4. /\ Idle(v) => Idle(v)'
      /\ Idle(w) => Idle(w)'
      /\ Mute(v) => Mute(v)'
      /\ \A k : KnowsRank(v, k) => KnowsRank(v, k)'
      /\ \A k : KnowsRank(w, k) => KnowsRank(w, k)'
  BY <1>3, UntouchedKeeps
<1>5. ASSUME InStep PROVE InStep'
  <2>1. PICK j, k : j = Rank(v) /\ k = Rank(w)
    OBVIOUS
  <2>2. Idle(v) /\ Idle(w) /\ KnowsRank(v, j) /\ KnowsRank(w, k)
    BY <1>2, <1>5, <2>1 DEF InStep, Stage
  <2>3. Idle(v)' /\ Idle(w)' /\ KnowsRank(v, j)' /\ KnowsRank(w, k)' /\ j = Rank(v)' /\ k = Rank(w)'
    BY <1>3, <1>4, <2>1, <2>2
  <2>4. Stage(1)' /\ Stage(2)'
    BY <1>3, <2>3 DEF Stage, Turning
  <2> QED BY <1>3, <2>3, <2>4 DEF InStep
<1>6. ASSUME Stuck, cpc' \in Synchronised PROVE Stuck'
  <2>1. Mute(v)
    BY <1>2, <1>6 DEF Stuck
  <2>2. Mute(v)'
    BY <1>4, <2>1
  <2> QED BY <1>3, <1>6, <2>2 DEF Stuck, Turning, Synchronised, Running
<1> QED BY <1>1, <1>5, <1>6 DEF Synchrony, GotRight, Acknowledged, Turning

LEMMA InnerSynchrony ==
  ASSUME IInv, Inner
  PROVE  Synchrony' /\ GotRight' /\ Acknowledged'
<1>1. /\ UNCHANGED <<workers, toCoord, toWorker, workerVars>>
      /\ \/ cpc = "record" /\ cpc' \in {"save", "reconfigure", "final"}
         \/ cpc = "save" /\ cpc' = "request"
         \/ cpc = "reconfigure" /\ cpc' = "replace"
         \/ cpc = "save2" /\ cpc' = "request"
         \/ cpc = "final" /\ cpc' = "done"
  BY InnerNext
<1>2. CASE cpc = "final"
  BY <1>1, <1>2 DEF Synchrony, Synchronised, GotRight, Acknowledged, Running
<1>3. CASE cpc # "final"
  <2>1. \A w : Untouched(w)
    BY <1>1 DEF Untouched, SameRecord, workerVars
  <2>2. cpc \in {"record", "save", "reconfigure"} \cup Turning
    BY <1>1, <1>3 DEF Turning
  <2>3. cpc' \in {"request", "save", "reconfigure", "final", "done", "failed"} \cup Turning
    BY <1>1, <1>3 DEF Turning
  <2> QED BY <1>1, <2>1, <2>2, <2>3, TurnSynchrony
<1> QED BY <1>2, <1>3

\* The connection that is accepted is none of those held.
LEMMA Accepted ==
  ASSUME IInv, backlog # <<>>, cpc \in {"accept", "r_accept", "replace"}
  PROVE  /\ Head(backlog) \in Worker /\ Head(backlog) \in Range(backlog)
         /\ Head(backlog) \notin Range(workers) /\ Head(backlog) \notin Range(Tail(backlog))
         /\ Range(Tail(backlog)) \subseteq Range(backlog) /\ Injective(Tail(backlog))
         /\ Waiting(Head(backlog)) /\ toCoord[Head(backlog)] = Joining
         /\ Injective(Append(workers, Head(backlog)))
         /\ Range(Append(workers, Head(backlog))) = Range(workers) \cup {Head(backlog)}
         /\ \A i \in DOMAIN workers : Append(workers, Head(backlog))[i] = workers[i]
<1>1. backlog \in Seq(Worker) /\ workers \in Seq(Worker)
  BY DEF IInv, TypeOK, WorkersTypeOK
<1>2. /\ Injective(backlog) /\ Injective(workers) /\ Range(backlog) \cap Range(workers) = {}
      /\ \A w \in Range(backlog) : Waiting(w) /\ toCoord[w] = Joining
  BY DEF IInv, Connected, Live, Running, Recovering
<1>3. Head(backlog) \in Worker /\ Range(backlog) = {Head(backlog)} \cup Range(Tail(backlog))
  BY <1>1, FirstTaken
<1>4. Injective(Tail(backlog)) /\ Head(backlog) \notin Range(Tail(backlog))
  BY <1>1, <1>2, StillInjective
<1>5. Head(backlog) \notin Range(workers)
  BY <1>2, <1>3
<1>6. Injective(Append(workers, Head(backlog)))
  BY <1>1, <1>2, <1>3, <1>5, StillInjective
<1>7. /\ Range(Append(workers, Head(backlog))) = Range(workers) \cup {Head(backlog)}
      /\ \A i \in DOMAIN workers : Append(workers, Head(backlog))[i] = workers[i]
  <2>1. PICK x \in Worker : x = Head(backlog)
    BY <1>3
  <2>2. PICK t : t = Append(workers, x)
    OBVIOUS
  <2>3. Range(t) = Range(workers) \cup {x} /\ \A i \in DOMAIN workers : t[i] = workers[i]
    <3>1. Range(t) = Range(workers) \cup {x}
      BY <1>1, <2>2, RangeAppend
    <3>2. \A i \in DOMAIN workers : t[i] = workers[i]
      BY <1>1, <2>2, Appended
    <3> QED BY <3>1, <3>2
  <2> QED BY <2>1, <2>2, <2>3
<1> QED BY <1>2, <1>3, <1>4, <1>5, <1>6, <1>7

LEMMA AcceptReplacementSynchrony ==
  ASSUME IInv, AcceptReplacement
  PROVE  Synchrony' /\ GotRight' /\ Acknowledged'
<1>1. /\ cpc = "replace" /\ backlog # <<>> /\ cpc' \in {"failed", "regroup"}
      /\ workers' = workers \/ workers' = Append(workers, Head(backlog))
      /\ \/ toCoord' = [toCoord EXCEPT ![Head(backlog)] = <<>>]
         \/ toCoord' = [toCoord EXCEPT ![Head(backlog)] = SubSeq(@, 3, Len(@))]
      /\ UNCHANGED <<toWorker, workerVars>>
  BY DEF AcceptReplacement, Quit, Goto, ReadFails
<1>2. /\ Head(backlog) \notin Range(workers)
      /\ \A i \in DOMAIN workers : Append(workers, Head(backlog))[i] = workers[i]
  BY <1>1, Accepted
<1>3. \A p \in {1, 2} : p \in DOMAIN workers /\ workers[p] \in Range(workers) /\ workers[p] \in Worker
  BY <1>1, TwoConnections DEF Synchronised, Running
<1>4. \A p \in {1, 2} : workers'[p] = workers[p]
  BY <1>1, <1>2, <1>3
<1>5. \A w \in Worker : w # Head(backlog) => Untouched(w)
  <2>1. toCoord \in [Worker -> Seq(Frames)]
    BY DEF IInv, TypeOK, WorkersTypeOK
  <2> QED BY <1>1, <2>1 DEF Untouched, SameRecord, workerVars
<1>6. \A p \in {1, 2} : Untouched(workers[p])
  BY <1>2, <1>3, <1>5
<1> QED BY <1>1, <1>4, <1>6, TurnSynchrony DEF Turning

\* The coordinator does nothing, and the connections move or are left alone.
LEMMA KeepsInStep ==
  ASSUME IInv, UNCHANGED coordVars, cpc' = cpc, cpc \in Synchronised,
         \A p \in {1, 2} : Moves(workers[p]) \/ Untouched(workers[p])
  PROVE  Synchrony'
<1>1. PICK v \in Worker, w \in Worker : v = workers[1] /\ w = workers[2]
  BY TwoConnections
<1>2. PICK j, k, n : j = Rank(v) /\ k = Rank(w) /\ n = round
  OBVIOUS
<1>3. /\ v = workers'[1] /\ w = workers'[2] /\ j = Rank(v)' /\ k = Rank(w)' /\ n = round' /\ ci' = ci
  BY <1>1, <1>2, SameRanks DEF coordVars
<1>4. \A x \in {v, w} :
        /\ Joined(x) => Joined(x)'
        /\ Idle(x) => Idle(x)'
        /\ Contributed(x) => Contributed(x)'
        /\ Mute(x) => Mute(x)'
        /\ \A i : Grouped(x, i) => Grouped(x, i)'
        /\ \A r : Answered(x, r) => Answered(x, r)'
        /\ \A i : KnowsRank(x, i) /\ (wpc[x] = "accept" => Grouped(x, i)) => KnowsRank(x, i)'
        /\ \A r, i : KnowsRank(x, i) /\ Requested(x, r, i) => Requested(x, r, i)'
  <2> SUFFICES ASSUME NEW x \in {v, w}
      PROVE  /\ Joined(x) => Joined(x)'
             /\ Idle(x) => Idle(x)'
             /\ Contributed(x) => Contributed(x)'
             /\ Mute(x) => Mute(x)'
             /\ \A i : Grouped(x, i) => Grouped(x, i)'
             /\ \A r : Answered(x, r) => Answered(x, r)'
             /\ \A i : KnowsRank(x, i) /\ (wpc[x] = "accept" => Grouped(x, i)) => KnowsRank(x, i)'
             /\ \A r, i : KnowsRank(x, i) /\ Requested(x, r, i) => Requested(x, r, i)'
    OBVIOUS
  <2>1. CASE Moves(x)
    BY <2>1, MoveKeeps
  <2>2. CASE Untouched(x)
    BY <2>2, UntouchedKeeps
  <2> QED BY <1>1, <2>1, <2>2
<1>5. ASSUME InStep PROVE InStep'
  <2>1. Stage(1) /\ Stage(2) /\ KnowsRank(v, j) /\ KnowsRank(w, k)
    BY <1>1, <1>2, <1>5 DEF InStep
  <2>2. ASSUME NEW p \in {1, 2}, NEW x \in {v, w}, x = workers[p], NEW i, i = Rank(x), KnowsRank(x, i),
               Stage(p)
        PROVE  Stage(p)' /\ KnowsRank(x, i)'
    <3>1. x = workers'[p] /\ i = Rank(x)' /\ n = round' /\ ci' = ci /\ cpc' = cpc
      BY <1>3, <2>2, SameRanks, <1>1
    <3>2. CASE cpc \in {"barrier", "r_barrier"}
      <4>1. /\ p < ci => Joined(x)
            /\ ci <= p => Grouped(x, i)
        BY <2>2, <3>2 DEF Stage
      <4>2. p < ci \/ ci <= p
        BY DEF IInv, TypeOK
      <4>3. Joined(x) => wpc[x] # "accept"
        BY DEF Joined, Quiet, Gone
      <4>4. KnowsRank(x, i)'
        BY <1>4, <2>2, <4>1, <4>2, <4>3
      <4>5. Stage(p)'
        BY <1>4, <3>1, <3>2, <4>1 DEF Stage, Turning
      <4> QED BY <4>4, <4>5
    <3>3. CASE cpc \in {"release", "r_release"}
      <4>1. Joined(x) /\ wpc[x] # "accept"
        BY <2>2, <3>3 DEF Stage, Joined, Quiet, Gone
      <4> QED BY <1>4, <2>2, <3>1, <3>3, <4>1 DEF Stage, Turning
    <3>4. CASE cpc \in {"request", "r_request", "record", "save", "reconfigure"} \cup Turning
      <4>1. Idle(x) /\ wpc[x] # "accept"
        BY <2>2, <3>4 DEF Stage, Idle, Quiet, Gone
      <4> QED BY <1>4, <2>2, <3>1, <3>4, <4>1 DEF Stage, Turning
    <3>5. CASE cpc \in {"collect", "r_collect"}
      <4>1. /\ p < ci => Contributed(x)
            /\ ci <= p => Requested(x, n, i)
        BY <1>2, <2>2, <3>5 DEF Stage
      <4>2. p < ci \/ ci <= p
        BY DEF IInv, TypeOK
      <4>3. wpc[x] # "accept"
        BY <4>1, <4>2 DEF Contributed, Requested, Quiet, Gone
      <4>4. /\ p < ci => Contributed(x)'
            /\ ci <= p => Requested(x, n, i)'
        BY <1>4, <2>2, <4>1
      <4>5. Stage(p)'
        BY <3>1, <3>5, <4>4 DEF Stage, Turning
      <4> QED BY <1>4, <2>2, <4>3, <4>5
    <3>6. CASE cpc = "reduce"
      <4>1. Contributed(x) /\ wpc[x] # "accept"
        BY <2>2, <3>6 DEF Stage, Contributed, Quiet, Gone
      <4> QED BY <1>4, <2>2, <3>1, <3>6, <4>1 DEF Stage, Turning
    <3>7. CASE cpc = "acks"
      <4>1. /\ p < ci => Idle(x)
            /\ ci <= p => Answered(x, n)
        BY <1>2, <2>2, <3>7 DEF Stage
      <4>2. p < ci \/ ci <= p
        BY DEF IInv, TypeOK
      <4>3. wpc[x] # "accept"
        BY <4>1, <4>2 DEF Idle, Answered, Quiet, Gone
      <4>4. /\ p < ci => Idle(x)'
            /\ ci <= p => Answered(x, n)'
        BY <1>4, <4>1
      <4>5. Stage(p)'
        BY <3>1, <3>7, <4>4 DEF Stage, Turning
      <4> QED BY <1>4, <2>2, <4>3, <4>5
    <3> QED BY <3>2, <3>3, <3>4, <3>5, <3>6, <3>7 DEF Synchronised, Running, Turning
  <2>3. Stage(1)' /\ Stage(2)' /\ KnowsRank(v, j)' /\ KnowsRank(w, k)'
    BY <1>1, <1>2, <2>1, <2>2
  <2> QED BY <1>3, <2>3 DEF InStep
<1>6. ASSUME Stuck PROVE Stuck'
  <2>1. Mute(v) /\ Mute(v)'
    BY <1>1, <1>4, <1>6 DEF Stuck
  <2> QED BY <1>3, <1>6, <2>1 DEF Stuck
<1> QED BY <1>5, <1>6 DEF IInv, Synchrony

-----------------------------------------------------------------------------
(* Who is connected *)

\* The coordinator deals with the connections it holds.
LEMMA HeldOnly ==
  ASSUME IInv, cpc \in Live, cpc' # "load", UNCHANGED <<backlog, workers, wpc>>,
         \A w \in Worker : w \notin Range(workers) =>
           toWorker'[w] = toWorker[w] /\ toCoord'[w] = toCoord[w],
         round = 4 <=> round' = 4, round' < 4 => round < 4,
         epoch' = 2 => epoch = 2 \/ round = 4
  PROVE  NotStarted' /\ Connected'
<1>1. TypeOK /\ NotStarted /\ Connected
  BY DEF IInv
<1>2. Range(workers) \subseteq Worker /\ Range(backlog) \subseteq Worker
  BY <1>1, HeldAreWorkers
<1>3. \A w \in Range(backlog) : w \notin Range(workers) /\ Waiting(w) /\ toCoord[w] = Joining
  BY <1>1 DEF Connected
<1>4. ASSUME NEW w \in Range(backlog) PROVE Waiting(w)' /\ toCoord'[w] = Joining
  BY <1>2, <1>3 DEF Waiting, Gone
<1>5. NotStarted'
  <2>1. ASSUME NEW w \in Worker, wpc'[w] = "off" PROVE toWorker'[w] = <<>>
    <3>1. w \notin Range(workers)
      BY <1>1, <2>1 DEF Connected
    <3> QED BY <1>1, <2>1, <3>1 DEF NotStarted
  <2> QED BY <1>1, <2>1 DEF NotStarted
<1>6. Range(backlog') = Range(backlog) /\ Range(workers') = Range(workers) /\ DOMAIN workers' = DOMAIN workers
  OBVIOUS
<1>7. round \in 1 .. 4 /\ (round < 4 => round # 4)
  BY <1>1 DEF TypeOK
<1>8. Connected'
  BY <1>1, <1>4, <1>6, <1>7 DEF Connected, Injective
<1> QED BY <1>5, <1>8

LEMMA SenderConnected ==
  ASSUME IInv, Sender
  PROVE  NotStarted' /\ Connected' /\ TakenIn'
<1>1. /\ UNCHANGED <<workers, round, epoch, backlog, toCoord, wpc>>
      /\ cpc \in Live /\ cpc' \notin {"load", "accept", "form", "r_accept", "r_form"}
  BY SenderNext DEF workerVars, Live, Running, Recovering
<1>2. \A w \in Worker : w \notin Range(workers) => toWorker'[w] = toWorker[w]
  BY Sending, SendAllEffect DEF IInv
<1>3. NotStarted' /\ Connected'
  BY <1>1, <1>2, HeldOnly
<1> QED BY <1>1, <1>3 DEF TakenIn

LEMMA ReceiverConnected ==
  ASSUME IInv, Receiver
  PROVE  NotStarted' /\ Connected' /\ TakenIn'
<1>1. /\ UNCHANGED <<workers, round, epoch, backlog, toWorker, wpc>>
      /\ workers[ci] \in Range(workers)
      /\ ReadFails(workers[ci]) \/ \E f \in Frames : Reads(workers[ci], f)
  BY ReceiverReads DEF workerVars
<1>2. cpc \in Live
  BY DEF Receiver, BarrierRecv, RecvContribution, RecvComplete, RecoverBarrier, RecoverContribution,
         RecoverAcks, RecvFromEach, Live, Running, Recovering
<1>3. cpc' \notin {"load", "accept", "form", "r_accept", "r_form"}
  <2>1. CASE PassedOver
    <3>1. cpc \in {"collect", "acks"} => AfterRound \in {"save", "reconfigure", "final"}
      <4>1. cpc \in {"collect", "acks"} => round < 4
        BY DEF IInv, Control, InRound
      <4> QED BY <4>1, AfterRoundIs DEF IInv, TypeOK
    <3> QED BY <2>1, <3>1 DEF PassedOver
  <2>2. CASE Gained
    BY <2>2 DEF Gained
  <2> QED BY <2>1, <2>2, ReceiverSteps
<1>4. \A w \in Worker : w \notin Range(workers) => toCoord'[w] = toCoord[w]
  <2>1. toCoord \in [Worker -> Seq(Frames)]
    BY DEF IInv, TypeOK, WorkersTypeOK
  <2> QED BY <1>1, <2>1 DEF ReadFails, Reads
<1>5. NotStarted' /\ Connected'
  BY <1>1, <1>2, <1>3, <1>4, HeldOnly
<1> QED BY <1>3, <1>5 DEF TakenIn

LEMMA InnerConnected ==
  ASSUME IInv, Inner
  PROVE  NotStarted' /\ Connected' /\ TakenIn'
<1>1. /\ UNCHANGED <<workers, backlog, toCoord, toWorker, wpc>>
      /\ cpc \in {"record", "save", "reconfigure", "save2", "final"}
      /\ cpc' \notin {"load", "accept", "form", "r_accept", "r_form"}
      /\ round' = round \/ (round < 4 /\ round' < 4)
      /\ epoch' = 2 => epoch = 2
  BY InnerNext DEF workerVars
<1>2. round \in 1 .. 4 /\ cpc \in Live
  BY <1>1 DEF IInv, TypeOK, Live, Running
<1>3. NotStarted' /\ Connected'
  BY <1>1, <1>2, HeldOnly
<1> QED BY <1>1, <1>3 DEF TakenIn

\* The recovering coordinator holds no connection when it loads, ...
LEMMA RecoverLoadConnected ==
  ASSUME IInv, RecoverLoad
  PROVE  /\ NotStarted' /\ Connected' /\ TakenIn'
         /\ Synchrony' /\ GotRight' /\ Acknowledged'
<1>1. /\ UNCHANGED <<round, workers, backlog, toCoord, toWorker, wpc>>
      /\ cpc = "load" /\ cpc' \in {"done", "failed", "r_accept"}
  BY RecoverLoadNext DEF workerVars
<1>2. round = 4 /\ Size = 0 /\ cpc \in Live /\ workers \in Seq(Worker)
  BY <1>1 DEF IInv, TypeOK, Control, Counts, Live, Recovering
<1>3. NotStarted' /\ Connected'
  BY <1>1, <1>2, HeldOnly
<1>4. Range(workers) = {}
  <2>1. workers = <<>>
    BY <1>2 DEF Size
  <2> QED BY <2>1 DEF Range
<1>5. Range(workers') = {}
  BY <1>1, <1>4
<1> QED BY <1>1, <1>3, <1>5 DEF TakenIn, Synchrony, Synchronised, GotRight, Acknowledged, Running

\* ... and ends without looking at what it receives.
LEMMA RecoverResultConnected ==
  ASSUME IInv, RecoverResult
  PROVE  /\ NotStarted' /\ Connected' /\ TakenIn'
         /\ Synchrony' /\ GotRight' /\ Acknowledged'
<1>1. /\ UNCHANGED <<round, workers, epoch, got, backlog, toCoord, wpc>>
      /\ cpc = "r_reduce" /\ cpc' \in {"done", "r_acks"}
      /\ \/ UNCHANGED toWorker
         \/ \E frames \in [Range(workers) -> Frames] : SendAll(workers, frames)
  BY RecoverResultNext DEF workerVars
<1>2. \A w \in Worker : w \notin Range(workers) => toWorker'[w] = toWorker[w]
  BY <1>1, SendAllEffect DEF IInv
<1>3. NotStarted' /\ Connected'
  BY <1>1, <1>2, HeldOnly DEF Live, Recovering
<1>4. \A y : Rank(y)' = Rank(y)
  BY <1>1, SameRanks
<1>5. GotRight'
  BY <1>1, <1>4 DEF IInv, GotRight
<1> QED BY <1>1, <1>3, <1>5 DEF TakenIn, Synchrony, Synchronised, Acknowledged, Running

\* HELLO and JOIN_GROUP are read together.
LEMMA JoiningRead ==
  /\ Len(Joining) = 2
  /\ SubSeq(Joining, 3, Len(Joining)) = <<>>
<1>1. Len(Joining) = 2
  BY DEF Joining
<1>2. SubSeq(Joining, 3, 2) = <<>>
  BY DEF Joining
<1> QED BY <1>1, <1>2

\* A connection is taken from the backlog; x is its worker.
LEMMA OneMoreConnection ==
  ASSUME IInv, cpc \in {"accept", "r_accept", "replace"}, backlog # <<>>,
         NEW x \in Worker, x = Head(backlog),
         backlog' = Tail(backlog), workers' = Append(workers, x),
         \A w \in Worker : w # x => toCoord'[w] = toCoord[w],
         UNCHANGED <<toWorker, wpc, round, epoch>>, cpc' # "load"
  PROVE  NotStarted' /\ Connected'
<1>1. TypeOK /\ NotStarted /\ Connected /\ Control /\ Counts
  BY DEF IInv
<1>2. /\ x \in Range(backlog) /\ x \notin Range(workers) /\ x \notin Range(backlog')
      /\ Range(backlog') \subseteq Range(backlog) /\ Injective(backlog') /\ Injective(workers')
      /\ Range(workers') = Range(workers) \cup {x}
      /\ \A i \in DOMAIN workers : workers'[i] = workers[i]
  BY Accepted
<1>3. Range(backlog) \subseteq Worker /\ Range(workers) \subseteq Worker
  BY <1>1, HeldAreWorkers
<1>4. cpc \in Live
  BY DEF Live, Running, Recovering
<1>5. Range(backlog') \cap Range(workers') = {}
  BY <1>1, <1>2, <1>4 DEF Connected
<1>6. \A w \in Range(backlog') : Waiting(w)' /\ toCoord'[w] = Joining
  BY <1>1, <1>2, <1>3, <1>4 DEF Connected, Waiting, Gone
<1>7. NotStarted'
  BY <1>1 DEF NotStarted
<1>8. round < 4 => \A i \in DOMAIN workers' : i <= 2 => workers'[i] \in First
  <2>1. ASSUME round < 4, NEW i \in DOMAIN workers', i <= 2 PROVE workers'[i] \in First
    <3>1. CASE i \in DOMAIN workers
      BY <1>1, <1>2, <1>4, <2>1, <3>1 DEF Connected
    <3>2. CASE i \notin DOMAIN workers
      <4>1. i = Size + 1 /\ workers'[i] = x
        <5>1. /\ \A y \in DOMAIN workers' : y # Len(workers') => y \in DOMAIN workers
              /\ workers'[Len(workers')] = x /\ Len(workers') = Len(workers) + 1
          BY <1>1, Appended DEF TypeOK
        <5> QED BY <2>1, <3>2, <5>1 DEF Size
      <4>2. CASE cpc = "accept"
        <5>1. epoch = 2
          BY <1>1, <2>1, <4>2 DEF Control, Running, Beginning, Turning
        <5> QED BY <1>1, <1>2, <1>4, <2>1, <4>1, <5>1 DEF Connected
      <4>3. CASE cpc = "r_accept"
        BY <1>1, <2>1, <4>3 DEF Control, Recovering
      <4>4. CASE cpc = "replace"
        <5>1. Size = 2
          BY <1>1, <4>4 DEF Counts, Control, Running, Turning
        <5> QED BY <2>1, <4>1, <5>1
      <4> QED BY <4>2, <4>3, <4>4
    <3> QED BY <3>1, <3>2
  <2> QED BY <2>1
<1>9. Connected'
  BY <1>1, <1>2, <1>4, <1>5, <1>6, <1>8 DEF Connected
<1> QED BY <1>7, <1>9

LEMMA AcceptConnected ==
  ASSUME IInv, AcceptFirst \/ RecoverAccept
  PROVE  /\ NotStarted' /\ Connected' /\ TakenIn'
         /\ Synchrony' /\ GotRight' /\ Acknowledged'
<1>1. /\ cpc \in {"accept", "r_accept"} /\ backlog # <<>>
      /\ cpc' \in {"failed", "accept", "form", "r_accept", "r_form"}
      /\ backlog' = Tail(backlog)
      /\ \/ cpc' = "failed" /\ workers' = workers
         \/ /\ toCoord' = [toCoord EXCEPT ![Head(backlog)] = SubSeq(@, 3, Len(@))]
            /\ workers' = Append(workers, Head(backlog))
      /\ UNCHANGED <<toWorker, wpc, round, epoch>>
  BY DEF AcceptFirst, RecoverAccept, AcceptTwo, Quit, Goto, workerVars
<1>2. Synchrony' /\ GotRight' /\ Acknowledged'
  BY <1>1 DEF Synchrony, Synchronised, GotRight, Acknowledged, Running
<1>3. CASE cpc' = "failed" /\ workers' = workers
  BY <1>1, <1>2, <1>3 DEF IInv, NotStarted, Connected, TakenIn, Live, Running, Recovering
<1>4. CASE /\ toCoord' = [toCoord EXCEPT ![Head(backlog)] = SubSeq(@, 3, Len(@))]
           /\ workers' = Append(workers, Head(backlog))
  <2>1. /\ Head(backlog) \in Worker /\ toCoord \in [Worker -> Seq(Frames)]
        /\ Waiting(Head(backlog)) /\ toCoord[Head(backlog)] = Joining
        /\ Range(Append(workers, Head(backlog))) = Range(workers) \cup {Head(backlog)}
    BY <1>1, Accepted DEF IInv, TypeOK, WorkersTypeOK
  <2>2. PICK x \in Worker : x = Head(backlog)
    BY <2>1
  <2>3. /\ \A w \in Worker : w # x => toCoord'[w] = toCoord[w]
        /\ toCoord'[x] = <<>>
    BY <1>4, <2>1, <2>2, JoiningRead
  <2>4. NotStarted' /\ Connected'
    BY <1>1, <1>4, <2>2, <2>3, OneMoreConnection
  <2>5. TakenIn'
    <3>1. ASSUME NEW w \in Range(workers') PROVE Waiting(w)' /\ toCoord'[w] = <<>>
      <4>1. w = x \/ w \in Range(workers)
        BY <1>4, <2>1, <2>2, <3>1
      <4>2. CASE w = x
        BY <1>1, <2>1, <2>2, <2>3, <4>2 DEF Waiting, Gone
      <4>3. CASE w \in Range(workers) /\ w # x
        <5>1. w \in Worker /\ Waiting(w) /\ toCoord[w] = <<>>
          BY <1>1, <4>3, HeldAreWorkers DEF IInv, TakenIn
        <5> QED BY <1>1, <2>3, <4>3, <5>1 DEF Waiting, Gone
      <4> QED BY <4>1, <4>2, <4>3
    <3> QED BY <3>1 DEF TakenIn
  <2> QED BY <1>2, <2>4, <2>5
<1> QED BY <1>1, <1>3, <1>4

LEMMA AcceptReplacementConnected ==
  ASSUME IInv, AcceptReplacement
  PROVE  NotStarted' /\ Connected' /\ TakenIn'
<1>1. /\ cpc = "replace" /\ backlog # <<>> /\ cpc' \in {"failed", "regroup"}
      /\ backlog' = Tail(backlog)
      /\ \/ cpc' = "failed" /\ workers' = workers
         \/ workers' = Append(workers, Head(backlog))
      /\ \/ toCoord' = [toCoord EXCEPT ![Head(backlog)] = <<>>]
         \/ toCoord' = [toCoord EXCEPT ![Head(backlog)] = SubSeq(@, 3, Len(@))]
      /\ UNCHANGED <<toWorker, wpc, round, epoch>>
  BY DEF AcceptReplacement, Quit, Goto, ReadFails, workerVars
<1>2. CASE cpc' = "failed" /\ workers' = workers
  BY <1>1, <1>2 DEF IInv, NotStarted, Connected, TakenIn, Live, Running, Recovering
<1>3. CASE workers' = Append(workers, Head(backlog))
  <2>1. Head(backlog) \in Worker /\ toCoord \in [Worker -> Seq(Frames)]
    BY <1>1, Accepted DEF IInv, TypeOK, WorkersTypeOK
  <2>2. PICK x \in Worker : x = Head(backlog)
    BY <2>1
  <2>3. \A w \in Worker : w # x => toCoord'[w] = toCoord[w]
    BY <1>1, <2>1, <2>2
  <2>4. NotStarted' /\ Connected'
    BY <1>1, <1>3, <2>2, <2>3, OneMoreConnection
  <2> QED BY <1>1, <2>4 DEF TakenIn
<1> QED BY <1>1, <1>2, <1>3

-----------------------------------------------------------------------------
(* What workers do by themselves *)

\* No worker is off before or after it moves; the others stay where they are.
LEMMA MoversAreOn ==
  ASSUME IInv, NEW w \in Worker, WorkerMove(w)
  PROVE  /\ wpc[w] # "off" /\ wpc'[w] # "off"
         /\ \A v \in Worker : v # w => wpc'[v] = wpc[v] /\ toWorker'[v] = toWorker[v]
<1>1. wpc \in [Worker -> {"off", "accept", "ack", "loop", "result", "stalled", "dead", "exited"}]
      /\ toWorker \in [Worker -> Seq(Frames)]
  BY DEF IInv, TypeOK, WorkersTypeOK
<1>2. CASE TakeAccept(w)
  BY <1>1, <1>2 DEF TakeAccept, Receives
<1>3. CASE TakeAck(w)
  BY <1>1, <1>3 DEF TakeAck, Receives
<1>4. CASE TakeRequest(w)
  BY <1>1, <1>4 DEF TakeRequest, Receives
<1>5. CASE TakeResult(w)
  BY <1>1, <1>5 DEF TakeResult, Receives
<1>6. CASE SeeClosed(w)
  BY <1>1, <1>6 DEF SeeClosed
<1>7. CASE Ends(w)
  BY <1>1, <1>7 DEF Ends
<1> QED BY <1>2, <1>3, <1>4, <1>5, <1>6, <1>7 DEF WorkerMove

\* A worker that waits to be accepted can only die.
LEMMA WaitingOnlyDies ==
  ASSUME NEW w, Moves(w), Waiting(w)
  PROVE  Waiting(w)' /\ toCoord'[w] = toCoord[w]
BY DEF Moves, Waiting, Took, Gone

LEMMA WorkerMoveConnected ==
  ASSUME IInv, NEW w \in Worker, WorkerMove(w), UNCHANGED coordVars, cpc' = cpc
  PROVE  NotStarted' /\ Connected' /\ TakenIn'
<1>1. /\ wpc[w] # "off" /\ wpc'[w] # "off"
      /\ \A v \in Worker : v # w => wpc'[v] = wpc[v] /\ toWorker'[v] = toWorker[v]
  BY MoversAreOn
<1>2. Range(workers) \subseteq Worker /\ Range(backlog) \subseteq Worker /\ Fresh \subseteq Worker
  BY HeldAreWorkers, WorkerSets DEF IInv
<1>3. backlog' = backlog
  BY DEF WorkerMove, TakeAccept, TakeAck, TakeRequest, TakeResult, SeeClosed, Ends
<1>4. NotStarted'
  BY <1>1, <1>2, <1>3 DEF IInv, NotStarted, coordVars
<1>5. ASSUME cpc \in Live, NEW v \in Worker, Waiting(v) PROVE Waiting(v)' /\ toCoord'[v] = toCoord[v]
  <2>1. cpc \notin Ended
    BY <1>5 DEF Live, Running, Recovering, Ended
  <2>2. Moves(w) /\ \A u \in Worker : u # w => Untouched(u)
    BY <2>1, MoveEffect
  <2>3. CASE v = w
    BY <2>2, <2>3, <1>5, WaitingOnlyDies
  <2>4. CASE v # w
    BY <2>2, <2>4, <1>5, UntouchedKeeps DEF Untouched
  <2> QED BY <2>3, <2>4
<1>6. Connected'
  <2> SUFFICES ASSUME cpc' \in Live
               PROVE  /\ (Injective(backlog) /\ Injective(workers))'
                      /\ (Range(backlog) \cap Range(workers) = {})'
                      /\ \A u \in Range(backlog)' \cup Range(workers)' : wpc'[u] # "off"
                      /\ \A u \in Range(backlog)' : Waiting(u)' /\ toCoord'[u] = Joining
                      /\ (round = 4 => Range(backlog) \cup Range(workers) \subseteq Fresh)'
                      /\ (round < 4 =>
                            /\ Range(backlog) \cup Range(workers) \subseteq First \cup {Late}
                            /\ epoch = 2 => Range(backlog) \cup Range(workers) \subseteq First
                            /\ \A i \in DOMAIN workers : i <= 2 => workers[i] \in First)'
    BY DEF Connected
  <2>1. workers' = workers /\ round' = round /\ epoch' = epoch /\ cpc \in Live
    BY DEF coordVars
  <2>2. /\ \A u \in Range(backlog) \cup Range(workers) : wpc[u] # "off"
        /\ \A u \in Range(backlog) : Waiting(u) /\ toCoord[u] = Joining
    BY <2>1 DEF IInv, Connected
  <2>3. \A u \in Range(backlog) \cup Range(workers) : wpc'[u] # "off"
    BY <2>2, <1>1, <1>2
  <2>4. \A u \in Range(backlog) : Waiting(u)' /\ toCoord'[u] = Joining
    BY <2>1, <2>2, <1>2, <1>5
  <2>5. (Injective(backlog) /\ Injective(workers))'
    BY <1>3, <2>1 DEF IInv, Connected, Injective
  <2>6. Range(backlog)' = Range(backlog) /\ Range(workers)' = Range(workers)
    BY <1>3, <2>1
  <2>7. /\ Range(backlog) \cap Range(workers) = {}
        /\ round = 4 => Range(backlog) \cup Range(workers) \subseteq Fresh
        /\ round < 4 =>
             /\ Range(backlog) \cup Range(workers) \subseteq First \cup {Late}
             /\ epoch = 2 => Range(backlog) \cup Range(workers) \subseteq First
             /\ \A i \in DOMAIN workers : i <= 2 => workers[i] \in First
    BY <2>1 DEF IInv, Connected
  <2> QED BY <2>1, <2>3, <2>4, <2>5, <2>6, <2>7
<1>7. TakenIn'
  <2> SUFFICES ASSUME cpc' \in {"accept", "form", "r_accept", "r_form"}, NEW u \in Range(workers)'
               PROVE  Waiting(u)' /\ toCoord'[u] = <<>>
    BY DEF TakenIn
  <2>1. workers' = workers
    BY DEF coordVars
  <2>2. u \in Range(workers) /\ u \in Worker
    BY <2>1, <1>2
  <2>3. Waiting(u) /\ toCoord[u] = <<>>
    BY <2>2 DEF IInv, TakenIn
  <2>4. cpc \in Live
    BY DEF Live, Running, Recovering
  <2> QED BY <2>2, <2>3, <2>4, <1>5
<1> QED BY <1>4, <1>6, <1>7

LEMMA WorkerMoveSynchrony ==
  ASSUME IInv, NEW w \in Worker, WorkerMove(w), UNCHANGED coordVars, cpc' = cpc
  PROVE  Synchrony' /\ GotRight' /\ Acknowledged'
<1>1. UNCHANGED <<workers, ci, round, got>>
  BY DEF coordVars
<1>2. CASE cpc \in Ended
  BY <1>2, <1>1 DEF Synchrony, Synchronised, Running, Ended, GotRight, Acknowledged
<1>3. CASE cpc \notin Ended
  <2>1. Moves(w) /\ \A v \in Worker : v # w => Untouched(v)
    BY <1>3, MoveEffect
  <2>2. \A v \in Worker : results[v] \subseteq results'[v]
    BY <2>1, MoveKeeps, UntouchedKeeps
  <2>3. Synchrony'
    <3>1. CASE cpc \in Synchronised
      <4>1. \A p \in {1, 2} : workers[p] \in Worker
        BY <3>1, TwoConnections
      <4>2. \A p \in {1, 2} : Moves(workers[p]) \/ Untouched(workers[p])
        BY <4>1, <2>1
      <4> QED BY <3>1, <4>2, KeepsInStep
    <3>2. CASE cpc \notin Synchronised
      BY <3>2 DEF Synchrony
    <3> QED BY <3>1, <3>2
  <2>4. GotRight'
    <3>1. \A u : Rank(u)' = Rank(u)
      BY <1>1, SameRanks
    <3> QED BY <3>1, <1>1 DEF IInv, GotRight
  <2>5. Acknowledged'
    <3>1. cpc \in {"acks", "record"} => \A p \in {1, 2} : workers[p] \in Worker
      BY TwoConnections DEF Synchronised, Running
    <3>2. \A p \in {1, 2} : workers'[p] = workers[p]
      BY <1>1
    <3>3. cpc = "acks" => \A p \in {1, 2} : p < ci => round \in results[workers[p]]
      BY DEF IInv, Acknowledged
    <3>4. cpc = "record" => \A p \in {1, 2} : round \in results[workers[p]]
      BY DEF IInv, Acknowledged
    <3> QED BY <3>1, <3>2, <3>3, <3>4, <2>2, <1>1 DEF Acknowledged
  <2> QED BY <2>3, <2>4, <2>5
<1> QED BY <1>2, <1>3

\* A worker that starts is new, waits, and leaves the others alone.
LEMMA StartEffect ==
  ASSUME IInv, NEW w \in Worker, Start(w)
  PROVE  /\ cpc' = cpc /\ UNCHANGED coordVars /\ cpc \in Live /\ cpc # "load"
         /\ backlog' = Append(backlog, w)
         /\ w \notin Range(backlog) /\ w \notin Range(workers)
         /\ wpc'[w] = "accept" /\ toWorker'[w] = <<>> /\ toCoord'[w] = Joining
         /\ IF round = 4 THEN w \in Fresh ELSE w \in First \cup {Late} /\ (epoch = 2 => w \in First)
         /\ \A v \in Worker : v # w => Untouched(v)
<1>1. /\ wpc[w] = "off" /\ wpc' = [wpc EXCEPT ![w] = "accept"]
      /\ backlog' = Append(backlog, w)
      /\ toCoord' = [toCoord EXCEPT ![w] = Joining]
      /\ UNCHANGED <<cpc, toWorker, patience, wrank, answered, results>>
  BY DEF Start, Launch, Joining
<1>2. cpc \notin Ended /\ UNCHANGED coordVars
  BY DEF Start
<1>3. /\ wpc \in [Worker -> {"off", "accept", "ack", "loop", "result", "stalled", "dead", "exited"}]
      /\ toCoord \in [Worker -> Seq(Frames)] /\ cpc \in Live
  BY <1>2 DEF IInv, TypeOK, WorkersTypeOK, Live
<1>4. w \notin Range(backlog) /\ w \notin Range(workers)
  BY <1>1, <1>3 DEF IInv, Connected
<1>5. toWorker'[w] = <<>>
  BY <1>1 DEF IInv, NotStarted
<1>6. IF w \in Fresh THEN round = 4 /\ cpc # "load" ELSE round < 4 /\ (w = Late => epoch = 3)
  BY DEF Start
<1>7. cpc = "load" => round = 4
  BY DEF IInv, Control, Recovering
<1>8. round \in 1 .. 4
  BY DEF IInv, TypeOK
<1>9. cpc # "load"
  BY <1>6, <1>7, <1>8
<1>10. IF round = 4 THEN w \in Fresh ELSE w \in First \cup {Late} /\ (epoch = 2 => w \in First)
  BY <1>6, <1>8 DEF Worker
<1>11. \A v \in Worker : v # w => Untouched(v)
  BY <1>1, <1>3 DEF Untouched, SameRecord
<1>12. wpc'[w] = "accept" /\ toCoord'[w] = Joining
  BY <1>1, <1>3
<1> QED BY <1>1, <1>2, <1>3, <1>4, <1>5, <1>9, <1>10, <1>11, <1>12

LEMMA StartConnected ==
  ASSUME IInv, NEW w \in Worker, Start(w)
  PROVE  NotStarted' /\ Connected' /\ TakenIn'
<1>1. /\ cpc' = cpc /\ cpc \in Live /\ cpc # "load"
      /\ workers' = workers /\ round' = round /\ epoch' = epoch
      /\ backlog' = Append(backlog, w)
      /\ w \notin Range(backlog) /\ w \notin Range(workers)
      /\ wpc'[w] = "accept" /\ toWorker'[w] = <<>> /\ toCoord'[w] = Joining
      /\ IF round = 4 THEN w \in Fresh ELSE w \in First \cup {Late} /\ (epoch = 2 => w \in First)
      /\ \A v \in Worker : v # w => Untouched(v)
  BY StartEffect DEF coordVars
<1>2. Range(workers) \subseteq Worker /\ Range(backlog) \subseteq Worker
  BY HeldAreWorkers DEF IInv
<1>3. Fresh \subseteq Worker /\ First \cap Fresh = {} /\ Late \notin Fresh
  BY WorkerSets
<1>4. backlog \in Seq(Worker)
  BY DEF IInv, TypeOK, WorkersTypeOK
<1>5. Range(Append(backlog, w)) = Range(backlog) \cup {w}
  BY <1>4, RangeAppend
<1>6. Range(backlog)' = Range(backlog) \cup {w} /\ Range(workers)' = Range(workers)
  BY <1>1, <1>5
<1>7. Injective(backlog) /\ Injective(workers)
  BY <1>1 DEF IInv, Connected
<1>8. Injective(Append(backlog, w))
  BY <1>1, <1>4, <1>7, StillInjective
<1>9. (Injective(backlog) /\ Injective(workers))'
  BY <1>1, <1>7, <1>8 DEF Injective
<1>10. /\ Range(backlog) \cap Range(workers) = {}
       /\ round = 4 => Range(backlog) \cup Range(workers) \subseteq Fresh
       /\ round < 4 =>
            /\ Range(backlog) \cup Range(workers) \subseteq First \cup {Late}
            /\ epoch = 2 => Range(backlog) \cup Range(workers) \subseteq First
            /\ \A i \in DOMAIN workers : i <= 2 => workers[i] \in First
       /\ \A u \in Range(backlog) \cup Range(workers) : wpc[u] # "off"
       /\ \A u \in Range(backlog) : Waiting(u) /\ toCoord[u] = Joining
  BY <1>1 DEF IInv, Connected
<1>11. round \in 1 .. 4
  BY DEF IInv, TypeOK
<1>12. \A v \in Worker : v # w =>
         wpc'[v] = wpc[v] /\ toWorker'[v] = toWorker[v] /\ toCoord'[v] = toCoord[v]
         /\ (Waiting(v) => Waiting(v)')
  BY <1>1, UntouchedKeeps DEF Untouched
<1>13. Waiting(w)'
  BY <1>1 DEF Waiting
<1>14. NotStarted'
  <2>1. /\ \A v \in Worker : wpc[v] = "off" => toWorker[v] = <<>>
        /\ round < 4 => \A v \in Fresh : wpc[v] = "off"
    BY DEF IInv, NotStarted
  <2>2. \A v \in Worker : wpc'[v] = "off" => toWorker'[v] = <<>>
    BY <2>1, <1>1, <1>12
  <2>3. round < 4 => w \notin Fresh
    BY <1>1, <1>3, <1>11
  <2>4. round' < 4 => \A v \in Fresh : wpc'[v] = "off"
    BY <2>1, <2>3, <1>1, <1>3, <1>12
  <2> QED BY <2>2, <2>4, <1>1 DEF NotStarted
<1>15. Connected'
  <2>1. \A u \in Range(backlog)' \cup Range(workers)' : wpc'[u] # "off"
    BY <1>1, <1>2, <1>6, <1>10, <1>12
  <2>2. \A u \in Range(backlog)' : Waiting(u)' /\ toCoord'[u] = Joining
    BY <1>1, <1>2, <1>6, <1>10, <1>12, <1>13
  <2>3. (Range(backlog) \cap Range(workers) = {})'
    BY <1>1, <1>6, <1>10
  <2>4. round' = 4 => Range(backlog)' \cup Range(workers)' \subseteq Fresh
    BY <1>1, <1>6, <1>10
  <2>5. round' < 4 =>
          /\ Range(backlog)' \cup Range(workers)' \subseteq First \cup {Late}
          /\ epoch' = 2 => Range(backlog)' \cup Range(workers)' \subseteq First
          /\ \A i \in DOMAIN workers' : i <= 2 => workers'[i] \in First
    BY <1>1, <1>6, <1>10, <1>11
  <2> QED BY <2>1, <2>2, <2>3, <2>4, <2>5, <1>9 DEF Connected
<1>16. TakenIn'
  <2> SUFFICES ASSUME cpc' \in {"accept", "form", "r_accept", "r_form"}, NEW u \in Range(workers)'
               PROVE  Waiting(u)' /\ toCoord'[u] = <<>>
    BY DEF TakenIn
  <2>1. u \in Range(workers) /\ u \in Worker /\ u # w
    BY <1>1, <1>2, <1>6
  <2>2. Waiting(u) /\ toCoord[u] = <<>>
    BY <2>1, <1>1 DEF IInv, TakenIn
  <2> QED BY <2>1, <2>2, <1>12
<1> QED BY <1>14, <1>15, <1>16

LEMMA StartSynchrony ==
  ASSUME IInv, NEW w \in Worker, Start(w)
  PROVE  Synchrony' /\ GotRight' /\ Acknowledged'
<1>1. /\ cpc' = cpc /\ UNCHANGED coordVars /\ w \notin Range(workers)
      /\ \A v \in Worker : v # w => Untouched(v)
  BY StartEffect
<1>2. UNCHANGED <<workers, ci, round, got>>
  BY <1>1 DEF coordVars
<1>3. results' = results
  BY DEF Start, Launch
<1>4. Synchrony'
  <2>1. CASE cpc \in Synchronised
    <3>1. \A p \in {1, 2} : workers[p] \in Worker /\ workers[p] # w
      BY <2>1, <1>1, TwoConnections
    <3>2. \A p \in {1, 2} : Moves(workers[p]) \/ Untouched(workers[p])
      BY <3>1, <1>1
    <3> QED BY <2>1, <3>2, <1>1, KeepsInStep
  <2>2. CASE cpc \notin Synchronised
    BY <2>2, <1>1 DEF Synchrony
  <2> QED BY <2>1, <2>2
<1>5. GotRight'
  <2>1. \A u : Rank(u)' = Rank(u)
    BY <1>2, SameRanks
  <2> QED BY <2>1, <1>1, <1>2 DEF IInv, GotRight
<1>6. Acknowledged'
  BY <1>1, <1>2, <1>3 DEF IInv, Acknowledged
<1> QED BY <1>4, <1>5, <1>6

\* The coordinator dies: nothing is said any more of its connections.
LEMMA CoordinatorDiesRest ==
  ASSUME IInv, CoordinatorDies
  PROVE  /\ NotStarted' /\ Connected' /\ TakenIn'
         /\ Synchrony' /\ GotRight' /\ Acknowledged'
<1>1. cpc' = "failed" /\ UNCHANGED <<coordVars, backlog, toCoord, toWorker, workerVars>>
  BY DEF CoordinatorDies
<1>2. UNCHANGED <<wpc, toWorker, round>>
  BY <1>1 DEF coordVars, workerVars
<1>3. NotStarted'
  BY <1>1, <1>2 DEF IInv, NotStarted
<1>4. Connected' /\ TakenIn'
  BY <1>1 DEF Connected, TakenIn, Live, Running, Recovering
<1>5. Synchrony' /\ GotRight' /\ Acknowledged'
  BY <1>1 DEF Synchrony, Synchronised, Running, GotRight, Acknowledged
<1> QED BY <1>3, <1>4, <1>5

\* The second coordinator starts with nothing.
LEMMA StartRecoveryRest ==
  ASSUME IInv, StartRecovery
  PROVE  /\ NotStarted' /\ Connected' /\ TakenIn'
         /\ Synchrony' /\ GotRight' /\ Acknowledged'
<1>1. /\ cpc' = "load" /\ round < 4 /\ round' = 4
      /\ workers' = <<>> /\ backlog' = <<>>
      /\ toWorker' = [w \in Worker |-> <<>>]
      /\ wpc' = [w \in Worker |-> IF w \in Fresh THEN wpc[w] ELSE "dead"]
  BY DEF StartRecovery, Goto
<1>2. Fresh \subseteq Worker /\ \A w \in Fresh : wpc[w] = "off"
  BY <1>1, WorkerSets DEF IInv, NotStarted
<1>3. \A w \in Fresh : wpc'[w] = "off"
  BY <1>1, <1>2
<1>4. NotStarted'
  BY <1>1, <1>3 DEF NotStarted
<1>5. Range(<<>>) = {} /\ Injective(<<>>)
  BY DEF Range, Injective
<1>6. (Range(backlog) = {} /\ Range(workers) = {} /\ Injective(backlog) /\ Injective(workers))'
  BY <1>1, <1>5
<1>7. Connected'
  BY <1>1, <1>6 DEF Connected
<1>8. TakenIn' /\ Synchrony' /\ GotRight' /\ Acknowledged'
  BY <1>1 DEF TakenIn, Synchrony, Synchronised, Running, GotRight, Acknowledged
<1> QED BY <1>4, <1>7, <1>8

-----------------------------------------------------------------------------
(* No worker answers a round twice *)

\* A frame is taken; if it is a request it is answered.
LEMMA OnceTaken ==
  ASSUME NEW s \in Seq(Frames), s # <<>>, NEW t, t = Tail(s),
         NEW a \in Nat, NEW asked \in Nat, Once(a, s, asked)
  PROVE  /\ Once(a, t, asked)
         /\ Head(s).kind = "REQUEST_COLLECTIVE" => Once(a + 1, t, asked) /\ a + 1 <= asked
<1>1. /\ t \in Seq(Frames) /\ Head(s) = s[1] /\ 1 \in DOMAIN s
      /\ DOMAIN t = 1 .. Len(t) /\ DOMAIN s = 1 .. Len(s) /\ Len(s) \in Nat
      /\ \A i \in DOMAIN t : i + 1 \in DOMAIN s /\ t[i] = s[i + 1] /\ t[i] \in Frames /\ 1 < i + 1
  <2>1. /\ t \in Seq(Frames) /\ Head(s) = s[1] /\ 1 \in DOMAIN s
        /\ DOMAIN t = 1 .. Len(t) /\ DOMAIN s = 1 .. Len(s)
        /\ \A i \in DOMAIN t : i + 1 \in DOMAIN s /\ t[i] = s[i + 1]
    BY FirstTaken
  <2>2. Len(s) \in Nat /\ Len(t) \in Nat /\ \A i \in DOMAIN t : t[i] \in Frames
    BY <2>1, LenProperties, ElementOfSeq
  <2>3. \A i \in DOMAIN t : 1 < i + 1
    BY <2>1, <2>2
  <2> QED BY <2>1, <2>2, <2>3
<1>2. \A f \in Frames : f.n \in Nat
  BY DEF Frames
<1>3. a <= asked
  BY DEF Once
<1>4. ASSUME NEW i \in DOMAIN t, t[i].kind = "REQUEST_COLLECTIVE"
      PROVE  /\ a < t[i].n /\ t[i].n <= asked /\ t[i].n \in Nat
             /\ \A j \in DOMAIN t : i < j /\ t[j].kind = "REQUEST_COLLECTIVE" => t[i].n < t[j].n
             /\ Head(s).kind = "REQUEST_COLLECTIVE" => Head(s).n < t[i].n
  <2>1. i + 1 \in DOMAIN s /\ s[i + 1].kind = "REQUEST_COLLECTIVE" /\ t[i] = s[i + 1]
    BY <1>1, <1>4
  <2>2. a < t[i].n /\ t[i].n <= asked
    BY <2>1 DEF Once
  <2>3. ASSUME NEW j \in DOMAIN t, i < j, t[j].kind = "REQUEST_COLLECTIVE" PROVE t[i].n < t[j].n
    <3>1. j + 1 \in DOMAIN s /\ s[j + 1] = t[j] /\ i + 1 < j + 1
      BY <1>1, <2>3
    <3> QED BY <2>1, <2>3, <3>1 DEF Once
  <2>4. Head(s).kind = "REQUEST_COLLECTIVE" => Head(s).n < t[i].n
    BY <2>1, <1>1 DEF Once
  <2>5. t[i].n \in Nat
    BY <1>1, <1>2
  <2> QED BY <2>2, <2>3, <2>4, <2>5
<1>5. Once(a, t, asked)
  BY <1>3, <1>4 DEF Once
<1>6. ASSUME Head(s).kind = "REQUEST_COLLECTIVE" PROVE Once(a + 1, t, asked) /\ a + 1 <= asked
  <2>1. a < Head(s).n /\ Head(s).n <= asked /\ Head(s).n \in Nat
    <3>1. a < Head(s).n /\ Head(s).n <= asked
      BY <1>1, <1>6 DEF Once
    <3>2. Head(s) \in Frames
      BY FirstTaken
    <3> QED BY <3>1, <3>2, <1>2
  <2>2. a + 1 <= asked
    BY <2>1
  <2>3. ASSUME NEW i \in DOMAIN t, t[i].kind = "REQUEST_COLLECTIVE" PROVE a + 1 < t[i].n
    <3>1. Head(s).n < t[i].n /\ t[i].n \in Nat
      BY <1>4, <1>6, <2>3
    <3> QED BY <3>1, <2>1
  <2> QED BY <2>2, <2>3, <1>4 DEF Once
<1> QED BY <1>5, <1>6

\* A frame is sent: something else than a request, or the next one.
LEMMA OnceSent ==
  ASSUME NEW s \in Seq(Frames), NEW f \in Frames, NEW t, t = Append(s, f),
         NEW a \in Nat, NEW m \in Nat, NEW asked \in Nat, m <= asked, Once(a, s, m),
         f.kind # "REQUEST_COLLECTIVE" \/ (f.n = asked /\ m < asked)
  PROVE  Once(a, t, asked)
<1>1. /\ DOMAIN s = 1 .. Len(s) /\ DOMAIN t = 1 .. Len(t) /\ Len(t) = Len(s) + 1 /\ Len(s) \in Nat
      /\ \A i \in DOMAIN s : t[i] = s[i] /\ s[i] \in Frames
      /\ t[Len(t)] = f
      /\ \A i \in DOMAIN t : i # Len(t) => i \in DOMAIN s
  BY Appended, LenProperties, ElementOfSeq
<1>2. \A g \in Frames : g.n \in Nat
  BY DEF Frames
<1>3. a <= asked
  BY DEF Once
<1>4. ASSUME NEW i \in DOMAIN t, t[i].kind = "REQUEST_COLLECTIVE"
      PROVE  /\ a < t[i].n /\ t[i].n <= asked
             /\ \A j \in DOMAIN t : i < j /\ t[j].kind = "REQUEST_COLLECTIVE" => t[i].n < t[j].n
  <2>1. CASE i = Len(t)
    <3>1. a <= m /\ f.n = asked /\ m < asked /\ t[i] = f
      BY <1>1, <1>4, <2>1 DEF Once
    <3>2. \A j \in DOMAIN t : ~ i < j
      BY <1>1, <2>1
    <3> QED BY <3>1, <3>2
  <2>2. CASE i # Len(t)
    <3>1. i \in DOMAIN s /\ t[i] = s[i] /\ t[i].n \in Nat
      BY <1>1, <1>2, <2>2
    <3>2. a < t[i].n /\ t[i].n <= m
      BY <3>1, <1>4 DEF Once
    <3>3. ASSUME NEW j \in DOMAIN t, i < j, t[j].kind = "REQUEST_COLLECTIVE" PROVE t[i].n < t[j].n
      <4>1. CASE j = Len(t)
        BY <4>1, <3>1, <3>2, <3>3, <1>1
      <4>2. CASE j # Len(t)
        <5>1. j \in DOMAIN s /\ t[j] = s[j]
          BY <4>2, <1>1
        <5> QED BY <5>1, <3>1, <3>3, <1>4 DEF Once
      <4> QED BY <4>1, <4>2
    <3> QED BY <3>1, <3>2, <3>3
  <2> QED BY <2>1, <2>2
<1> QED BY <1>3, <1>4 DEF Once

\* More is asked, or nothing is on the way.
LEMMA OnceKept ==
  ASSUME NEW s, s \in Seq(Frames), NEW a \in Nat, NEW m \in Nat, NEW asked \in Nat, m <= asked, Once(a, s, m)
  PROVE  Once(a, s, asked) /\ Once(a, <<>>, asked)
<1>1. \A i \in DOMAIN s : s[i].n \in Nat
  <2>1. \A i \in DOMAIN s : s[i] \in Frames
    BY ElementOfSeq, LenProperties
  <2> QED BY <2>1 DEF Frames
<1>2. a <= m
  BY DEF Once
<1>3. DOMAIN <<>> = {}
  OBVIOUS
<1> QED BY <1>1, <1>2, <1>3 DEF Once

LEMMA OnceTypes ==
  ASSUME IInv
  PROVE  /\ Asked \in Nat
         /\ \A w \in Worker :
              /\ answered[w] \in Nat /\ toWorker[w] \in Seq(Frames)
              /\ Once(answered[w], toWorker[w], Asked)
<1>1. round \in 1 .. 4
  BY DEF IInv, TypeOK
<1>2. Asked \in Nat
  BY <1>1 DEF Asked
<1>3. \A w \in Worker : answered[w] \in Nat /\ toWorker[w] \in Seq(Frames)
  <2>1. answered \in [Worker -> 0 .. 4] /\ toWorker \in [Worker -> Seq(Frames)]
    BY DEF IInv, TypeOK, WorkersTypeOK
  <2>2. \A w \in Worker : answered[w] \in 0 .. 4
    BY <2>1
  <2> QED BY <2>1, <2>2
<1> QED BY <1>2, <1>3 DEF IInv, OneAnswerEach

\* A worker takes the next frame, or what was on the way to it is lost.
LEMMA WorkerMoveOnce ==
  ASSUME IInv, NEW w \in Worker, WorkerMove(w), UNCHANGED coordVars, cpc' = cpc
  PROVE  OneAnswerEach'
<1>1. /\ toWorker \in [Worker -> Seq(Frames)] /\ answered \in [Worker -> 0 .. 4]
  BY DEF IInv, TypeOK, WorkersTypeOK
<1>2. Asked' = Asked
  BY DEF Asked, coordVars
<1>3. /\ \A v \in Worker : v # w => toWorker'[v] = toWorker[v] /\ answered'[v] = answered[v]
      /\ \/ toWorker'[w] = <<>> /\ answered'[w] = answered[w]
         \/ /\ toWorker[w] # <<>> /\ toWorker'[w] = Tail(toWorker[w])
            /\ \/ answered'[w] = answered[w]
               \/ answered'[w] = answered[w] + 1 /\ Head(toWorker[w]).kind = "REQUEST_COLLECTIVE"
  <2>1. CASE TakeAccept(w)
    BY <1>1, <2>1 DEF TakeAccept, Receives
  <2>2. CASE TakeAck(w)
    BY <1>1, <2>2 DEF TakeAck, Receives
  <2>3. CASE TakeRequest(w)
    BY <1>1, <2>3 DEF TakeRequest, Receives
  <2>4. CASE TakeResult(w)
    BY <1>1, <2>4 DEF TakeResult, Receives
  <2>5. CASE SeeClosed(w)
    BY <1>1, <2>5 DEF SeeClosed
  <2>6. CASE Ends(w)
    BY <1>1, <2>6 DEF Ends
  <2> QED BY <2>1, <2>2, <2>3, <2>4, <2>5, <2>6 DEF WorkerMove
<1>4. ASSUME NEW v \in Worker PROVE Once(answered'[v], toWorker'[v], Asked)
  <2>1. /\ Asked \in Nat /\ answered[v] \in Nat /\ toWorker[v] \in Seq(Frames)
        /\ Once(answered[v], toWorker[v], Asked)
    BY OnceTypes
  <2>2. CASE v # w
    BY <2>1, <2>2, <1>3
  <2>3. CASE v = w /\ toWorker'[w] = <<>> /\ answered'[w] = answered[w]
    <3>1. Once(answered[v], <<>>, Asked)
      BY <2>1, OnceKept
    <3> QED BY <3>1, <2>3
  <2>4. CASE /\ v = w /\ toWorker[w] # <<>> /\ toWorker'[w] = Tail(toWorker[w])
             /\ \/ answered'[w] = answered[w]
                \/ answered'[w] = answered[w] + 1 /\ Head(toWorker[w]).kind = "REQUEST_COLLECTIVE"
    <3>1. PICK t : t = Tail(toWorker[v])
      OBVIOUS
    <3>2. /\ Once(answered[v], t, Asked)
          /\ Head(toWorker[v]).kind = "REQUEST_COLLECTIVE" => Once(answered[v] + 1, t, Asked)
      BY <2>1, <2>4, <3>1, OnceTaken
    <3> QED BY <3>1, <3>2, <2>4
  <2> QED BY <2>2, <2>3, <2>4, <1>3
<1> QED BY <1>2, <1>4 DEF OneAnswerEach

\* Steps that send nothing.
LEMMA SilentOnce ==
  ASSUME IInv, UNCHANGED <<toWorker, answered>>, Asked <= Asked', Asked' \in Nat
  PROVE  OneAnswerEach'
<1>1. PICK m : m = Asked'
  OBVIOUS
<1>2. ASSUME NEW v \in Worker PROVE Once(answered[v], toWorker[v], m)
  <2>1. /\ Asked \in Nat /\ answered[v] \in Nat /\ toWorker[v] \in Seq(Frames)
        /\ Once(answered[v], toWorker[v], Asked)
    BY OnceTypes
  <2> QED BY <2>1, <1>1, OnceKept
<1> QED BY <1>1, <1>2 DEF OneAnswerEach

\* Steps that send.
LEMMA SendsOnce ==
  ASSUME IInv, UNCHANGED answered, NEW frames \in [Range(workers) -> Frames], SendAll(workers, frames),
         \/ (\A w \in Range(workers) : frames[w].kind # "REQUEST_COLLECTIVE") /\ Asked' = Asked
         \/ (\A w \in Range(workers) : frames[w].n = Asked + 1) /\ Asked' = Asked + 1
  PROVE  OneAnswerEach'
<1>1. PICK m : m = Asked'
  OBVIOUS
<1>2. \A w \in Worker :
        toWorker'[w] = IF w \in Range(workers) /\ ~ Gone(w)
                       THEN Append(toWorker[w], frames[w]) ELSE toWorker[w]
  BY SendAllEffect DEF IInv
<1>3. ASSUME NEW v \in Worker PROVE Once(answered[v], toWorker'[v], m)
  <2>1. /\ Asked \in Nat /\ answered[v] \in Nat /\ toWorker[v] \in Seq(Frames)
        /\ Once(answered[v], toWorker[v], Asked)
    BY OnceTypes
  <2>2. m \in Nat /\ Asked <= m
    BY <1>1, <2>1
  <2>3. CASE v \in Range(workers) /\ ~ Gone(v)
    <3>1. PICK t : t = Append(toWorker[v], frames[v])
      OBVIOUS
    <3>2. frames[v].kind # "REQUEST_COLLECTIVE" \/ (frames[v].n = m /\ Asked < m)
      BY <1>1, <2>1, <2>3
    <3>3. PICK f \in Frames : f = frames[v]
      BY <2>3
    <3>4. t = Append(toWorker[v], f) /\ (f.kind # "REQUEST_COLLECTIVE" \/ (f.n = m /\ Asked < m))
      BY <3>1, <3>2, <3>3
    <3>5. Once(answered[v], t, m)
      BY <2>1, <2>2, <3>4, OnceSent
    <3> QED BY <3>1, <3>5, <2>3, <1>2
  <2>4. CASE ~ (v \in Range(workers) /\ ~ Gone(v))
    <3>1. Once(answered[v], toWorker[v], m)
      BY <2>1, <2>2, OnceKept
    <3> QED BY <3>1, <2>4, <1>2
  <2> QED BY <2>3, <2>4
<1> QED BY <1>1, <1>3 DEF OneAnswerEach

LEMMA SenderOnce ==
  ASSUME IInv, Sender
  PROVE  OneAnswerEach'
<1>1. PICK frames \in [Range(workers) -> Frames] :
        /\ SendAll(workers, frames)
        /\ \A w \in Range(workers) :
             /\ cpc \in {"form", "r_form", "regroup"} => frames[w].kind = "GROUP_ACCEPT"
             /\ cpc \in {"release", "r_release"} => frames[w].kind = "COMPLETE"
             /\ cpc \in {"request", "r_request"} => frames[w] = Frame("REQUEST_COLLECTIVE", round, 0)
             /\ cpc = "reduce" => frames[w] = Frame("RESULT", round, 0)
  BY Sending
<1>2. /\ UNCHANGED <<round, workerVars>>
      /\ <<cpc, cpc'>> \in {<<"form", "barrier">>, <<"release", "request">>, <<"request", "collect">>,
                            <<"reduce", "acks">>, <<"regroup", "save2">>, <<"r_form", "r_barrier">>,
                            <<"r_release", "r_request">>, <<"r_request", "r_collect">>}
  BY SenderNext
<1>3. answered' = answered /\ round' = round /\ round \in 1 .. 4
  BY <1>2 DEF workerVars, IInv, TypeOK
<1>4. CASE cpc \in {"request", "r_request"}
  <2>1. Asked' = Asked + 1 /\ Asked + 1 = round
    BY <1>2, <1>3, <1>4 DEF Asked, Beginning
  <2>2. \A w \in Range(workers) : frames[w].n = Asked + 1
    BY <2>1, <1>1, <1>4, FramesSent
  <2> QED BY <2>1, <2>2, <1>1, <1>3, SendsOnce
<1>5. CASE cpc \notin {"request", "r_request"}
  <2>1. Asked' = Asked
    BY <1>2, <1>3, <1>5 DEF Asked, Beginning
  <2>2. cpc \in {"form", "r_form", "regroup", "release", "r_release", "reduce"}
    BY <1>2, <1>5
  <2>3. \A w \in Range(workers) : frames[w].kind # "REQUEST_COLLECTIVE"
    BY <2>2, <1>1, FramesSent
  <2> QED BY <2>1, <2>3, <1>1, <1>3, SendsOnce
<1> QED BY <1>4, <1>5

LEMMA RecoverResultOnce ==
  ASSUME IInv, RecoverResult
  PROVE  OneAnswerEach'
<1>1. /\ UNCHANGED <<round, workerVars>> /\ cpc = "r_reduce" /\ cpc' \in {"done", "r_acks"}
      /\ \/ UNCHANGED toWorker
         \/ \E frames \in [Range(workers) -> Frames] :
              /\ SendAll(workers, frames)
              /\ \A w \in Range(workers) : frames[w].kind = "RESULT"
  BY RecoverResultNext
<1>2. answered' = answered /\ Asked' = Asked /\ Asked \in Nat
  BY <1>1, OnceTypes DEF workerVars, Asked, Beginning
<1>3. CASE UNCHANGED toWorker
  BY <1>2, <1>3, SilentOnce
<1>4. CASE \E frames \in [Range(workers) -> Frames] :
              /\ SendAll(workers, frames)
              /\ \A w \in Range(workers) : frames[w].kind = "RESULT"
  <2>1. PICK frames \in [Range(workers) -> Frames] :
          SendAll(workers, frames) /\ \A w \in Range(workers) : frames[w].kind = "RESULT"
    BY <1>4
  <2>2. \A w \in Range(workers) : frames[w].kind # "REQUEST_COLLECTIVE"
    BY <2>1
  <2> QED BY <2>1, <2>2, <1>2, SendsOnce
<1> QED BY <1>1, <1>3, <1>4

\* The other steps of the coordinators, and of the driver.
LEMMA OthersOnce ==
  ASSUME IInv,
         \/ Receiver \/ Inner \/ AcceptFirst \/ RecoverAccept \/ AcceptReplacement \/ RecoverLoad
         \/ CoordinatorDies \/ (\E w \in Worker : Start(w)) \/ StartRecovery
  PROVE  OneAnswerEach'
<1>0. round \in 1 .. 4 /\ Asked \in Nat
  BY OnceTypes DEF IInv, TypeOK
<1>1. CASE Receiver
  <2>1. round' = round /\ toWorker' = toWorker /\ answered' = answered
    BY <1>1, ReceiverReads DEF workerVars
  <2>2. PassedOver \/ Gained
    BY <1>1, ReceiverSteps
  <2>3. cpc \in Beginning \cup {"request", "load", "r_accept", "r_form", "r_barrier", "r_release", "r_request"}
          \/ cpc' \notin Beginning \cup {"request", "load", "r_accept", "r_form", "r_barrier", "r_release", "r_request"}
    BY <2>2, AfterRoundIs, <1>0 DEF PassedOver, Gained, Beginning, IInv, Control, InRound
  <2>4. Asked' \in Nat /\ Asked <= Asked'
    BY <2>1, <2>3, <1>0 DEF Asked
  <2> QED BY <2>1, <2>4, SilentOnce
<1>2. CASE Inner
  <2>1. toWorker' = toWorker /\ answered' = answered
    BY <1>2, InnerNext DEF workerVars
  <2>2. \/ cpc = "record" /\ round' = round /\ cpc' \in {"save", "reconfigure", "final"}
        \/ cpc = "save" /\ round = 1 /\ round' = 2 /\ cpc' = "request"
        \/ cpc = "reconfigure" /\ round = 2 /\ round' = 2 /\ cpc' = "replace"
        \/ cpc = "save2" /\ round = 2 /\ round' = 3 /\ cpc' = "request"
        \/ cpc = "final" /\ round' = round /\ cpc' = "done"
    BY <1>2, InnerNext
  <2>3. Asked' \in Nat /\ Asked <= Asked'
    BY <2>2, <1>0 DEF Asked, Beginning
  <2> QED BY <2>1, <2>3, SilentOnce
<1>3. CASE AcceptFirst \/ RecoverAccept
  <2>1. /\ round' = round /\ toWorker' = toWorker /\ answered' = answered
        /\ \/ cpc = "accept" /\ cpc' \in {"accept", "form", "failed"}
           \/ cpc = "r_accept" /\ cpc' \in {"r_accept", "r_form", "failed"}
    BY <1>3 DEF AcceptFirst, RecoverAccept, AcceptTwo, Quit, Goto, workerVars
  <2>2. Asked' \in Nat /\ Asked <= Asked'
    BY <2>1, <1>0 DEF Asked, Beginning
  <2> QED BY <2>1, <2>2, SilentOnce
<1>4. CASE AcceptReplacement
  <2>1. /\ round' = round /\ toWorker' = toWorker /\ answered' = answered
        /\ cpc = "replace" /\ cpc' \in {"regroup", "failed"}
    BY <1>4 DEF AcceptReplacement, Quit, Goto, workerVars
  <2>2. Asked' \in Nat /\ Asked <= Asked'
    BY <2>1, <1>0 DEF Asked, Beginning
  <2> QED BY <2>1, <2>2, SilentOnce
<1>5. CASE RecoverLoad
  <2>1. /\ round' = round /\ toWorker' = toWorker /\ answered' = answered
        /\ cpc = "load" /\ cpc' \in {"done", "failed", "r_accept"}
    BY <1>5, RecoverLoadNext DEF workerVars
  <2>2. Asked' \in Nat /\ Asked <= Asked'
    BY <2>1, <1>0 DEF Asked, Beginning
  <2> QED BY <2>1, <2>2, SilentOnce
<1>6. CASE CoordinatorDies
  <2>1. round' = round /\ toWorker' = toWorker /\ answered' = answered /\ cpc' = "failed"
    BY <1>6 DEF CoordinatorDies, coordVars, workerVars
  <2>2. Asked' \in Nat /\ Asked <= Asked'
    BY <2>1, <1>0 DEF Asked, Beginning
  <2> QED BY <2>1, <2>2, SilentOnce
<1>7. CASE \E w \in Worker : Start(w)
  <2>1. round' = round /\ toWorker' = toWorker /\ answered' = answered /\ cpc' = cpc
    BY <1>7 DEF Start, Launch, coordVars
  <2>2. Asked' \in Nat /\ Asked <= Asked'
    BY <2>1, <1>0 DEF Asked
  <2> QED BY <2>1, <2>2, SilentOnce
<1>8. CASE StartRecovery
  <2>1. /\ cpc \in Ended /\ round < 4 /\ round' = 4 /\ cpc' = "load" /\ answered' = answered
        /\ toWorker' = [w \in Worker |-> <<>>]
    BY <1>8 DEF StartRecovery, Goto
  <2>2. Asked' = 3 /\ Asked <= 3
    BY <2>1, <1>0 DEF Asked, Beginning, Ended
  <2>3. ASSUME NEW v \in Worker PROVE Once(answered[v], <<>>, 3)
    <3>1. answered[v] \in Nat /\ toWorker[v] \in Seq(Frames) /\ Once(answered[v], toWorker[v], Asked)
      BY OnceTypes
    <3> QED BY <3>1, <2>2, <1>0, OnceKept
  <2> QED BY <2>1, <2>2, <2>3 DEF OneAnswerEach
<1> QED BY <1>1, <1>2, <1>3, <1>4, <1>5, <1>6, <1>7, <1>8

-----------------------------------------------------------------------------
(* What is measured was delivered *)

LEMMA NothingMeasured ==
  ASSUME IInv, \A w \in Worker : results[w] \subseteq results'[w],
         UNCHANGED disk, measured' \subseteq measured
  PROVE  MeasuredMeansDelivered'
<1>1. First \subseteq Worker
  BY WorkerSets
<1>2. \A r \in measured \cup disk.main.measured \cup disk.before2.measured :
        \A w \in First : r \in results[w]
  BY DEF IInv, MeasuredMeansDelivered
<1>3. \A r \in measured' \cup disk'.main.measured \cup disk'.before2.measured :
        \A w \in First : r \in results'[w]
  BY <1>1, <1>2
<1> QED BY <1>3 DEF MeasuredMeansDelivered

\* The coordinator records the round: both members had taken its result.
LEMMA InnerDelivered ==
  ASSUME IInv, Inner
  PROVE  MeasuredMeansDelivered'
<1>1. \A r \in measured' \cup disk'.main.measured \cup disk'.before2.measured :
        \/ r \in measured \cup disk.main.measured \cup disk.before2.measured
        \/ cpc = "record" /\ r = round
  BY InnerNext
<1>2. results' = results
  BY InnerNext DEF workerVars
<1>3. \A r \in measured \cup disk.main.measured \cup disk.before2.measured :
        \A w \in First : r \in results[w]
  BY DEF IInv, MeasuredMeansDelivered
<1>4. ASSUME cpc = "record", NEW w \in First PROVE round \in results[w]
  <2>1. cpc \in Synchronised /\ cpc \in Live /\ round < 4
    BY <1>4 DEF Synchronised, Live, Running, IInv, Control, InRound
  <2>2. workers[1] # workers[2] /\ 1 \in DOMAIN workers /\ 2 \in DOMAIN workers
    BY <2>1, TwoConnections
  <2>3. workers[1] \in First /\ workers[2] \in First
    BY <2>1, <2>2 DEF IInv, Connected
  <2>4. w = workers[1] \/ w = workers[2]
    BY <2>2, <2>3, WorkerSets
  <2>5. \A p \in {1, 2} : round \in results[workers[p]]
    BY <1>4 DEF IInv, Acknowledged
  <2> QED BY <2>4, <2>5
<1>5. \A r \in measured' \cup disk'.main.measured \cup disk'.before2.measured :
        \A w \in First : r \in results[w]
  BY <1>1, <1>3, <1>4
<1> QED BY <1>2, <1>5 DEF MeasuredMeansDelivered

LEMMA WorkerMoveDelivered ==
  ASSUME IInv, NEW w \in Worker, WorkerMove(w), UNCHANGED coordVars
  PROVE  MeasuredMeansDelivered'
<1>1. results \in [Worker -> SUBSET (0 .. 4)]
  BY DEF IInv, TypeOK, WorkersTypeOK
<1>2. \/ results' = results
      \/ results' = [results EXCEPT ![w] = @ \cup {Head(toWorker[w]).n}]
  BY DEF WorkerMove, TakeAccept, TakeAck, TakeRequest, TakeResult, SeeClosed, Ends
<1>3. \A v \in Worker : results[v] \subseteq results'[v]
  BY <1>1, <1>2
<1> QED BY <1>3, NothingMeasured DEF coordVars

LEMMA OthersDelivered ==
  ASSUME IInv,
         \/ Sender \/ Receiver \/ AcceptFirst \/ RecoverAccept \/ AcceptReplacement \/ RecoverLoad
         \/ RecoverResult \/ CoordinatorDies \/ (\E w \in Worker : Start(w)) \/ StartRecovery
  PROVE  MeasuredMeansDelivered'
<1>1. results' = results /\ disk' = disk /\ measured' \subseteq measured
  <2>1. CASE Sender
    BY <2>1, SenderNext DEF workerVars
  <2>2. CASE Receiver
    BY <2>2, ReceiverReads DEF workerVars
  <2>3. CASE AcceptFirst \/ RecoverAccept
    BY <2>3 DEF AcceptFirst, RecoverAccept, AcceptTwo, Quit, workerVars
  <2>4. CASE AcceptReplacement
    BY <2>4 DEF AcceptReplacement, Quit, workerVars
  <2>5. CASE RecoverLoad
    BY <2>5, RecoverLoadNext DEF workerVars
  <2>6. CASE RecoverResult
    BY <2>6, RecoverResultNext DEF workerVars
  <2>7. CASE CoordinatorDies
    BY <2>7 DEF CoordinatorDies, coordVars, workerVars
  <2>8. CASE \E w \in Worker : Start(w)
    BY <2>8 DEF Start, Launch, coordVars
  <2>9. CASE StartRecovery
    BY <2>9 DEF StartRecovery
  <2> QED BY <2>1, <2>2, <2>3, <2>4, <2>5, <2>6, <2>7, <2>8, <2>9
<1> QED BY <1>1, NothingMeasured

-----------------------------------------------------------------------------
(* The invariant is inductive *)

\* Every step is one of those above.
LEMMA StepKinds ==
  ASSUME Next, IInv
  PROVE  \/ Sender \/ Receiver \/ Inner \/ AcceptFirst \/ RecoverAccept \/ AcceptReplacement
         \/ RecoverLoad \/ RecoverResult
         \/ \E w \in Worker : WorkerMove(w) /\ UNCHANGED coordVars /\ cpc' = cpc
         \/ \E w \in Worker : Start(w)
         \/ CoordinatorDies \/ StartRecovery
<1>1. CASE Coordinator
  BY <1>1 DEF Coordinator, CoordinatorStep, RecoveryStep, Sender, Receiver, Inner
<1>2. ASSUME NEW w \in Worker, WorkerMove(w), UNCHANGED coordVars PROVE cpc' = cpc
  BY <1>2, WorkerMoveNext
<1>3. \A w \in Worker : (WorkerStep(w) \/ Die(w)) => WorkerMove(w)
  BY DEF WorkerStep, Die, WorkerMove
<1>4. Victim \in Worker
  BY WorkerAssumption, WorkerSets
<1>5. Kill => WorkerMove(Victim) /\ UNCHANGED coordVars
  BY DEF Kill, WorkerMove
<1> QED BY <1>1, <1>2, <1>3, <1>4, <1>5 DEF Next

LEMMA NextIInv ==
  ASSUME IInv, [Next]_vars
  PROVE  IInv'
<1>1. CASE Sender
  BY <1>1, SenderNext, SenderConnected, SenderSynchrony, SenderGotRight, SenderOnce, OthersDelivered
     DEF IInv
<1>2. CASE Receiver
  BY <1>2, ReceiverNext, ReceiverConnected, ReceiverSynchrony, ReceiverGotRight, OthersOnce,
     OthersDelivered DEF IInv
<1>3. CASE Inner
  BY <1>3, InnerNext, InnerConnected, InnerSynchrony, InnerDelivered, OthersOnce DEF IInv
<1>4. CASE AcceptFirst \/ RecoverAccept
  BY <1>4, AcceptTwoNext, AcceptConnected, OthersOnce, OthersDelivered DEF IInv
<1>5. CASE AcceptReplacement
  BY <1>5, AcceptReplacementNext, AcceptReplacementConnected, AcceptReplacementSynchrony, OthersOnce,
     OthersDelivered DEF IInv
<1>6. CASE RecoverLoad
  BY <1>6, RecoverLoadNext, RecoverLoadConnected, OthersOnce, OthersDelivered DEF IInv
<1>7. CASE RecoverResult
  BY <1>7, RecoverResultNext, RecoverResultConnected, RecoverResultOnce, OthersDelivered DEF IInv
<1>8. CASE \E w \in Worker : WorkerMove(w) /\ UNCHANGED coordVars /\ cpc' = cpc
  <2>1. PICK w \in Worker : WorkerMove(w) /\ UNCHANGED coordVars /\ cpc' = cpc
    BY <1>8
  <2> QED BY <2>1, WorkerMoveNext, WorkerMoveConnected, WorkerMoveSynchrony, WorkerMoveOnce,
          WorkerMoveDelivered DEF IInv
<1>9. CASE \E w \in Worker : Start(w)
  <2>1. PICK w \in Worker : Start(w)
    BY <1>9
  <2> QED BY <2>1, StartNext, StartConnected, StartSynchrony, OthersOnce, OthersDelivered DEF IInv
<1>10. CASE CoordinatorDies
  BY <1>10, CoordinatorDiesNext, CoordinatorDiesRest, OthersOnce, OthersDelivered DEF IInv
<1>11. CASE StartRecovery
  BY <1>11, StartRecoveryNext, StartRecoveryRest, OthersOnce, OthersDelivered DEF IInv
<1>12. CASE UNCHANGED vars
  <2>1. UNCHANGED <<cpc, ci, round, workers, groups, epoch, got, measured, disk, backlog, toCoord,
                    toWorker, wpc, patience, wrank, answered, results>>
    BY <1>12 DEF vars, coordVars, workerVars
  <2>2. (TypeOK /\ Control /\ Counts /\ Stored)'
    <3>1. TypeOK'
      BY <2>1 DEF IInv, TypeOK, WorkersTypeOK
    <3>2. Control'
      BY <2>1 DEF IInv, Control
    <3>3. Counts'
      BY <2>1 DEF IInv, Counts, Size, Taken
    <3>4. Stored'
      BY <2>1 DEF IInv, Stored
    <3> QED BY <3>1, <3>2, <3>3, <3>4
  <2>3. (NotStarted /\ Connected /\ TakenIn)'
    BY <2>1 DEF IInv, NotStarted, Connected, TakenIn, Waiting, Gone
  <2>4. \A v \in Worker : Untouched(v)
    BY <2>1 DEF Untouched, SameRecord
  <2>5. Synchrony'
    <3>1. CASE cpc \in Synchronised
      <4>1. \A p \in {1, 2} : Untouched(workers[p])
        BY <3>1, <2>4, TwoConnections
      <4>2. UNCHANGED coordVars
        BY <2>1 DEF coordVars
      <4> QED BY <3>1, <4>1, <4>2, <2>1, KeepsInStep
    <3>2. CASE cpc \notin Synchronised
      BY <3>2, <2>1 DEF Synchrony
    <3> QED BY <3>1, <3>2
  <2>6. GotRight'
    <3>1. \A u : Rank(u)' = Rank(u)
      BY <2>1, SameRanks
    <3> QED BY <3>1, <2>1 DEF IInv, GotRight
  <2>7. Acknowledged'
    BY <2>1 DEF IInv, Acknowledged
  <2>8. MeasuredMeansDelivered'
    BY <2>1 DEF IInv, MeasuredMeansDelivered
  <2>9. OneAnswerEach'
    BY <2>1 DEF IInv, OneAnswerEach, Asked
  <2> QED BY <2>2, <2>3, <2>5, <2>6, <2>7, <2>8, <2>9 DEF IInv
<1> QED BY <1>1, <1>2, <1>3, <1>4, <1>5, <1>6, <1>7, <1>8, <1>9, <1>10, <1>11, <1>12, StepKinds

\* The inductive invariant gives the reduction its two ranks.
LEMMA ReductionFromInvariant ==
  ASSUME IInv
  PROVE  ReductionIsOfThisRound
<1>1. ASSUME cpc \in {"collect", "reduce", "acks", "record", "r_collect", "r_reduce", "r_acks"},
             NEW i \in DOMAIN got
      PROVE  got[i].round = round
  BY <1>1 DEF IInv, GotRight
<1>2. ASSUME cpc \in {"reduce", "acks", "record", "r_reduce", "r_acks"}
      PROVE  Len(got) = 2 /\ got[1].rank # got[2].rank
  <2>1. Len(got) = 2 /\ Len(workers) >= 2 /\ cpc \in Live
    BY <1>2 DEF IInv, Counts, Taken, Size, Live, Running, Recovering
  <2>2. got \in Seq([round : 0 .. 4, rank : 0 .. 1]) /\ workers \in Seq(Worker) /\ TypeOK
    BY DEF IInv, TypeOK
  <2>3. DOMAIN got = 1 .. 2 /\ DOMAIN workers = 1 .. Len(workers) /\ Len(workers) \in Nat
    BY <2>1, <2>2, LenProperties
  <2>4. workers[1] # workers[2]
    <3>1. 1 \in DOMAIN workers /\ 2 \in DOMAIN workers
      BY <2>1, <2>3
    <3> QED BY <2>1, <3>1 DEF IInv, Connected, Injective
  <2>5. Rank(workers[1]) # Rank(workers[2])
    BY <2>1, <2>2, <2>4, FormedGroup
  <2>6. got[1].rank = Rank(workers[1]) /\ got[2].rank = Rank(workers[2])
    BY <1>2, <2>3 DEF IInv, GotRight
  <2> QED BY <2>1, <2>5, <2>6
<1> QED BY <1>1, <1>2 DEF ReductionIsOfThisRound

\* The strengthening on which the three theorems below rest holds throughout:
\* where the coordinator is tells where its first two workers are.
THEOREM Invariant == Spec => []IInv
<1>1. Init => IInv
  BY InitIInv
<1>2. IInv /\ [Next]_vars => IInv'
  BY NextIInv
<1> QED BY <1>1, <1>2, PTL DEF Spec

\* The coordinators, the workers and the connections keep to their types: no
\* round, rank, epoch or number of connections leaves its range.
THEOREM TypeCorrect == Spec => []TypeOK
<1>1. IInv => TypeOK
  BY DEF IInv
<1> QED BY <1>1, Invariant, PTL

\* run_allreduce, in either coordinator, reduces contributions to the round it
\* is in, one of each rank: its receives look at no authority, and those of the
\* recovery at no kind either.
THEOREM ReductionsAreOfTheirRound == Spec => []ReductionIsOfThisRound
<1> QED BY ReductionFromInvariant, Invariant, PTL

\* A measurement that run_coordinator ingested, and that it saved, is of a round
\* whose RESULT both members of the group had taken, whoever died since.
THEOREM MeasurementsMeanDelivery == Spec => []MeasuredMeansDelivered
<1>1. IInv => MeasuredMeansDelivered
  BY DEF IInv
<1> QED BY <1>1, Invariant, PTL

=============================================================================
