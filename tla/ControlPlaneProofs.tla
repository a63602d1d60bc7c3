------------------------- MODULE ControlPlaneProofs -------------------------
(***************************************************************************)
(* Proofs about the control plane, for every set of boot identities and    *)
(* every width of the generations.  The verdict function is treated first  *)
(* (what an accepted claim must look like); the invariants of the state    *)
(* machine then follow from where the epoch can stand.                     *)
(***************************************************************************)
EXTENDS ControlPlane, TLAPS

\* Generation::next stays within the width and never goes back.
LEMMA NextGenGrows ==
  ASSUME NEW g \in Generation
  PROVE  /\ NextGen(g) \in Generation
         /\ NextGen(g) >= g
BY AuthorityAssumption DEF NextGen, Generation

\* evaluate_authority accepts only on equal epochs, with no older generation,
\* and only the live incarnation where there is one.
LEMMA EvaluateSound ==
  ASSUME NEW t \in GroundTruth, NEW c \in Claim, Accepted(t, c)
  PROVE  /\ c.epoch = t.epoch
         /\ ~ Lags(t, c)
         /\ t.live_boot # Null => c.boot = t.live_boot
BY DEF Accepted, Evaluate, Compare, OtherBoot

\* Every value a ground truth can take on a step is one.
LEMMA FreshIsTyped == FreshTruth \in GroundTruth /\ FreshHealth \in HealthRecord
BY AuthorityAssumption
   DEF FreshTruth, FreshHealth, GroundTruth, HealthRecord, HealthState, Generation

-----------------------------------------------------------------------------
LEMMA UpdateHealthTyped ==
  ASSUME TypeOK, NEW h \in HealthRecord, UpdateHealth(h)
  PROVE  TypeOK'
BY DEF TypeOK, UpdateHealth, Accept, Later, HealthRecord, Generation

LEMMA FailureReportTyped ==
  ASSUME TypeOK, NEW path \in BOOLEAN
  PROVE  [state |-> AdvanceHealth(health.state, path),
          gen |-> NextGen(health.gen)] \in HealthRecord
BY NextGenGrows DEF TypeOK, AdvanceHealth, HealthRecord, HealthState

LEMMA TypeStep == TypeOK /\ [Next]_vars => TypeOK'
<1> SUFFICES ASSUME TypeOK, [Next]_vars PROVE TypeOK'
  OBVIOUS
<1>1. CASE AdvanceEpoch
  BY <1>1, NextGenGrows DEF AdvanceEpoch, TypeOK, GroundTruth
<1>2. ASSUME NEW b \in Boot \cup {Null}, SetLiveBoot(b) PROVE TypeOK'
  BY <1>2 DEF SetLiveBoot, TypeOK, GroundTruth
<1>3. ASSUME NEW b \in Boot, NEW g \in Generation \ {0}, Regroup(b, g) PROVE TypeOK'
  <2>1. 1 \in Generation
    BY AuthorityAssumption DEF Generation
  <2>2. truth' \in GroundTruth
    BY <1>3, <2>1 DEF Regroup, TypeOK, GroundTruth
  <2> QED
    BY <1>3, <2>2 DEF Regroup, TypeOK
<1>4. CASE Save
  BY <1>4 DEF Save, TypeOK, GroundTruth
<1>5. CASE Recover
  <2>1. truth' \in GroundTruth
    BY <1>5, FreshIsTyped DEF Recover, TypeOK, GroundTruth
  <2>2. newest' \in Generation /\ known' \in Generation
    BY <1>5, AuthorityAssumption DEF Recover, Generation
  <2> QED
    BY <1>5, <2>1, <2>2, FreshIsTyped DEF Recover, TypeOK
<1>6. ASSUME NEW h \in HealthRecord, UpdateHealth(h) PROVE TypeOK'
  BY <1>6, UpdateHealthTyped
<1>7. ASSUME NEW path \in BOOLEAN, ReportFailure(path) PROVE TypeOK'
  BY <1>7, FailureReportTyped, UpdateHealthTyped DEF ReportFailure
<1>8. CASE UNCHANGED vars
  BY <1>8 DEF vars, TypeOK
<1> QED
  BY <1>1, <1>2, <1>3, <1>4, <1>5, <1>6, <1>7, <1>8 DEF Next

LEMMA TypeInit == Init => TypeOK
<1>1. 0 \in Generation
  BY AuthorityAssumption DEF Generation
<1> QED
  BY <1>1, FreshIsTyped, Zenon DEF Init, TypeOK

\* Type correctness of the control plane: no operation takes a generation
\* beyond its width, or a field of the truth out of its type.
THEOREM ControlTypeCorrect == Spec => []TypeOK
BY TypeInit, TypeStep, PTL DEF Spec

-----------------------------------------------------------------------------
\* Whatever claim arrives, whenever it arrives: it is acted upon only with the
\* current epoch, no older generation, from the live incarnation.
THEOREM AuthoritySound == Spec => []AcceptanceIsSound
<1>1. TypeOK => AcceptanceIsSound
  BY EvaluateSound DEF TypeOK, AcceptanceIsSound
<1> QED
  BY <1>1, ControlTypeCorrect, PTL

\* Which claims of the live incarnation are acted upon: with the current epoch
\* and no older generation, all of them but the completion with exactly the
\* generations in force, which is a DUPLICATE (evaluate_authority).
THEOREM AuthorityServes == Spec => []LiveIncarnationServed
<1>1. TypeOK => LiveIncarnationServed
  BY DEF TypeOK, LiveIncarnationServed, GroundTruth, Claim, Generation, Accepted,
         Evaluate, Compare, OtherBoot, Lags, Same
<1> QED
  BY <1>1, ControlTypeCorrect, PTL

-----------------------------------------------------------------------------
\* The strengthening behind durable fencing: the process in charge never
\* stands before the saved epoch.
SavedIsPast == saved # NoFile => saved <= truth.epoch

LEMMA SavedIsPastStep == TypeOK /\ SavedIsPast /\ [Next]_vars => SavedIsPast'
<1> SUFFICES ASSUME TypeOK, SavedIsPast, [Next]_vars PROVE SavedIsPast'
  OBVIOUS
<1> USE DEF SavedIsPast
<1>1. CASE AdvanceEpoch
  <2>1. truth'.epoch >= truth.epoch /\ truth'.epoch \in Generation
    BY <1>1, NextGenGrows DEF AdvanceEpoch, TypeOK, GroundTruth
  <2> QED
    BY <1>1, <2>1 DEF AdvanceEpoch, TypeOK, GroundTruth, Generation
<1>2. ASSUME NEW b \in Boot \cup {Null}, SetLiveBoot(b) PROVE SavedIsPast'
  BY <1>2 DEF SetLiveBoot, TypeOK, GroundTruth
<1>3. ASSUME NEW b \in Boot, NEW g \in Generation \ {0}, Regroup(b, g) PROVE SavedIsPast'
  BY <1>3 DEF Regroup, TypeOK, GroundTruth
<1>4. CASE Save
  BY <1>4 DEF Save, TypeOK, GroundTruth, Generation
<1>5. CASE Recover
  BY <1>5 DEF Recover, FreshTruth, TypeOK, Generation
<1>6. ASSUME NEW h, UpdateHealth(h) PROVE SavedIsPast'
  BY <1>6 DEF UpdateHealth, Accept
<1>7. ASSUME NEW path \in BOOLEAN, ReportFailure(path) PROVE SavedIsPast'
  BY <1>6, <1>7 DEF ReportFailure
<1>8. CASE UNCHANGED vars
  BY <1>8 DEF vars
<1> QED
  BY <1>1, <1>2, <1>3, <1>4, <1>5, <1>6, <1>7, <1>8 DEF Next

\* Fencing survives a crash, whatever happens between the save, the end of the
\* process and the recovery.
THEOREM FencingIsDurable == Spec => []DurableFencing
<1>1. Init => SavedIsPast
  BY DEF Init, SavedIsPast
<1>2. TypeOK /\ SavedIsPast => DurableFencing
  BY EvaluateSound
     DEF TypeOK, SavedIsPast, DurableFencing, GroundTruth, Claim, Generation
<1> QED
  BY <1>1, <1>2, SavedIsPastStep, ControlTypeCorrect, PTL DEF Spec

-----------------------------------------------------------------------------
LEMMA EpochMoves ==
  ASSUME TypeOK, [Next]_vars, truth'.epoch # truth.epoch, ~ Recover
  PROVE  truth'.epoch > truth.epoch
<1>1. CASE AdvanceEpoch
  <2>1. truth.epoch \in Generation
    BY DEF TypeOK, GroundTruth
  <2>2. truth'.epoch = NextGen(truth.epoch)
    BY <1>1 DEF AdvanceEpoch, TypeOK, GroundTruth
  <2> QED
    BY <2>1, <2>2, NextGenGrows DEF Generation
<1>2. CASE ~ AdvanceEpoch
  <2>1. truth'.epoch = truth.epoch
    BY <1>2 DEF Next, vars, SetLiveBoot, Regroup, Save, UpdateHealth, Accept,
                ReportFailure, TypeOK, GroundTruth
  <2> QED
    BY <2>1
<1> QED
  BY <1>1, <1>2

\* Within a process, a reconfiguration that moves the epoch shuts out every
\* claim of the epochs before it.
THEOREM ReconfigurationIsFence == Spec => ReconfigurationFences
<1>1. ASSUME TypeOK, TypeOK', [Next]_vars
      PROVE  truth'.epoch # truth.epoch /\ ~ Recover
             => /\ truth'.epoch > truth.epoch
                /\ \A c \in Claim : c.epoch <= truth.epoch => ~ Accepted(truth', c)
  <2> SUFFICES ASSUME truth'.epoch # truth.epoch, ~ Recover
               PROVE  /\ truth'.epoch > truth.epoch
                      /\ \A c \in Claim : c.epoch <= truth.epoch => ~ Accepted(truth', c)
    OBVIOUS
  <2>1. truth'.epoch > truth.epoch
    BY <1>1, EpochMoves
  <2>2. ASSUME NEW c \in Claim, c.epoch <= truth.epoch PROVE ~ Accepted(truth', c)
    <3>1. truth' \in GroundTruth /\ c.epoch # truth'.epoch
      BY <1>1, <2>1, <2>2 DEF TypeOK, GroundTruth, Claim, Generation
    <3> QED
      BY <3>1, EvaluateSound
  <2> QED
    BY <2>1, <2>2
<1> QED
  BY <1>1, ControlTypeCorrect, PTL DEF Spec, ReconfigurationFences

-----------------------------------------------------------------------------
LEMMA HealthStep ==
  ASSUME TypeOK, KnownHealthIsNewest, NEW h \in HealthRecord, UpdateHealth(h)
  PROVE  KnownHealthIsNewest'
<1>1. h.gen \in Nat /\ known \in Nat
  BY DEF TypeOK, HealthRecord, Generation
<1>2. CASE health.state = "UNKNOWN"
  BY <1>2 DEF UpdateHealth, Accept, KnownHealthIsNewest
<1>3. CASE health.state # "UNKNOWN"
  <2>1. h.gen >= known
    BY <1>3 DEF UpdateHealth, KnownHealthIsNewest
  <2>2. Later(known, h.gen) = h.gen
    BY <1>1, <2>1 DEF Later
  <2> QED
    BY <1>3, <2>2 DEF UpdateHealth, Accept, KnownHealthIsNewest
<1> QED
  BY <1>2, <1>3

\* Reports in any order: a record that is not UNKNOWN is the newest of those
\* accepted since it last was (update_health).
THEOREM HealthKeepsNewest == Spec => []KnownHealthIsNewest
<1>1. Init => KnownHealthIsNewest
  BY DEF Init, FreshHealth, KnownHealthIsNewest
<1>2. TypeOK /\ KnownHealthIsNewest /\ [Next]_vars => KnownHealthIsNewest'
  <2> SUFFICES ASSUME TypeOK, KnownHealthIsNewest, [Next]_vars
               PROVE  KnownHealthIsNewest'
    OBVIOUS
  <2>1. CASE Recover
    BY <2>1 DEF Recover, FreshHealth, KnownHealthIsNewest
  <2>2. ASSUME NEW h \in HealthRecord, UpdateHealth(h) PROVE KnownHealthIsNewest'
    BY <2>2, HealthStep
  <2>3. ASSUME NEW path \in BOOLEAN, ReportFailure(path) PROVE KnownHealthIsNewest'
    BY <2>3, FailureReportTyped, HealthStep DEF ReportFailure
  <2>4. CASE UNCHANGED <<health, known>>
    BY <2>4 DEF KnownHealthIsNewest
  <2> QED
    BY <2>1, <2>2, <2>3, <2>4 DEF Next, vars, AdvanceEpoch, SetLiveBoot, Regroup, Save
<1> QED
  BY <1>1, <1>2, ControlTypeCorrect, PTL DEF Spec

=============================================================================
