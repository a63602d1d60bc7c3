--------------------------- MODULE RuntimeProofs ---------------------------
(***************************************************************************)
(* Theorems about module Runtime, for any number of executions, threads,   *)
(* group generations and ranks.                                            *)
(***************************************************************************)
EXTENDS Runtime, FiniteSetTheorems, TLAPS

\* What makes the invariants inductive.  A collective that exists has a
\* descriptor with a registered group; a thread that is not idle works on
\* such a collective; a thread in the engine took it past DISPATCHED.
Created ==
  \A e \in Exec : state[e] # "none" =>
    desc[e] \in Descriptor /\ groups[desc[e].gen] # 0

Working ==
  \A t \in Thread : pc[t] # "idle" => job[t] \in Exec /\ state[job[t]] # "none"

PreRun == {"none", "CREATED", "PLANNED", "RESERVED", "DISPATCHED"}

RunOnce ==
  /\ \A e \in Exec : state[e] \in PreRun => measured[e] = 0
  /\ \A t \in Thread : pc[t] = "engine" => state[job[t]] \notin PreRun

BaseInv == TypeOK /\ Created /\ Working

-----------------------------------------------------------------------------
\* The lifecycle table only names states, and none of them is "none".
LEMMA AllowedStates ==
  \A s, q : Allowed(s, q) => s \in State /\ q \in State
BY DEF Allowed, State

LEMMA TryStates ==
  \A s \in State, q \in State : TryTransition(s, q) \in State
BY DEF TryTransition

LEMMA QuorumStates ==
  \A s \in State : \A A, B : ApplyQuorum(s, A, B) \in State
BY TryStates DEF ApplyQuorum, State

LEMMA GroupRanksType ==
  \A e : GroupRanks(e) \subseteq Rank
BY DEF GroupRanks

-----------------------------------------------------------------------------
LEMMA TypeInit == Init => BaseInv
<1> SUFFICES ASSUME Init PROVE BaseInv
  OBVIOUS
<1>1. TypeOK
  BY RuntimeAssumption DEF Init, TypeOK
<1>2. Created /\ Working
  BY DEF Init, Created, Working
<1> QED BY <1>1, <1>2 DEF BaseInv

\* The facts a step on one execution preserves, whichever step it is.
LEMMA TypeNext == BaseInv /\ [Next]_vars => BaseInv'
<1> SUFFICES ASSUME BaseInv, [Next]_vars PROVE BaseInv'
  OBVIOUS
<1> USE RuntimeAssumption DEF BaseInv
<1>1. ASSUME NEW g \in Gen, NEW n \in 1 .. MaxRanks, RegisterGroup(g, n)
      PROVE  BaseInv'
  BY <1>1 DEF RegisterGroup, TypeOK, Created, Working, Descriptor, execVars, acctVars, thrVars
<1>2. ASSUME NEW e \in Exec, NEW d \in Descriptor, CreateCollective(e, d)
      PROVE  BaseInv'
  BY <1>2 DEF CreateCollective, TypeOK, Created, Working, State, acctVars, thrVars
<1>3. ASSUME NEW e \in Exec, NEW to, MoveTo(e, to),
             UNCHANGED <<groups, desc, completions, measured, contributions,
                         submitted, completed, reserved, thrVars>>,
             failure' \in [Exec -> BOOLEAN], active' \in Nat, aborted' \in Nat
      PROVE  BaseInv'
  <2>1. state[e] \in State /\ to \in State /\ "none" \notin State
    BY <1>3, AllowedStates DEF MoveTo, State
  <2> QED BY <1>3, <2>1 DEF MoveTo, TypeOK, Created, Working, thrVars
<1>4. ASSUME NEW e \in Exec, ReserveCollective(e)
      PROVE  BaseInv'
  <2>1. state[e] \in State /\ "RESERVED" \in State /\ "none" \notin State
    BY <1>4, AllowedStates DEF ReserveCollective, MoveTo, State
  <2> QED BY <1>4, <2>1 DEF ReserveCollective, MoveTo, TypeOK, Created, Working, thrVars
<1>5. ASSUME NEW e \in Exec, NEW r \in Rank, CompleteRank(e, r)
      PROVE  BaseInv'
  <2> DEFINE s == IF state[e] = "RUNNING" THEN TryTransition("RUNNING", "COMPLETING")
                                          ELSE state[e]
             done == completions[e] \cup {r}
  <2>1. state[e] \in State /\ "none" \notin State
    BY <1>5 DEF CompleteRank, TypeOK, State
  <2>2. s \in State
    BY <2>1, TryStates DEF State
  <2>3. ApplyQuorum(s, done, GroupRanks(e)) \in State
    BY <2>2, QuorumStates
  <2>4. /\ completions' = [completions EXCEPT ![e] = done]
        /\ \/ UNCHANGED <<state, contributions>>
           \/ /\ contributions > 0 /\ contributions' = contributions - 1
              /\ state' = [state EXCEPT ![e] = ApplyQuorum(s, done, GroupRanks(e))]
        /\ UNCHANGED <<groups, desc, failure, measured, reserved, active, submitted,
                       aborted, completed, pc, job>>
    BY <1>5 DEF CompleteRank, thrVars
  <2> HIDE DEF s
  <2> QED BY <2>1, <2>3, <2>4 DEF TypeOK, Created, Working
<1>6. ASSUME ActiveRankContribution
      PROVE  BaseInv'
  BY <1>6 DEF ActiveRankContribution, TypeOK, Created, Working, execVars, thrVars
<1>7. ASSUME NEW e \in Exec, Release(e)
      PROVE  BaseInv'
  BY <1>7 DEF Release, TypeOK, Created, Working, execVars, thrVars
<1>8. ASSUME NEW t \in Thread, NEW e \in Exec, NEW fit \in BOOLEAN, ExecuteBegin(t, e, fit)
      PROVE  BaseInv'
  BY <1>8 DEF ExecuteBegin, TypeOK, Created, Working, execVars, acctVars
<1>9. ASSUME NEW t \in Thread, ExecuteRun(t)
      PROVE  BaseInv'
  <2>1. job[t] \in Exec /\ state[job[t]] \in State /\ "RUNNING" \in State /\ "none" \notin State
    BY <1>9 DEF ExecuteRun, TypeOK, Working, State
  <2> QED BY <1>9, <2>1 DEF ExecuteRun, MoveTo, TypeOK, Created, Working, acctVars
<1>10. ASSUME NEW t \in Thread, EngineThrows(t)
      PROVE  BaseInv'
  BY <1>10 DEF EngineThrows, TypeOK, Created, Working, execVars, acctVars
<1>11. ASSUME NEW t \in Thread, ExecuteFail(t)
      PROVE  BaseInv'
  <2>1. job[t] \in Exec /\ state[job[t]] \in State /\ "none" \notin State
    BY <1>11 DEF ExecuteFail, TypeOK, Working, State
  <2>2. TryTransition(state[job[t]], "FAILED") \in State
    BY <2>1, TryStates DEF State
  <2> QED BY <1>11, <2>1, <2>2 DEF ExecuteFail, TypeOK, Created, Working, acctVars
<1>12. ASSUME NEW t \in Thread, ExecuteSucceed(t)
      PROVE  BaseInv'
  <2> DEFINE e == job[t]
             done == completions[e] \cup GroupRanks(e)
             q == ApplyQuorum(TryTransition(state[e], "COMPLETING"), done, GroupRanks(e))
  <2>1. e \in Exec /\ state[e] \in State /\ "none" \notin State
    BY <1>12 DEF ExecuteSucceed, TypeOK, Working, State
  <2>2. q \in State
    BY <2>1, TryStates, QuorumStates DEF State
  <2>3. done \in SUBSET Rank
    BY <2>1, GroupRanksType DEF TypeOK
  <2>4. /\ completions' = [completions EXCEPT ![e] = done]
        /\ state' = [state EXCEPT ![e] = q]
        /\ measured' = [measured EXCEPT ![e] = @ + 1]
        /\ \/ active > 0 /\ active' = active - 1 /\ completed' = completed + 1
           \/ active = 0 /\ UNCHANGED <<active, completed>>
        /\ pc' = [pc EXCEPT ![t] = "idle"]
        /\ job' = [job EXCEPT ![t] = None]
        /\ UNCHANGED <<groups, desc, failure, reserved, submitted, aborted, contributions>>
    BY <1>12, <2>1 DEF ExecuteSucceed, TypeOK
  <2> HIDE DEF q, done
  <2>5. TypeOK'
    BY <2>1, <2>2, <2>3, <2>4 DEF TypeOK
  <2>6. Created' /\ Working'
    BY <2>1, <2>2, <2>4 DEF TypeOK, Created, Working
  <2> QED BY <2>5, <2>6
<1>13. ASSUME UNCHANGED vars
      PROVE  BaseInv'
  BY <1>13 DEF vars, execVars, acctVars, thrVars, TypeOK, Created, Working, GroupRanks
<1>14. ASSUME NEW e \in Exec,
              \/ PlanCollective(e) \/ DispatchCollective(e) \/ FailCollective(e)
              \/ AbortCollective(e) \/ CancelCollective(e) \/ MarkStaleCollective(e)
       PROVE  BaseInv'
  <2>1. PICK to : MoveTo(e, to)
    BY <1>14 DEF PlanCollective, DispatchCollective, FailCollective, AbortCollective,
                 CancelCollective, MarkStaleCollective
  <2>2. UNCHANGED <<groups, desc, completions, measured, contributions,
                    submitted, completed, reserved, thrVars>>
    BY <1>14 DEF PlanCollective, DispatchCollective, FailCollective, AbortCollective,
                 CancelCollective, MarkStaleCollective, acctVars
  <2>3. failure' \in [Exec -> BOOLEAN]
    <3>1. CASE FailCollective(e)
      BY <3>1 DEF FailCollective, TypeOK
    <3>2. CASE UNCHANGED failure
      BY <3>2 DEF TypeOK
    <3> QED BY <1>14, <3>1, <3>2 DEF PlanCollective, DispatchCollective, AbortCollective,
                                     CancelCollective, MarkStaleCollective
  <2>4. active' \in Nat /\ aborted' \in Nat
    <3>1. CASE AbortCollective(e)
      BY <3>1 DEF AbortCollective, TypeOK
    <3>2. CASE UNCHANGED <<active, aborted>>
      BY <3>2 DEF TypeOK
    <3> QED BY <1>14, <3>1, <3>2 DEF PlanCollective, DispatchCollective, FailCollective,
                                     CancelCollective, MarkStaleCollective, acctVars
  <2> QED BY <1>3, <2>1, <2>2, <2>3, <2>4
<1> QED BY <1>1, <1>2, <1>4, <1>5, <1>6, <1>7, <1>8, <1>9, <1>10, <1>11, <1>12, <1>13, <1>14
        DEF Next, ThreadStep

\* Every variable of the runtime keeps its type; in particular no accounting
\* counter goes below zero ("Counters never go negative", accounting.hpp).
THEOREM TypeCorrect == Spec => []TypeOK
<1>1. Spec => []BaseInv
  BY TypeInit, TypeNext, PTL DEF Spec
<1> QED BY <1>1, PTL DEF BaseInv

-----------------------------------------------------------------------------
(***************************************************************************)
(* What a step can do to one execution.  Every safety property about       *)
(* outcomes follows from these five shapes.                                *)
(***************************************************************************)
Registers ==
  /\ \E g \in Gen, n \in 1 .. MaxRanks :
       groups[g] = 0 /\ groups' = [groups EXCEPT ![g] = n]
  /\ UNCHANGED <<state, desc, completions>>

Opens(e) ==
  /\ state[e] = "none"
  /\ state' = [state EXCEPT ![e] = "CREATED"]
  /\ \E d \in Descriptor : groups[d.gen] # 0 /\ desc' = [desc EXCEPT ![e] = d]
  /\ UNCHANGED <<groups, completions>>

\* The thread t that enters the engine with e.
Enters(t, e) ==
  job[t] = e /\ pc' = [pc EXCEPT ![t] = "engine"] /\ job' = job

Moves(e) ==
  /\ \E q \in State \ {"SUCCEEDED"} :
       /\ Allowed(state[e], q) /\ state' = [state EXCEPT ![e] = q]
       /\ q = "RUNNING" => \E t \in Thread : Enters(t, e)
  /\ UNCHANGED <<groups, desc, completions>>

Records(e) ==
  /\ state[e] # "none"
  /\ \E R \in SUBSET Rank, q \in State :
       /\ completions' = [completions EXCEPT ![e] = @ \cup R]
       /\ state' = [state EXCEPT ![e] = q]
       /\ \/ q = state[e]
          \/ state[e] = "RUNNING" /\ q = "COMPLETING"
          \/ /\ state[e] \in {"RUNNING", "COMPLETING"}
             /\ q = "SUCCEEDED"
             /\ GroupRanks(e) \subseteq completions[e] \cup R
  /\ UNCHANGED <<groups, desc>>

StepShape ==
  \/ UNCHANGED <<groups, state, desc, completions>>
  \/ Registers
  \/ \E e \in Exec : Opens(e) \/ Moves(e) \/ Records(e)

\* The state complete_rank and execute_collective leave behind.
LEMMA QuorumOutcome ==
  \A s, A, B :
     \/ ApplyQuorum(s, A, B) = s
     \/ s = "COMPLETING" /\ ApplyQuorum(s, A, B) = "SUCCEEDED" /\ B \subseteq A
<1> TAKE s, A, B
<1>1. CASE s = "COMPLETING" /\ B \subseteq A
  <2>1. Allowed("COMPLETING", "SUCCEEDED")
    BY DEF Allowed
  <2>2. ApplyQuorum(s, A, B) = "SUCCEEDED"
    BY <1>1, <2>1 DEF ApplyQuorum, TryTransition
  <2> QED BY <1>1, <2>2
<1>2. CASE ~ (s = "COMPLETING" /\ B \subseteq A)
  BY <1>2 DEF ApplyQuorum
<1> QED BY <1>1, <1>2

LEMMA CompletingOutcome ==
  \A s : \/ TryTransition(s, "COMPLETING") = s
         \/ s = "RUNNING" /\ TryTransition(s, "COMPLETING") = "COMPLETING"
<1> TAKE s
<1>1. CASE Allowed(s, "COMPLETING")
  <2>1. s = "RUNNING"
    BY <1>1 DEF Allowed
  <2> QED BY <1>1, <2>1 DEF TryTransition
<1>2. CASE ~ Allowed(s, "COMPLETING")
  BY <1>2 DEF TryTransition
<1> QED BY <1>1, <1>2

LEMMA StepShapes == BaseInv /\ [Next]_vars => StepShape
<1> SUFFICES ASSUME BaseInv, [Next]_vars PROVE StepShape
  OBVIOUS
<1> USE DEF BaseInv
<1>1. ASSUME NEW g \in Gen, NEW n \in 1 .. MaxRanks, RegisterGroup(g, n)
      PROVE  Registers
  BY <1>1 DEF RegisterGroup, Registers, execVars
<1>2. ASSUME NEW e \in Exec, NEW d \in Descriptor, CreateCollective(e, d)
      PROVE  Opens(e)
  BY <1>2 DEF CreateCollective, Opens
<1>3. ASSUME NEW e \in Exec,
             \/ PlanCollective(e) \/ ReserveCollective(e) \/ DispatchCollective(e)
             \/ FailCollective(e) \/ AbortCollective(e) \/ CancelCollective(e)
             \/ MarkStaleCollective(e)
      PROVE  Moves(e)
  <2>1. PICK q \in {"PLANNED", "RESERVED", "DISPATCHED", "FAILED", "ABORTED",
                    "CANCELLED", "STALE"} : MoveTo(e, q)
    BY <1>3 DEF PlanCollective, ReserveCollective, DispatchCollective, FailCollective,
                AbortCollective, CancelCollective, MarkStaleCollective
  <2>2. q \in State \ {"SUCCEEDED"} /\ q # "RUNNING"
    BY DEF State
  <2>3. UNCHANGED <<groups, desc, completions>>
    BY <1>3 DEF PlanCollective, ReserveCollective, DispatchCollective, FailCollective,
                AbortCollective, CancelCollective, MarkStaleCollective
  <2> QED BY <2>1, <2>2, <2>3 DEF Moves, MoveTo
<1>4. ASSUME NEW e \in Exec, NEW r \in Rank, CompleteRank(e, r)
      PROVE  Records(e)
  <2> DEFINE s == IF state[e] = "RUNNING" THEN TryTransition("RUNNING", "COMPLETING")
                                          ELSE state[e]
             done == completions[e] \cup {r}
             q == ApplyQuorum(s, done, GroupRanks(e))
  <2>1. state[e] \in State
    BY <1>4 DEF CompleteRank, TypeOK, State
  <2>2. s \in State /\ (s = state[e] \/ (state[e] = "RUNNING" /\ s = "COMPLETING"))
    BY <2>1, CompletingOutcome DEF State
  <2>3. q \in State
    BY <2>2, QuorumStates
  <2>4. q = s \/ (s = "COMPLETING" /\ q = "SUCCEEDED" /\ GroupRanks(e) \subseteq done)
    BY QuorumOutcome
  <2>5. /\ state[e] # "none"
        /\ completions' = [completions EXCEPT ![e] = @ \cup {r}]
        /\ UNCHANGED state \/ state' = [state EXCEPT ![e] = q]
        /\ UNCHANGED <<groups, desc>>
    BY <1>4 DEF CompleteRank
  <2>6. CASE UNCHANGED state
    <3>1. state' = [state EXCEPT ![e] = state[e]]
      BY <2>6 DEF TypeOK
    <3> QED BY <2>1, <2>5, <3>1 DEF Records
  <2>7. CASE state' = [state EXCEPT ![e] = q]
    <3>1. \/ q = state[e]
          \/ state[e] = "RUNNING" /\ q = "COMPLETING"
          \/ /\ state[e] \in {"RUNNING", "COMPLETING"}
             /\ q = "SUCCEEDED" /\ GroupRanks(e) \subseteq completions[e] \cup {r}
      BY <2>2, <2>4
    <3> HIDE DEF q, s
    <3> QED BY <2>3, <2>5, <2>7, <3>1 DEF Records
  <2> QED BY <2>5, <2>6, <2>7
<1>5. ASSUME NEW t \in Thread, ExecuteSucceed(t)
      PROVE  \E e \in Exec : Records(e)
  <2> DEFINE e == job[t]
             s == TryTransition(state[e], "COMPLETING")
             done == completions[e] \cup GroupRanks(e)
             q == ApplyQuorum(s, done, GroupRanks(e))
  <2>1. e \in Exec /\ state[e] \in State /\ state[e] # "none"
    BY <1>5 DEF ExecuteSucceed, TypeOK, Working
  <2>2. s \in State /\ (s = state[e] \/ (state[e] = "RUNNING" /\ s = "COMPLETING"))
    BY <2>1, CompletingOutcome DEF State
  <2>3. q \in State
    BY <2>2, QuorumStates
  <2>4. q = s \/ (s = "COMPLETING" /\ q = "SUCCEEDED" /\ GroupRanks(e) \subseteq done)
    BY QuorumOutcome
  <2>5. /\ completions' = [completions EXCEPT ![e] = @ \cup GroupRanks(e)]
        /\ state' = [state EXCEPT ![e] = q]
        /\ UNCHANGED <<groups, desc>>
    BY <1>5, <2>1 DEF ExecuteSucceed, TypeOK
  <2>6. GroupRanks(e) \in SUBSET Rank
    BY GroupRanksType
  <2>7. \/ q = state[e]
        \/ state[e] = "RUNNING" /\ q = "COMPLETING"
        \/ /\ state[e] \in {"RUNNING", "COMPLETING"}
           /\ q = "SUCCEEDED" /\ GroupRanks(e) \subseteq completions[e] \cup GroupRanks(e)
    BY <2>2, <2>4
  <2> HIDE DEF q, s, e
  <2> QED BY <2>1, <2>3, <2>5, <2>6, <2>7 DEF Records
<1>6. ASSUME NEW t \in Thread, ExecuteRun(t)
      PROVE  StepShape
  <2>1. job[t] \in Exec /\ "RUNNING" \in State \ {"SUCCEEDED"}
    BY <1>6 DEF ExecuteRun, Working, TypeOK, State
  <2>2. UNCHANGED <<groups, desc, completions>>
    BY <1>6 DEF ExecuteRun
  <2>3. CASE MoveTo(job[t], "RUNNING") /\ pc' = [pc EXCEPT ![t] = "engine"]
    <3>1. Enters(t, job[t])
      BY <1>6, <2>3 DEF ExecuteRun, Enters
    <3>2. Moves(job[t])
      BY <2>1, <2>2, <2>3, <3>1 DEF MoveTo, Moves
    <3> QED BY <2>1, <3>2 DEF StepShape
  <2>4. CASE UNCHANGED state
    BY <2>2, <2>4 DEF StepShape
  <2> QED BY <1>6, <2>3, <2>4 DEF ExecuteRun
<1>7. ASSUME NEW t \in Thread, ExecuteFail(t)
      PROVE  StepShape
  <2>1. job[t] \in Exec /\ "FAILED" \in State \ {"SUCCEEDED"}
    BY <1>7 DEF ExecuteFail, Working, TypeOK, State
  <2>2. /\ state' = [state EXCEPT ![job[t]] = TryTransition(state[job[t]], "FAILED")]
        /\ UNCHANGED <<groups, desc, completions>>
    BY <1>7, <2>1 DEF ExecuteFail, TypeOK
  <2>3. CASE Allowed(state[job[t]], "FAILED")
    <3>1. Moves(job[t])
      BY <2>1, <2>2, <2>3 DEF TryTransition, Moves
    <3> QED BY <2>1, <3>1 DEF StepShape
  <2>4. CASE ~ Allowed(state[job[t]], "FAILED")
    <3>1. state' = state
      BY <2>1, <2>2, <2>4 DEF TryTransition, TypeOK
    <3> QED BY <2>2, <3>1 DEF StepShape
  <2> QED BY <2>3, <2>4
<1>8. ASSUME \/ UNCHANGED vars
             \/ ActiveRankContribution
             \/ \E e \in Exec : Release(e)
             \/ \E t \in Thread : EngineThrows(t)
             \/ \E t \in Thread, e \in Exec, fit \in BOOLEAN : ExecuteBegin(t, e, fit)
      PROVE  StepShape
  BY <1>8 DEF vars, execVars, ActiveRankContribution, Release, EngineThrows, ExecuteBegin,
              StepShape
<1> QED BY <1>1, <1>2, <1>3, <1>4, <1>5, <1>6, <1>7, <1>8 DEF Next, ThreadStep, StepShape

-----------------------------------------------------------------------------
\* The members of a collective never change once it exists.
LEMMA MembersFixed ==
  ASSUME BaseInv, StepShape, NEW e \in Exec, state[e] # "none"
  PROVE  GroupRanks(e)' = GroupRanks(e) /\ desc'[e] = desc[e]
<1> USE DEF BaseInv
<1>1. desc[e] \in Descriptor /\ desc[e].gen \in Gen /\ groups[desc[e].gen] # 0
  BY DEF Created, Descriptor
<1>2. desc'[e] = desc[e]
  BY DEF StepShape, Registers, Opens, Moves, Records, TypeOK
<1>3. groups'[desc[e].gen] = groups[desc[e].gen]
  BY <1>1 DEF StepShape, Registers, Opens, Moves, Records, TypeOK
<1> QED BY <1>1, <1>2, <1>3 DEF GroupRanks

\* Recorded completions are never forgotten.
LEMMA CompletionsGrow ==
  ASSUME BaseInv, StepShape, NEW e \in Exec
  PROVE  completions[e] \subseteq completions'[e]
BY DEF BaseInv, TypeOK, StepShape, Registers, Opens, Moves, Records

\* A collective that turns SUCCEEDED has its quorum on record.
LEMMA SuccessHasQuorum ==
  ASSUME BaseInv, StepShape, NEW e \in Exec, state'[e] = "SUCCEEDED", state[e] # "SUCCEEDED"
  PROVE  state[e] # "none" /\ GroupRanks(e) \subseteq completions'[e]
<1> USE DEF BaseInv
<1>1. PICK f \in Exec : Opens(f) \/ Moves(f) \/ Records(f)
  BY DEF StepShape, Registers
<1>2. f = e
  BY <1>1 DEF Opens, Moves, Records, TypeOK
<1>3. ~ Opens(e) /\ ~ Moves(e)
  BY DEF Opens, Moves, TypeOK
<1> QED BY <1>1, <1>2, <1>3 DEF Records, TypeOK

\* A collective is SUCCEEDED only with a completion on record for every rank
\* of the group generation it was created for, in every interleaving of
\* execute_collective, complete_rank, fail, abort, cancel and mark_stale.
THEOREM QuorumSafety == Spec => []QuorumBeforeSuccess
<1>1. Init => BaseInv /\ QuorumBeforeSuccess
  BY TypeInit DEF Init, QuorumBeforeSuccess
<1>2. BaseInv /\ QuorumBeforeSuccess /\ [Next]_vars => (BaseInv /\ QuorumBeforeSuccess)'
  <2> SUFFICES ASSUME BaseInv, QuorumBeforeSuccess, [Next]_vars,
                      NEW e \in Exec, state'[e] = "SUCCEEDED"
               PROVE  GroupRanks(e)' \subseteq completions'[e]
    BY TypeNext DEF QuorumBeforeSuccess
  <2>1. StepShape
    BY StepShapes
  <2>2. CASE state[e] = "SUCCEEDED"
    BY <2>1, <2>2, MembersFixed, CompletionsGrow DEF QuorumBeforeSuccess
  <2>3. CASE state[e] # "SUCCEEDED"
    BY <2>1, <2>3, SuccessHasQuorum, MembersFixed
  <2> QED BY <2>2, <2>3
<1> QED BY <1>1, <1>2, PTL DEF Spec

\* A collective that failed, was aborted, cancelled or retired never gets
\* another outcome: late completions cannot bring it back.
THEOREM OutcomesAreFinal == Spec => NoResurrection
<1>1. BaseInv /\ [Next]_vars =>
        [\A e \in Exec : state[e] \in {"FAILED", "ABORTED", "CANCELLED", "STALE"}
                            => state'[e] \in {state[e], "STALE"}]_vars
  <2> SUFFICES ASSUME BaseInv, [Next]_vars, NEW e \in Exec,
                      state[e] \in {"FAILED", "ABORTED", "CANCELLED", "STALE"}
               PROVE  state'[e] \in {state[e], "STALE"}
    OBVIOUS
  <2>1. StepShape
    BY StepShapes
  <2>2. state'[e] = state[e] \/ Moves(e)
    BY <2>1 DEF BaseInv, TypeOK, StepShape, Registers, Opens, Moves, Records
  <2>3. Moves(e) => state'[e] = "STALE"
    BY DEF Moves, Allowed, BaseInv, TypeOK
  <2> QED BY <2>2, <2>3
<1> QED BY <1>1, TypeInit, TypeNext, PTL DEF Spec, NoResurrection

-----------------------------------------------------------------------------
(***************************************************************************)
(* The refinement.  outcomeOf, membersOf are the mapping of Commit.        *)
(***************************************************************************)
outcomeOf == [e \in Exec |-> IF state[e] = "none" THEN "none"
                            ELSE IF IsTerminal(state[e]) THEN state[e] ELSE "pending"]
membersOf == [e \in Exec |-> IF state[e] = "none" THEN {} ELSE GroupRanks(e)]

\* Only the execution a step is about changes its members or its outcome.
LEMMA OthersUnchanged ==
  ASSUME BaseInv, StepShape, NEW e \in Exec, state'[e] = state[e]
  PROVE  outcomeOf'[e] = outcomeOf[e] /\ membersOf'[e] = membersOf[e]
<1>1. CASE state[e] = "none"
  BY <1>1 DEF outcomeOf, membersOf
<1>2. CASE state[e] # "none"
  BY <1>2, MembersFixed DEF outcomeOf, membersOf
<1> QED BY <1>1, <1>2

\* One step on e maps to [f EXCEPT ![e] = f'[e]] on the abstract functions.
LEMMA MappedExcept ==
  ASSUME BaseInv, StepShape, NEW e \in Exec,
         \A x \in Exec \ {e} : state'[x] = state[x]
  PROVE  /\ outcomeOf' = [outcomeOf EXCEPT ![e] = outcomeOf'[e]]
         /\ state[e] # "none" => membersOf' = membersOf
         /\ membersOf' = [membersOf EXCEPT ![e] = membersOf'[e]]
<1>1. \A x \in Exec \ {e} : outcomeOf'[x] = outcomeOf[x] /\ membersOf'[x] = membersOf[x]
  BY OthersUnchanged
<1>2. outcomeOf' = [outcomeOf EXCEPT ![e] = outcomeOf'[e]]
  BY <1>1 DEF outcomeOf
<1>3. membersOf' = [membersOf EXCEPT ![e] = membersOf'[e]]
  BY <1>1 DEF membersOf
<1>4. ASSUME state[e] # "none" PROVE membersOf' = membersOf
  <2>1. state'[e] # "none"
    BY <1>4 DEF StepShape, Registers, Opens, Moves, Records, BaseInv, TypeOK, State
  <2>2. membersOf'[e] = membersOf[e]
    BY <1>4, <2>1, MembersFixed DEF membersOf
  <2> QED BY <1>1, <2>2 DEF membersOf
<1> QED BY <1>2, <1>3, <1>4

LEMMA StepRefines == BaseInv /\ StepShape => [Commit!Next]_(Commit!vars)
<1> SUFFICES ASSUME BaseInv, StepShape PROVE [Commit!Next]_(Commit!vars)
  OBVIOUS
<1>1. CASE UNCHANGED <<state, completions>>
  <2>1. outcomeOf' = outcomeOf /\ membersOf' = membersOf
    <3>1. \A e \in Exec : outcomeOf'[e] = outcomeOf[e] /\ membersOf'[e] = membersOf[e]
      BY <1>1, OthersUnchanged
    <3> QED BY <3>1 DEF outcomeOf, membersOf
  <2> QED BY <1>1, <2>1 DEF Commit!vars, outcomeOf, membersOf
<1>2. ASSUME NEW e \in Exec, Opens(e)
      PROVE  Commit!Open(e)
  <2>1. \A x \in Exec \ {e} : state'[x] = state[x]
    BY <1>2 DEF Opens, BaseInv, TypeOK
  <2>2. state'[e] = "CREATED" /\ state[e] = "none"
    BY <1>2 DEF Opens, BaseInv, TypeOK
  <2>3. outcomeOf[e] = "none" /\ outcomeOf'[e] = "pending"
    BY <2>2 DEF outcomeOf, IsTerminal
  <2>4. membersOf'[e] \in SUBSET Rank /\ membersOf'[e] # {}
    <3>1. PICK d \in Descriptor : groups[d.gen] # 0 /\ desc' = [desc EXCEPT ![e] = d]
      BY <1>2 DEF Opens
    <3>2. desc'[e] = d /\ groups' = groups /\ groups[d.gen] \in 1 .. MaxRanks
      BY <1>2, <3>1, RuntimeAssumption DEF Opens, BaseInv, TypeOK, Descriptor
    <3>3. membersOf'[e] = {r \in Rank : r < groups[d.gen]}
      BY <2>2, <3>2 DEF membersOf, GroupRanks
    <3>4. 0 \in Rank /\ 0 < groups[d.gen]
      BY <3>2, RuntimeAssumption DEF Rank
    <3> QED BY <3>3, <3>4
  <2>5. /\ outcomeOf' = [outcomeOf EXCEPT ![e] = "pending"]
        /\ membersOf' = [membersOf EXCEPT ![e] = membersOf'[e]]
    BY <2>1, <2>3, MappedExcept
  <2>6. completions' = completions
    BY <1>2 DEF Opens
  <2> QED BY <2>3, <2>4, <2>5, <2>6 DEF Commit!Open, outcomeOf, membersOf
<1>3. ASSUME NEW e \in Exec, Moves(e)
      PROVE  Commit!GiveUp(e) \/ Commit!Retire(e) \/ UNCHANGED Commit!vars
  <2>1. PICK q \in State \ {"SUCCEEDED"} :
           Allowed(state[e], q) /\ state' = [state EXCEPT ![e] = q]
    BY <1>3 DEF Moves
  <2>2. (\A x \in Exec \ {e} : state'[x] = state[x]) /\ state'[e] = q
    BY <2>1 DEF BaseInv, TypeOK
  <2>3. completions' = completions
    BY <1>3 DEF Moves
  <2>4. state[e] # "none" /\ q # "none"
    BY <2>1 DEF Allowed, State
  <2>5. /\ outcomeOf' = [outcomeOf EXCEPT ![e] = outcomeOf'[e]]
        /\ membersOf' = membersOf
    BY <2>2, <2>4, MappedExcept
  <2>6. CASE ~ IsTerminal(q)
    <3>1. ~ IsTerminal(state[e])
      BY <2>1, <2>6 DEF Allowed, IsTerminal
    <3>2. outcomeOf'[e] = outcomeOf[e]
      BY <2>2, <2>4, <2>6, <3>1 DEF outcomeOf
    <3>3. outcomeOf' = outcomeOf
      BY <2>5, <3>2 DEF outcomeOf
    <3> QED BY <2>3, <2>5, <3>3 DEF Commit!vars, outcomeOf, membersOf
  <2>7. CASE q \in {"FAILED", "ABORTED", "CANCELLED"}
    <3>1. ~ IsTerminal(state[e])
      BY <2>1, <2>7 DEF Allowed, IsTerminal
    <3>2. outcomeOf[e] = "pending" /\ outcomeOf'[e] = q
      BY <2>2, <2>4, <2>7, <3>1 DEF outcomeOf, IsTerminal
    <3>3. outcomeOf' = [outcomeOf EXCEPT ![e] = q]
      BY <2>5, <3>2
    <3> QED BY <2>3, <2>5, <2>7, <3>2, <3>3 DEF Commit!GiveUp, outcomeOf, membersOf
  <2>8. CASE q = "STALE"
    <3>1. state[e] \in {"SUCCEEDED", "FAILED"}
      BY <2>1, <2>8 DEF Allowed
    <3>2. outcomeOf[e] \in {"SUCCEEDED", "FAILED"} /\ outcomeOf'[e] = "STALE"
      BY <2>2, <2>4, <2>8, <3>1 DEF outcomeOf, IsTerminal
    <3>3. outcomeOf' = [outcomeOf EXCEPT ![e] = "STALE"]
      BY <2>5, <3>2
    <3> QED BY <2>3, <2>5, <3>2, <3>3 DEF Commit!Retire, outcomeOf, membersOf
  <2> QED BY <2>6, <2>7, <2>8 DEF IsTerminal
<1>4. ASSUME NEW e \in Exec, Records(e)
      PROVE  Commit!Arrive(e)
  <2>1. PICK R \in SUBSET Rank, q \in State :
          /\ completions' = [completions EXCEPT ![e] = @ \cup R]
          /\ state' = [state EXCEPT ![e] = q]
          /\ \/ q = state[e]
             \/ state[e] = "RUNNING" /\ q = "COMPLETING"
             \/ /\ state[e] \in {"RUNNING", "COMPLETING"}
                /\ q = "SUCCEEDED"
                /\ GroupRanks(e) \subseteq completions[e] \cup R
    BY <1>4 DEF Records
  <2>2. (\A x \in Exec \ {e} : state'[x] = state[x]) /\ state'[e] = q
    BY <2>1 DEF BaseInv, TypeOK
  <2>3. state[e] # "none" /\ q # "none"
    BY <1>4 DEF Records, State
  <2>4. /\ outcomeOf' = [outcomeOf EXCEPT ![e] = outcomeOf'[e]]
        /\ membersOf' = membersOf
    BY <2>2, <2>3, MappedExcept
  <2>5. outcomeOf[e] # "none"
    BY <2>3 DEF outcomeOf, IsTerminal
  <2>6. CASE q = state[e] \/ (state[e] = "RUNNING" /\ q = "COMPLETING")
    <3>1. outcomeOf'[e] = outcomeOf[e]
      BY <2>2, <2>3, <2>6 DEF outcomeOf, IsTerminal
    <3>2. outcomeOf' = outcomeOf
      BY <2>4, <3>1 DEF outcomeOf
    <3> QED BY <2>1, <2>4, <2>5, <3>2 DEF Commit!Arrive, outcomeOf, membersOf
  <2>7. CASE /\ state[e] \in {"RUNNING", "COMPLETING"}
             /\ q = "SUCCEEDED"
             /\ GroupRanks(e) \subseteq completions[e] \cup R
    <3>1. outcomeOf[e] = "pending" /\ outcomeOf'[e] = "SUCCEEDED"
      BY <2>2, <2>3, <2>7 DEF outcomeOf, IsTerminal
    <3>2. outcomeOf' = [outcomeOf EXCEPT ![e] = "SUCCEEDED"]
      BY <2>4, <3>1
    <3>3. completions'[e] = completions[e] \cup R
      BY <2>1 DEF BaseInv, TypeOK
    <3>4. membersOf[e] \subseteq completions'[e]
      BY <2>3, <2>7, <3>3 DEF membersOf
    <3> QED BY <2>1, <2>4, <2>5, <3>1, <3>2, <3>4 DEF Commit!Arrive, outcomeOf, membersOf
  <2> QED BY <2>1, <2>6, <2>7
<1> QED BY <1>1, <1>2, <1>3, <1>4 DEF StepShape, Registers, Commit!Next

\* The runtime implements the abstract quorum commit: initial states map to
\* initial states and every step maps to a step of QuorumCommit or to none.
THEOREM Refinement == Spec => ImplementsQuorumCommit
<1>1. Init => Commit!Init
  BY DEF Init, Commit!Init, IsTerminal
<1>2. BaseInv /\ [Next]_vars => [Commit!Next]_(Commit!vars)
  BY StepShapes, StepRefines
<1> QED BY <1>1, <1>2, TypeInit, TypeNext, PTL DEF Spec, ImplementsQuorumCommit, Commit!Spec

-----------------------------------------------------------------------------
\* What is started is active, completed or aborted, whichever operation
\* throws half way.
THEOREM AccountingBalances == Spec => []AccountingConserved
<1>1. Init => AccountingConserved
  BY DEF Init, AccountingConserved
<1>2. BaseInv /\ AccountingConserved /\ [Next]_vars => AccountingConserved'
  <2> SUFFICES ASSUME BaseInv, AccountingConserved, [Next]_vars
               PROVE  AccountingConserved'
    OBVIOUS
  <2> USE DEF BaseInv, TypeOK, AccountingConserved
  <2>1. CASE UNCHANGED <<submitted, active, completed, aborted>>
    BY <2>1
  <2>2. ASSUME NEW e \in Exec, ReserveCollective(e) PROVE AccountingConserved'
    BY <2>2 DEF ReserveCollective
  <2>3. ASSUME NEW e \in Exec, AbortCollective(e) PROVE AccountingConserved'
    BY <2>3 DEF AbortCollective
  <2>4. ASSUME NEW t \in Thread, ExecuteSucceed(t) PROVE AccountingConserved'
    BY <2>4 DEF ExecuteSucceed
  <2>5. \/ UNCHANGED <<submitted, active, completed, aborted>>
        \/ \E e \in Exec : ReserveCollective(e) \/ AbortCollective(e)
        \/ \E t \in Thread : ExecuteSucceed(t)
    BY DEF Next, ThreadStep, vars, acctVars, RegisterGroup, CreateCollective, PlanCollective,
           DispatchCollective, FailCollective, CancelCollective, MarkStaleCollective, Release,
           CompleteRank, ActiveRankContribution, ExecuteBegin, ExecuteRun, EngineThrows,
           ExecuteFail
  <2> QED BY <2>1, <2>2, <2>3, <2>4, <2>5
<1> QED BY <1>1, <1>2, TypeInit, TypeNext, PTL DEF Spec

-----------------------------------------------------------------------------
(***************************************************************************)
(* The threads of execute_collective.                                      *)
(***************************************************************************)
ThreadsIdle == UNCHANGED <<pc, job, measured>>

\* Only execute_collective changes the threads and the measurements.
LEMMA ThreadCases ==
  [Next]_vars =>
    \/ ThreadsIdle
    \/ \E t \in Thread, e \in Exec, fit \in BOOLEAN : ExecuteBegin(t, e, fit)
    \/ \E t \in Thread : ThreadStep(t)
BY DEF Next, vars, execVars, thrVars, ThreadsIdle, RegisterGroup, CreateCollective,
       PlanCollective, ReserveCollective, DispatchCollective, FailCollective,
       AbortCollective, CancelCollective, MarkStaleCollective, Release, CompleteRank,
       ActiveRankContribution

\* No transition leads back before RUNNING.
LEMMA NeverBack ==
  ASSUME BaseInv, StepShape, NEW e \in Exec, state'[e] \in PreRun
  PROVE  state[e] \in PreRun
<1> USE DEF BaseInv, TypeOK, PreRun
<1>1. CASE state'[e] = state[e]
  BY <1>1
<1>2. CASE Opens(e)
  BY <1>2 DEF Opens
<1>3. CASE Moves(e)
  BY <1>3 DEF Moves, Allowed
<1>4. CASE Records(e)
  BY <1>4 DEF Records
<1>5. state'[e] = state[e] \/ Opens(e) \/ Moves(e) \/ Records(e)
  BY DEF StepShape, Registers, Opens, Moves, Records
<1> QED BY <1>1, <1>2, <1>3, <1>4, <1>5

RunInv == BaseInv /\ RunOnce /\ AtMostOneRun

LEMMA RunNext == RunInv /\ [Next]_vars => RunInv'
<1> SUFFICES ASSUME RunInv, [Next]_vars PROVE RunInv'
  OBVIOUS
<1> USE DEF RunInv
<1>1. BaseInv' /\ StepShape
  BY TypeNext, StepShapes
<1>2. \A e \in Exec : state'[e] \in PreRun => state[e] \in PreRun
  BY <1>1, NeverBack
<1>3. \A t \in Thread : pc[t] = "engine" => job[t] \in Exec
  BY DEF BaseInv, Working
<1>4. CASE ThreadsIdle
  BY <1>1, <1>2, <1>3, <1>4 DEF ThreadsIdle, RunOnce, AtMostOneRun
<1>5. ASSUME NEW t \in Thread,
             pc' = [pc EXCEPT ![t] = pc'[t]], pc'[t] # "engine",
             \A u \in Thread \ {t} : job'[u] = job[u],
             measured' = measured
      PROVE  RunInv'
  <2>1. \A u \in Thread : pc'[u] = "engine" => u # t /\ pc[u] = "engine" /\ job'[u] = job[u]
    BY <1>5 DEF BaseInv, TypeOK
  <2>2. RunOnce'
    BY <1>2, <1>3, <1>5, <2>1 DEF RunOnce
  <2>3. AtMostOneRun'
    BY <1>5, <2>1 DEF AtMostOneRun
  <2> QED BY <1>1, <2>2, <2>3
<1>6. ASSUME NEW t \in Thread, NEW e \in Exec, NEW fit \in BOOLEAN, ExecuteBegin(t, e, fit)
      PROVE  RunInv'
  <2>1. /\ pc' = [pc EXCEPT ![t] = pc'[t]] /\ pc'[t] # "engine"
        /\ (\A u \in Thread \ {t} : job'[u] = job[u]) /\ measured' = measured
    BY <1>6 DEF ExecuteBegin, execVars, BaseInv, TypeOK
  <2> QED BY <1>5, <2>1
<1>7. ASSUME NEW t \in Thread, EngineThrows(t) \/ ExecuteFail(t)
      PROVE  RunInv'
  <2>1. /\ pc' = [pc EXCEPT ![t] = pc'[t]] /\ pc'[t] # "engine"
        /\ (\A u \in Thread \ {t} : job'[u] = job[u]) /\ measured' = measured
    BY <1>7 DEF EngineThrows, ExecuteFail, execVars, BaseInv, TypeOK
  <2> QED BY <1>5, <2>1
<1>8. ASSUME NEW t \in Thread, ExecuteRun(t)
      PROVE  RunInv'
  <2>1. CASE ~ Allowed(state[job[t]], "RUNNING") /\ pc' = [pc EXCEPT ![t] = "failing"]
    <3>1. /\ pc' = [pc EXCEPT ![t] = pc'[t]] /\ pc'[t] # "engine"
          /\ (\A u \in Thread \ {t} : job'[u] = job[u]) /\ measured' = measured
      BY <1>8, <2>1 DEF ExecuteRun, BaseInv, TypeOK
    <3> QED BY <1>5, <3>1
  <2>2. CASE MoveTo(job[t], "RUNNING") /\ pc' = [pc EXCEPT ![t] = "engine"]
    <3>1. job[t] \in Exec /\ job' = job /\ measured' = measured
      BY <1>8 DEF ExecuteRun, BaseInv, Working
    <3>2. state[job[t]] = "DISPATCHED" /\ state'[job[t]] = "RUNNING"
      BY <2>2, <3>1 DEF MoveTo, Allowed, BaseInv, TypeOK
    <3>3. measured[job[t]] = 0
      BY <3>1, <3>2 DEF RunOnce, PreRun
    <3>4. \A u \in Thread : pc[u] = "engine" => job[u] # job[t]
      BY <3>2 DEF RunOnce, PreRun
    <3>5. \A u \in Thread : pc'[u] = "engine" <=> (u = t \/ pc[u] = "engine")
      BY <2>2 DEF BaseInv, TypeOK
    <3>6. RunOnce'
      BY <1>2, <1>3, <3>1, <3>2, <3>5 DEF RunOnce, PreRun
    <3>7. AtMostOneRun'
      BY <3>1, <3>3, <3>4, <3>5 DEF AtMostOneRun
    <3> QED BY <1>1, <3>6, <3>7
  <2> QED BY <1>8, <2>1, <2>2 DEF ExecuteRun
<1>9. ASSUME NEW t \in Thread, ExecuteSucceed(t)
      PROVE  RunInv'
  <2>1. /\ pc[t] = "engine" /\ job[t] \in Exec
        /\ pc' = [pc EXCEPT ![t] = "idle"]
        /\ job' = [job EXCEPT ![t] = None]
        /\ measured' = [measured EXCEPT ![job[t]] = @ + 1]
    BY <1>9 DEF ExecuteSucceed, BaseInv, Working
  <2>2. \A u \in Thread : pc'[u] = "engine" =>
          u # t /\ pc[u] = "engine" /\ job'[u] = job[u] /\ job[u] # job[t]
    BY <2>1 DEF AtMostOneRun, BaseInv, TypeOK
  <2>3. measured'[job[t]] = 1
    BY <2>1 DEF AtMostOneRun, BaseInv, TypeOK
  <2>4. \A e \in Exec : e # job[t] => measured'[e] = measured[e]
    BY <2>1 DEF BaseInv, TypeOK
  <2>5. state[job[t]] \notin PreRun
    BY <2>1 DEF RunOnce
  <2>6. RunOnce'
    BY <1>2, <1>3, <2>1, <2>2, <2>4, <2>5 DEF RunOnce
  <2>7. AtMostOneRun'
    BY <1>3, <2>2, <2>3, <2>4 DEF AtMostOneRun
  <2> QED BY <1>1, <2>6, <2>7
<1> QED BY <1>4, <1>6, <1>7, <1>8, <1>9, ThreadCases DEF ThreadStep

\* Concurrent and repeated calls of execute_collective take a collective
\* through the engine at most once and write at most one measurement for it.
THEOREM SingleRun == Spec => []AtMostOneRun
<1>1. Init => RunInv
  <2> SUFFICES ASSUME Init PROVE RunOnce /\ AtMostOneRun
    BY TypeInit DEF RunInv
  <2> QED BY DEF Init, RunOnce, AtMostOneRun
<1> QED BY <1>1, RunNext, PTL DEF Spec, RunInv

-----------------------------------------------------------------------------
InFlight == {"RUNNING", "COMPLETING"}

Holds(t, e) == job[t] = e /\ pc[t] \in {"engine", "failing"}

\* Only a thread that enters the engine puts a collective in flight.
LEMMA InFlightOnlyByRun ==
  ASSUME BaseInv, StepShape, NEW e \in Exec,
         state'[e] \in InFlight, state[e] \notin InFlight
  PROVE  \E t \in Thread : Enters(t, e)
<1> USE DEF BaseInv, TypeOK, InFlight
<1>1. Opens(e) \/ Moves(e) \/ Records(e)
  BY DEF StepShape, Registers, Opens, Moves, Records
<1>2. ~ Opens(e) /\ ~ Records(e)
  BY DEF Opens, Records
<1>3. PICK q \in State \ {"SUCCEEDED"} :
        /\ Allowed(state[e], q) /\ state' = [state EXCEPT ![e] = q]
        /\ q = "RUNNING" => \E t \in Thread : Enters(t, e)
  BY <1>1, <1>2 DEF Moves
<1>4. q \in InFlight
  BY <1>3
<1>5. q # "COMPLETING"
  BY <1>3 DEF Allowed
<1> QED BY <1>3, <1>4, <1>5

\* A finished engine run takes an in-flight collective to its outcome.
LEMMA FinishEnds ==
  ASSUME BaseInv, NEW t \in Thread, ExecuteSucceed(t) \/ ExecuteFail(t)
  PROVE  job[t] \in Exec /\ state'[job[t]] \notin InFlight
<1> USE DEF BaseInv
<1>1. job[t] \in Exec /\ state[job[t]] \in State
  BY DEF ExecuteSucceed, ExecuteFail, Working, TypeOK
<1>2. CASE ExecuteFail(t)
  <2>1. state'[job[t]] = TryTransition(state[job[t]], "FAILED")
    BY <1>1, <1>2 DEF ExecuteFail, TypeOK
  <2> QED BY <1>1, <2>1 DEF TryTransition, Allowed, InFlight
<1>3. CASE ExecuteSucceed(t)
  <2> DEFINE e == job[t]
             s == TryTransition(state[e], "COMPLETING")
             done == completions[e] \cup GroupRanks(e)
  <2>1. state'[e] = ApplyQuorum(s, done, GroupRanks(e))
    BY <1>1, <1>3 DEF ExecuteSucceed, TypeOK
  <2>2. GroupRanks(e) \subseteq done
    OBVIOUS
  <2>3. Allowed("RUNNING", "COMPLETING") /\ Allowed("COMPLETING", "SUCCEEDED")
    BY DEF Allowed
  <2>4. s # "RUNNING"
    BY <2>3 DEF TryTransition
  <2>5. s = "COMPLETING" => state'[e] = "SUCCEEDED"
    <3> HIDE DEF s, done
    <3> QED BY <2>1, <2>2, <2>3 DEF ApplyQuorum, TryTransition
  <2>6. s # "COMPLETING" => state'[e] = s
    <3> HIDE DEF s, done
    <3> QED BY <2>1 DEF ApplyQuorum
  <2> HIDE DEF s
  <2> QED BY <1>1, <2>4, <2>5, <2>6 DEF InFlight
<1> QED BY <1>1, <1>2, <1>3

LEMMA ExecutorNext ==
  BaseInv /\ InFlightHasExecutor /\ [Next]_vars => InFlightHasExecutor'
<1> SUFFICES ASSUME BaseInv, InFlightHasExecutor, [Next]_vars,
                    NEW e \in Exec, state'[e] \in InFlight
             PROVE  \E t \in Thread : Holds(t, e)'
  BY DEF InFlightHasExecutor, InFlight, Holds
<1> USE DEF BaseInv
<1>1. StepShape
  BY StepShapes
<1>2. CASE state[e] \notin InFlight
  <2>1. PICK t \in Thread : Enters(t, e)
    BY <1>1, <1>2, InFlightOnlyByRun
  <2> QED BY <2>1 DEF Enters, Holds, TypeOK
<1>3. CASE state[e] \in InFlight
  <2>1. PICK t \in Thread : Holds(t, e)
    BY <1>3 DEF InFlightHasExecutor, InFlight, Holds
  <2>2. CASE ThreadsIdle
    BY <2>1, <2>2 DEF ThreadsIdle, Holds
  <2>3. ASSUME NEW u \in Thread, NEW x \in Exec, NEW fit \in BOOLEAN, ExecuteBegin(u, x, fit)
        PROVE  Holds(t, e)'
    <3>1. u # t
      BY <2>1, <2>3 DEF ExecuteBegin, Holds
    <3> QED BY <2>1, <2>3, <3>1 DEF ExecuteBegin, Holds, TypeOK
  <2>4. ASSUME NEW u \in Thread, ExecuteRun(u) \/ EngineThrows(u)
        PROVE  Holds(t, e)'
    BY <2>1, <2>4 DEF ExecuteRun, EngineThrows, Holds, TypeOK
  <2>5. ASSUME NEW u \in Thread, ExecuteSucceed(u) \/ ExecuteFail(u)
        PROVE  Holds(t, e)'
    <3>1. u # t
      BY <2>1, <2>5, FinishEnds DEF Holds
    <3>2. pc'[t] = pc[t] /\ job'[t] = job[t]
      BY <2>5, <3>1 DEF ExecuteSucceed, ExecuteFail, TypeOK
    <3> QED BY <2>1, <3>2 DEF Holds
  <2> QED BY <2>2, <2>3, <2>4, <2>5, <2>1, ThreadCases DEF ThreadStep
<1> QED BY <1>2, <1>3

\* No interleaving strands a collective: while it is RUNNING or COMPLETING, a
\* thread inside execute_collective still has to deliver its outcome.
THEOREM NeverStranded == Spec => []InFlightHasExecutor
<1>1. Init => InFlightHasExecutor
  BY DEF Init, InFlightHasExecutor
<1> QED BY <1>1, TypeInit, TypeNext, ExecutorNext, PTL DEF Spec

-----------------------------------------------------------------------------
(***************************************************************************)
(* Outcome and record.                                                     *)
(***************************************************************************)

\* An outcome stays an outcome, although SUCCEEDED and FAILED may turn STALE.
LEMMA TerminalStays ==
  ASSUME BaseInv, StepShape, NEW e \in Exec, IsTerminal(state[e])
  PROVE  IsTerminal(state'[e])
<1> USE DEF BaseInv, TypeOK, IsTerminal
<1>1. CASE state'[e] = state[e]
  BY <1>1
<1>2. CASE Opens(e) \/ Moves(e) \/ Records(e)
  BY <1>2 DEF Opens, Moves, Records, Allowed
<1>3. state'[e] = state[e] \/ Opens(e) \/ Moves(e) \/ Records(e)
  BY DEF StepShape, Registers, Opens, Moves, Records
<1> QED BY <1>1, <1>2, <1>3

\* SUCCEEDED is reached from RUNNING or COMPLETING only.
LEMMA SuccessFromFlight ==
  ASSUME BaseInv, StepShape, NEW e \in Exec, state'[e] = "SUCCEEDED", state[e] # "SUCCEEDED"
  PROVE  state[e] \in InFlight
<1> USE DEF BaseInv, TypeOK, InFlight
<1>1. Opens(e) \/ Moves(e) \/ Records(e)
  BY DEF StepShape, Registers, Opens, Moves, Records
<1>2. ~ Opens(e) /\ ~ Moves(e)
  BY DEF Opens, Moves
<1> QED BY <1>1, <1>2 DEF Records

\* Failures and measurements are never taken back.
LEMMA RecordsGrow ==
  ASSUME BaseInv, [Next]_vars, NEW e \in Exec
  PROVE  /\ failure[e] => failure'[e]
         /\ measured'[e] >= measured[e]
<1> USE DEF BaseInv
<1>1. failure[e] => failure'[e]
  <2>1. \/ failure' = failure
        \/ \E f : failure' = [failure EXCEPT ![f] = TRUE]
    BY DEF Next, ThreadStep, vars, execVars, RegisterGroup, CreateCollective, PlanCollective,
           ReserveCollective, DispatchCollective, FailCollective, AbortCollective,
           CancelCollective, MarkStaleCollective, Release, CompleteRank,
           ActiveRankContribution, ExecuteBegin, ExecuteRun, EngineThrows, ExecuteFail,
           ExecuteSucceed
  <2> QED BY <2>1, Zenon DEF TypeOK
<1>2. measured'[e] >= measured[e]
  <2>1. CASE measured' = measured
    BY <2>1 DEF TypeOK
  <2>2. ASSUME NEW t \in Thread, ExecuteSucceed(t) PROVE measured'[e] >= measured[e]
    BY <2>2 DEF ExecuteSucceed, TypeOK, Working
  <2>3. measured' = measured \/ \E t \in Thread : ExecuteSucceed(t)
    BY ThreadCases DEF ThreadsIdle, ThreadStep, ExecuteBegin, ExecuteRun, EngineThrows,
                       ExecuteFail, execVars
  <2> QED BY <2>1, <2>2, <2>3
<1> QED BY <1>1, <1>2

\* The thread that holds a collective keeps it or leaves a record.
LEMMA HolderDelivers ==
  ASSUME RunInv, [Next]_vars, NEW e \in Exec, NEW t \in Thread, Holds(t, e)
  PROVE  Holds(t, e)' \/ failure'[e] \/ measured'[e] > 0
<1> USE DEF RunInv, BaseInv
<1>1. CASE ThreadsIdle
  BY <1>1 DEF ThreadsIdle, Holds
<1>2. ASSUME NEW u \in Thread, NEW x \in Exec, NEW fit \in BOOLEAN, ExecuteBegin(u, x, fit)
      PROVE  Holds(t, e)'
  <2>1. u # t
    BY <1>2 DEF ExecuteBegin, Holds
  <2> QED BY <1>2, <2>1 DEF ExecuteBegin, Holds, TypeOK
<1>3. ASSUME NEW u \in Thread, ExecuteRun(u) \/ EngineThrows(u)
      PROVE  Holds(t, e)'
  BY <1>3 DEF ExecuteRun, EngineThrows, Holds, TypeOK
<1>4. ASSUME NEW u \in Thread, ExecuteSucceed(u) \/ ExecuteFail(u), u # t
      PROVE  Holds(t, e)'
  BY <1>4 DEF ExecuteSucceed, ExecuteFail, Holds, TypeOK
<1>5. CASE ExecuteSucceed(t)
  BY <1>5 DEF ExecuteSucceed, Holds, TypeOK
<1>6. CASE ExecuteFail(t)
  <2>1. failure' = [failure EXCEPT ![e] = TRUE]
    BY <1>6 DEF ExecuteFail, Holds
  <2> QED BY <2>1, Zenon DEF TypeOK
<1> QED BY <1>1, <1>2, <1>3, <1>4, <1>5, <1>6, ThreadCases DEF ThreadStep

RecordInv == RunInv /\ InFlightHasExecutor /\ SuccessIsDocumented

LEMMA RecordNext == RecordInv /\ [Next]_vars => RecordInv'
<1> SUFFICES ASSUME RecordInv, [Next]_vars PROVE SuccessIsDocumented'
  BY RunNext, ExecutorNext DEF RecordInv, RunInv
<1> USE DEF RecordInv, RunInv
<1>1. StepShape
  BY StepShapes
<1>2. ASSUME NEW e \in Exec, state'[e] = "SUCCEEDED"
      PROVE  measured'[e] > 0 \/ failure'[e] \/ \E t \in Thread : Holds(t, e)'
  <2>1. measured[e] \in Nat /\ measured'[e] \in Nat
    BY TypeNext DEF BaseInv, TypeOK
  <2>2. measured[e] > 0 \/ failure[e] \/ \E t \in Thread : Holds(t, e)
    <3>1. CASE state[e] = "SUCCEEDED"
      BY <3>1 DEF SuccessIsDocumented, Holds
    <3>2. CASE state[e] # "SUCCEEDED"
      <4>1. state[e] \in {"RUNNING", "COMPLETING"}
        BY <1>1, <1>2, <3>2, SuccessFromFlight DEF InFlight
      <4> QED BY <4>1 DEF InFlightHasExecutor, Holds
    <3> QED BY <3>1, <3>2
  <2>3. CASE measured[e] > 0
    BY <2>1, <2>3, RecordsGrow
  <2>4. CASE failure[e]
    BY <2>4, RecordsGrow
  <2>5. ASSUME NEW t \in Thread, Holds(t, e)
        PROVE  measured'[e] > 0 \/ failure'[e] \/ \E u \in Thread : Holds(u, e)'
    BY <2>5, HolderDelivers
  <2> QED BY <2>2, <2>3, <2>4, <2>5
<1>3. ASSUME NEW e \in Exec, measured'[e] > 0
      PROVE  IsTerminal(state'[e]) /\ GroupRanks(e)' \subseteq completions'[e]
  <2>1. CASE measured[e] > 0
    <3>1. IsTerminal(state[e]) /\ GroupRanks(e) \subseteq completions[e]
      BY <2>1 DEF SuccessIsDocumented
    <3>2. state[e] # "none"
      BY <3>1 DEF IsTerminal
    <3> QED BY <1>1, <3>1, <3>2, TerminalStays, MembersFixed, CompletionsGrow
  <2>2. CASE ~ (measured[e] > 0)
    <3>1. measured' = measured \/ \E t \in Thread : ExecuteSucceed(t)
      BY ThreadCases DEF ThreadsIdle, ThreadStep, ExecuteBegin, ExecuteRun, EngineThrows,
                         ExecuteFail, execVars
    <3>2. PICK t \in Thread : ExecuteSucceed(t)
      BY <1>3, <2>2, <3>1
    <3>3. job[t] \in Exec /\ pc[t] = "engine"
      BY <3>2 DEF ExecuteSucceed, BaseInv, Working
    <3>4. job[t] = e
      BY <1>3, <2>2, <3>2, <3>3 DEF ExecuteSucceed, BaseInv, TypeOK
    <3>5. state'[e] \notin InFlight
      BY <3>2, <3>4, FinishEnds
    <3>6. state'[e] \notin PreRun
      BY <1>1, <3>3, <3>4, NeverBack DEF RunOnce
    <3>7. state'[e] \in State \cup {"none"}
      BY TypeNext DEF BaseInv, TypeOK
    <3>8. IsTerminal(state'[e])
      BY <3>5, <3>6, <3>7 DEF State, InFlight, PreRun, IsTerminal
    <3>9. GroupRanks(e) \subseteq completions'[e]
      BY <3>2, <3>4 DEF ExecuteSucceed, BaseInv, TypeOK
    <3>10. state[e] # "none"
      BY <3>3, <3>4 DEF RunOnce, PreRun
    <3> QED BY <1>1, <3>8, <3>9, <3>10, MembersFixed
  <2> QED BY <2>1, <2>2
<1> QED BY <1>2, <1>3 DEF SuccessIsDocumented, Holds

LEMMA RecordInit == Init => RecordInv
<1> SUFFICES ASSUME Init PROVE RunOnce /\ AtMostOneRun /\ InFlightHasExecutor /\ SuccessIsDocumented
  BY TypeInit DEF RecordInv, RunInv
<1> QED BY DEF Init, RunOnce, AtMostOneRun, InFlightHasExecutor, SuccessIsDocumented

\* A success never lacks both its result and an explanation, and a measured
\* collective has ended with every rank on record, whichever of complete_rank
\* and execute_collective came first and whatever ended it meanwhile.
THEOREM SuccessDocumented == Spec => []SuccessIsDocumented
<1> QED BY RecordInit, RecordNext, PTL DEF Spec, RecordInv

-----------------------------------------------------------------------------
(***************************************************************************)
(* Teardown.  The counter is shared by all collectives, so its bound is a  *)
(* cardinality: each unit of active_collectives_ can be charged to a       *)
(* collective that was reserved, or ended, without a measurement.          *)
(***************************************************************************)
Unclosed == {e \in Exec : state[e] \notin {"none", "CREATED", "PLANNED"} /\ measured[e] = 0}

ActiveBounded == active <= Cardinality(Unclosed)

\* No transition leads back before RESERVED.
LEMMA NeverUnreserved ==
  ASSUME BaseInv, StepShape, NEW e \in Exec,
         state[e] \notin {"none", "CREATED", "PLANNED"}
  PROVE  state'[e] \notin {"none", "CREATED", "PLANNED"}
<1> USE DEF BaseInv, TypeOK
<1>1. CASE state'[e] = state[e]
  BY <1>1
<1>2. CASE Opens(e) \/ Moves(e) \/ Records(e)
  BY <1>2 DEF Opens, Moves, Records, Allowed
<1>3. state'[e] = state[e] \/ Opens(e) \/ Moves(e) \/ Records(e)
  BY DEF StepShape, Registers, Opens, Moves, Records
<1> QED BY <1>1, <1>2, <1>3

LEMMA UnclosedFinite ==
  IsFiniteSet(Unclosed) /\ Cardinality(Unclosed) \in Nat
<1>1. Unclosed \subseteq Exec
  BY DEF Unclosed
<1>2. IsFiniteSet(Unclosed)
  BY <1>1, RuntimeAssumption, FS_Subset
<1> QED BY <1>2, FS_CardinalityType

LEMMA ActiveNext == RunInv /\ ActiveBounded /\ [Next]_vars => ActiveBounded'
<1> SUFFICES ASSUME RunInv, ActiveBounded, [Next]_vars PROVE ActiveBounded'
  OBVIOUS
<1> USE DEF RunInv
<1>1. BaseInv' /\ StepShape
  BY TypeNext, StepShapes
<1>2. /\ IsFiniteSet(Unclosed) /\ Cardinality(Unclosed) \in Nat
      /\ IsFiniteSet(Unclosed') /\ Cardinality(Unclosed') \in Nat
  <2>1. Unclosed' \subseteq Exec
    BY DEF Unclosed
  <2>2. IsFiniteSet(Unclosed')
    BY <2>1, RuntimeAssumption, FS_Subset
  <2> QED BY <2>2, UnclosedFinite, FS_CardinalityType
<1>3. active \in Nat /\ active' \in Nat
  BY <1>1 DEF BaseInv, TypeOK
<1>4. CASE measured' = measured /\ active' <= active
  <2>1. Unclosed \subseteq Unclosed'
    BY <1>1, <1>4, NeverUnreserved DEF Unclosed
  <2>2. Cardinality(Unclosed) <= Cardinality(Unclosed')
    BY <1>2, <2>1, FS_Subset
  <2> QED BY <1>2, <1>3, <1>4, <2>2 DEF ActiveBounded
<1>5. ASSUME NEW e \in Exec, ReserveCollective(e) PROVE ActiveBounded'
  <2>1. /\ state[e] = "PLANNED" /\ state'[e] = "RESERVED"
        /\ measured' = measured /\ active' <= active + 1
    BY <1>3, <1>5 DEF ReserveCollective, MoveTo, Allowed, BaseInv, TypeOK
  <2>2. measured[e] = 0
    BY <2>1 DEF RunOnce, PreRun
  <2>3. e \notin Unclosed /\ Unclosed \cup {e} \subseteq Unclosed'
    BY <1>1, <2>1, <2>2, NeverUnreserved DEF Unclosed
  <2>4. Cardinality(Unclosed \cup {e}) = Cardinality(Unclosed) + 1
    BY <1>2, <2>3, FS_AddElement
  <2>5. Cardinality(Unclosed \cup {e}) <= Cardinality(Unclosed')
    BY <1>2, <2>3, FS_Subset
  <2> QED BY <1>2, <1>3, <2>1, <2>4, <2>5 DEF ActiveBounded
<1>6. ASSUME NEW t \in Thread, ExecuteSucceed(t) PROVE ActiveBounded'
  <2> DEFINE e == job[t]
  <2>1. e \in Exec /\ pc[t] = "engine"
    BY <1>6 DEF ExecuteSucceed, BaseInv, Working
  <2>2. /\ measured' = [measured EXCEPT ![e] = @ + 1]
        /\ active' = active - 1 \/ active' = 0
    BY <1>6 DEF ExecuteSucceed
  <2>3. \A x \in Exec \ {e} : measured'[x] = measured[x]
    BY <2>1, <2>2 DEF BaseInv, TypeOK
  <2>4. Unclosed \ {e} \subseteq Unclosed'
    BY <1>1, <2>1, <2>3, NeverUnreserved DEF Unclosed
  <2>5. e \in Unclosed
    BY <2>1 DEF Unclosed, RunOnce, AtMostOneRun, PreRun
  <2>6. IsFiniteSet(Unclosed \ {e}) /\ Cardinality(Unclosed \ {e}) = Cardinality(Unclosed) - 1
    BY <1>2, <2>5, FS_RemoveElement
  <2>7. Cardinality(Unclosed \ {e}) <= Cardinality(Unclosed')
    BY <1>2, <2>4, FS_Subset
  <2> QED BY <1>2, <1>3, <2>2, <2>6, <2>7 DEF ActiveBounded
<1>7. \/ measured' = measured /\ active' <= active
      \/ \E e \in Exec : ReserveCollective(e)
      \/ \E t \in Thread : ExecuteSucceed(t)
  <2>1. ASSUME NEW e \in Exec, AbortCollective(e) PROVE measured' = measured /\ active' <= active
    BY <1>3, <2>1 DEF AbortCollective
  <2>2. \/ UNCHANGED <<measured, active>>
        \/ \E e \in Exec : ReserveCollective(e) \/ AbortCollective(e)
        \/ \E t \in Thread : ExecuteSucceed(t)
    BY DEF Next, ThreadStep, vars, execVars, acctVars, RegisterGroup, CreateCollective,
           PlanCollective, DispatchCollective, FailCollective, CancelCollective,
           MarkStaleCollective, Release, CompleteRank, ActiveRankContribution, ExecuteBegin,
           ExecuteRun, EngineThrows, ExecuteFail
  <2> QED BY <1>3, <2>1, <2>2
<1> QED BY <1>4, <1>5, <1>6, <1>7

\* The accounting is closed by success: when every collective has SUCCEEDED
\* with no failure on record and no call is under way, active_collectives_ is
\* zero, whatever was reported, aborted or retried on the way.
THEOREM TeardownIsClean == Spec => []CleanTeardown
<1>1. Init => ActiveBounded
  <2> SUFFICES ASSUME Init PROVE ActiveBounded
    OBVIOUS
  <2>1. active = 0
    BY DEF Init
  <2> QED BY <2>1, UnclosedFinite DEF ActiveBounded
<1>2. RecordInv /\ ActiveBounded => CleanTeardown
  <2> SUFFICES ASSUME RecordInv, ActiveBounded,
                      \A t \in Thread : pc[t] = "idle",
                      \A e \in Exec : state[e] \in {"none", "SUCCEEDED"} /\ ~ failure[e]
               PROVE  active = 0
    BY DEF CleanTeardown
  <2>1. \A e \in Exec : state[e] = "SUCCEEDED" => measured[e] > 0
    BY DEF RecordInv, SuccessIsDocumented
  <2>2. Unclosed = {}
    BY <2>1 DEF Unclosed
  <2>3. Cardinality(Unclosed) = 0
    BY <2>2, FS_EmptySet
  <2> QED BY <2>3 DEF ActiveBounded, RecordInv, RunInv, BaseInv, TypeOK
<1>3. RecordInv /\ ActiveBounded /\ [Next]_vars => ActiveBounded'
  BY ActiveNext DEF RecordInv
<1> QED BY <1>1, <1>2, <1>3, RecordInit, RecordNext, PTL DEF Spec

=============================================================================
