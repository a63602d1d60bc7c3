------------------------------ MODULE Runtime ------------------------------
(***************************************************************************)
(* The execution side of the Runtime (src/runtime.cpp) with its Accounting *)
(* (accounting.hpp).  Every public operation takes mu_ once and is one     *)
(* action, except execute_collective, which takes it several times and     *)
(* runs the reference engine with mu_ released: each calling thread walks  *)
(*     idle -> ready -> engine -> idle     (or  ... -> failing -> idle)    *)
(* and any other operation may run between two of its steps.  The look-ups *)
(* at its start read only what never changes once written (a descriptor, a *)
(* registered group), so they are part of the first step.                  *)
(*                                                                         *)
(* An operation that throws before it changed anything is not a step; one  *)
(* that throws half way keeps what it had already written.                 *)
(*                                                                         *)
(* Data kept: which group generation and kind a collective has, which      *)
(* ranks are recorded, which records exist.  Data left out: payloads,      *)
(* byte amounts, timestamps, the plan (its only effect here is that the    *)
(* planner may throw), and the numbers drawn from next_id_ (ids are named  *)
(* by the execution they belong to).                                       *)
(***************************************************************************)
EXTENDS Naturals, FiniteSets, Lifecycle

CONSTANTS
  Exec,              \* executions that may be created
  Thread,            \* threads that call execute_collective
  Gen,               \* group generations
  Kind,              \* collective kinds in use
  MaxRanks,          \* ranks of the largest group
  MaxContributions,  \* bound: rank contributions announced at once
  None               \* no execution

\* Rank ids that callers report: those of the largest group and one outside.
Rank == 0 .. MaxRanks

ASSUME RuntimeAssumption ==
  /\ MaxRanks \in Nat \ {0}
  /\ MaxContributions \in Nat
  /\ None \notin Exec
  /\ IsFiniteSet(Exec)

VARIABLES
  groups,        \* groups_: rank count of each group generation, 0 if absent
  state,         \* lifecycle state of each execution; "none" before creation
  desc,          \* descriptor: the group generation and the kind
  completions,   \* rank_completions
  failure,       \* a failure is on record (its bytes are in failed_bytes_)
  measured,      \* number of success measurements (and outputs) written
  reserved,      \* executions whose reservation is outstanding
  active,        \* accounting: active_collectives_
  submitted,     \* accounting: total_submitted_
  aborted,       \* accounting: aborted_collectives_
  completed,     \* accounting: calls of collective_completed that returned
  contributions, \* accounting: active_rank_contributions_
  pc,            \* where each thread is in execute_collective
  job            \* the execution it works on

execVars == <<state, desc, completions, failure, measured>>
acctVars == <<reserved, active, submitted, aborted, completed, contributions>>
thrVars == <<pc, job>>
vars == <<groups, execVars, acctVars, thrVars>>

Descriptor == [gen : Gen, kind : Kind]

TypeOK ==
  /\ groups \in [Gen -> 0 .. MaxRanks]
  /\ state \in [Exec -> State \cup {"none"}]
  /\ desc \in [Exec -> Descriptor \cup {None}]
  /\ completions \in [Exec -> SUBSET Rank]
  /\ failure \in [Exec -> BOOLEAN]
  /\ measured \in [Exec -> Nat]
  /\ reserved \subseteq Exec
  /\ active \in Nat /\ submitted \in Nat /\ aborted \in Nat
  /\ completed \in Nat /\ contributions \in Nat
  /\ pc \in [Thread -> {"idle", "ready", "engine", "failing"}]
  /\ job \in [Thread -> Exec \cup {None}]

\* Runtime(): nothing registered, nothing created.
Init ==
  /\ groups = [g \in Gen |-> 0]
  /\ state = [e \in Exec |-> "none"]
  /\ desc = [e \in Exec |-> None]
  /\ completions = [e \in Exec |-> {}]
  /\ failure = [e \in Exec |-> FALSE]
  /\ measured = [e \in Exec |-> 0]
  /\ reserved = {}
  /\ active = 0 /\ submitted = 0 /\ aborted = 0
  /\ completed = 0 /\ contributions = 0
  /\ pc = [t \in Thread |-> "idle"]
  /\ job = [t \in Thread |-> None]

-----------------------------------------------------------------------------
\* The ranks of the group generation that e was created for (dense, from 0).
GroupRanks(e) == {r \in Rank : r < groups[desc[e].gen]}

\* A group generation is registered once and never replaced or removed.
RegisterGroup(g, n) ==
  /\ groups[g] = 0
  /\ groups' = [groups EXCEPT ![g] = n]
  /\ UNCHANGED <<execVars, acctVars, thrVars>>

CreateCollective(e, d) ==
  /\ state[e] = "none"
  /\ groups[d.gen] # 0
  /\ state' = [state EXCEPT ![e] = "CREATED"]
  /\ desc' = [desc EXCEPT ![e] = d]
  /\ UNCHANGED <<groups, completions, failure, measured, acctVars, thrVars>>

\* transition_to(to) as the last effect of an operation.
MoveTo(e, to) ==
  /\ Allowed(state[e], to)
  /\ state' = [state EXCEPT ![e] = to]

\* The transition comes before the planner: if the planner throws, the
\* collective stays PLANNED (with an empty plan).
PlanCollective(e) ==
  /\ MoveTo(e, "PLANNED")
  /\ UNCHANGED <<groups, desc, completions, failure, measured, acctVars, thrVars>>

\* element_byte_count() throws: a barrier whose element count overflows, the
\* one kind of payload that validate() does not look at.
Overflows(d) == d.kind = "HUGE_BARRIER"

\* The transition comes before element_byte_count, the accounting after it.
ReserveCollective(e) ==
  /\ MoveTo(e, "RESERVED")
  /\ \/ /\ ~ Overflows(desc[e])
        /\ reserved' = reserved \cup {e}
        /\ active' = active + 1
        /\ submitted' = submitted + 1
     \/ /\ Overflows(desc[e])
        /\ UNCHANGED <<reserved, active, submitted>>
  /\ UNCHANGED <<groups, desc, completions, failure, measured,
                 aborted, completed, contributions, thrVars>>

DispatchCollective(e) ==
  /\ MoveTo(e, "DISPATCHED")
  /\ UNCHANGED <<groups, desc, completions, failure, measured, acctVars, thrVars>>

-----------------------------------------------------------------------------
\* Mutants of the quorum rule: one completion is enough; the state is not
\* looked at.
ApplyQuorumFirst(s, done, ranks) ==
  IF done # {} /\ s = "COMPLETING" THEN "SUCCEEDED" ELSE s

ApplyQuorumAnyState(s, done, ranks) ==
  IF ranks \subseteq done THEN "SUCCEEDED" ELSE s

\* apply_quorum_unlocked: the state after every rank of the group was looked
\* up in rank_completions.  (A created collective's group is always found.)
ApplyQuorum(s, done, ranks) ==
  IF ranks \subseteq done /\ s = "COMPLETING"
  THEN TryTransition(s, "SUCCEEDED") ELSE s

\* execute_collective enters with inputs that fit the descriptor or not; their
\* expected size is computed first, by per_rank_bytes.
ExecuteBegin(t, e, inputsFit) ==
  /\ pc[t] = "idle"
  /\ state[e] # "none"
  /\ pc' = [pc EXCEPT ![t] = IF inputsFit /\ ~ Overflows(desc[e])
                                THEN "ready" ELSE "failing"]
  /\ job' = [job EXCEPT ![t] = e]
  /\ UNCHANGED <<groups, execVars, acctVars>>

\* Mutant: the engine is entered whatever the lifecycle says.
ExecuteRunUnguarded(t) ==
  /\ pc[t] = "ready"
  /\ state' = [state EXCEPT ![job[t]] = TryTransition(@, "RUNNING")]
  /\ pc' = [pc EXCEPT ![t] = "engine"]
  /\ UNCHANGED <<groups, desc, completions, failure, measured, acctVars, job>>

\* The second critical section: only DISPATCHED moves to RUNNING; from any
\* other state the throw goes to the handler's catch clause.
ExecuteRun(t) ==
  /\ pc[t] = "ready"
  /\ \/ /\ MoveTo(job[t], "RUNNING")
        /\ pc' = [pc EXCEPT ![t] = "engine"]
     \/ /\ ~ Allowed(state[job[t]], "RUNNING")
        /\ pc' = [pc EXCEPT ![t] = "failing"]
        /\ UNCHANGED state
  /\ UNCHANGED <<groups, desc, completions, failure, measured, acctVars, job>>

\* ReferenceEngine::execute on inputs that passed the size check above it.
\* The check wants n blocks of an ALL_GATHER rank, the engine wants one.
EngineAccepts(d) == d.kind = "ALL_GATHER" => groups[d.gen] = 1

\* The engine threw: the catch clause, then the last critical section.
EngineThrows(t) ==
  /\ pc[t] = "engine"
  /\ ~ EngineAccepts(desc[job[t]])
  /\ pc' = [pc EXCEPT ![t] = "failing"]
  /\ UNCHANGED <<groups, execVars, acctVars, job>>

\* Mutants: the failure is recorded and the state left alone; the call ends
\* without giving the failure record.
ExecuteFailNoState(t) ==
  /\ pc[t] = "failing"
  /\ failure' = [failure EXCEPT ![job[t]] = TRUE]
  /\ pc' = [pc EXCEPT ![t] = "idle"]
  /\ job' = [job EXCEPT ![t] = None]
  /\ UNCHANGED <<groups, state, desc, completions, measured, acctVars>>

\* Mutant: a failure is only recorded when the state could move to FAILED.
ExecuteFailSilent(t) ==
  /\ pc[t] = "failing"
  /\ state' = [state EXCEPT ![job[t]] = TryTransition(@, "FAILED")]
  /\ failure' = [failure EXCEPT ![job[t]] = @ \/ Allowed(state[job[t]], "FAILED")]
  /\ pc' = [pc EXCEPT ![t] = "idle"]
  /\ job' = [job EXCEPT ![t] = None]
  /\ UNCHANGED <<groups, desc, completions, measured, acctVars>>

\* The last critical section with ok = false.
ExecuteFail(t) ==
  /\ pc[t] = "failing"
  /\ state' = [state EXCEPT ![job[t]] = TryTransition(@, "FAILED")]
  /\ failure' = [failure EXCEPT ![job[t]] = TRUE]
  /\ pc' = [pc EXCEPT ![t] = "idle"]
  /\ job' = [job EXCEPT ![t] = None]
  /\ UNCHANGED <<groups, desc, completions, measured, acctVars>>

\* Mutant: the active count is not closed.
ExecuteSucceedNoClose(t) ==
  LET e == job[t]
      done == completions[e] \cup GroupRanks(e)
  IN
  /\ pc[t] = "engine"
  /\ EngineAccepts(desc[e])
  /\ completions' = [completions EXCEPT ![e] = done]
  /\ state' = [state EXCEPT ![e] =
                 ApplyQuorum(TryTransition(@, "COMPLETING"), done, GroupRanks(e))]
  /\ measured' = [measured EXCEPT ![e] = @ + 1]
  /\ completed' = completed + 1
  /\ pc' = [pc EXCEPT ![t] = "idle"]
  /\ job' = [job EXCEPT ![t] = None]
  /\ UNCHANGED <<groups, desc, failure, reserved, active, submitted, aborted,
                 contributions>>

\* The last critical section with ok = true.  The measurement is stored
\* before collective_completed, which throws when nothing is active.
ExecuteSucceed(t) ==
  LET e == job[t]
      done == completions[e] \cup GroupRanks(e)
  IN
  /\ pc[t] = "engine"
  /\ EngineAccepts(desc[e])
  /\ completions' = [completions EXCEPT ![e] = done]
  /\ state' = [state EXCEPT ![e] =
                 ApplyQuorum(TryTransition(@, "COMPLETING"), done, GroupRanks(e))]
  /\ measured' = [measured EXCEPT ![e] = @ + 1]
  /\ \/ active > 0 /\ active' = active - 1 /\ completed' = completed + 1
     \/ active = 0 /\ UNCHANGED <<active, completed>>
  /\ pc' = [pc EXCEPT ![t] = "idle"]
  /\ job' = [job EXCEPT ![t] = None]
  /\ UNCHANGED <<groups, desc, failure, reserved, submitted, aborted, contributions>>

-----------------------------------------------------------------------------
\* Mutant: the contribution counter is decremented without looking at it.
CompleteRankNoCheck(e, r) ==
  /\ state[e] # "none"
  /\ r \notin completions[e]
  /\ completions' = [completions EXCEPT ![e] = @ \cup {r}]
  /\ contributions' = contributions - 1
  /\ UNCHANGED <<groups, state, desc, failure, measured, reserved, active,
                 submitted, aborted, completed, thrVars>>

\* complete_rank.  The rank is recorded, in whatever state the collective is,
\* before rank_contribution_complete, which throws when none is announced.
CompleteRank(e, r) ==
  LET done == completions[e] \cup {r}
      s == IF state[e] = "RUNNING" THEN TryTransition("RUNNING", "COMPLETING")
                                   ELSE state[e]
  IN
  /\ state[e] # "none"
  /\ r \notin completions[e]
  /\ completions' = [completions EXCEPT ![e] = done]
  /\ \/ /\ contributions = 0
        /\ UNCHANGED <<state, contributions>>
     \/ /\ contributions > 0
        /\ contributions' = contributions - 1
        /\ state' = [state EXCEPT ![e] = ApplyQuorum(s, done, GroupRanks(e))]
  /\ UNCHANGED <<groups, desc, failure, measured, reserved, active, submitted,
                 aborted, completed, thrVars>>

\* fail_collective: idempotent on FAILED, an error where FAILED is not allowed.
FailCollective(e) ==
  /\ MoveTo(e, "FAILED")
  /\ failure' = [failure EXCEPT ![e] = TRUE]
  /\ UNCHANGED <<groups, desc, completions, measured, acctVars, thrVars>>

\* Mutant: the abort is counted and the active count is not.
AbortCollectiveNoClose(e) ==
  /\ MoveTo(e, "ABORTED")
  /\ aborted' = aborted + 1
  /\ UNCHANGED <<groups, desc, completions, failure, measured, active, reserved,
                 submitted, completed, contributions, thrVars>>

\* abort_collective: the state first, then collective_aborted, which throws
\* when nothing is active (a collective aborted before it was reserved).
AbortCollective(e) ==
  /\ MoveTo(e, "ABORTED")
  /\ \/ active > 0 /\ active' = active - 1 /\ aborted' = aborted + 1
     \/ active = 0 /\ UNCHANGED <<active, aborted>>
  /\ UNCHANGED <<groups, desc, completions, failure, measured, reserved,
                 submitted, completed, contributions, thrVars>>

\* cancel_collective: no accounting at all.
CancelCollective(e) ==
  /\ MoveTo(e, "CANCELLED")
  /\ UNCHANGED <<groups, desc, completions, failure, measured, acctVars, thrVars>>

MarkStaleCollective(e) ==
  /\ MoveTo(e, "STALE")
  /\ UNCHANGED <<groups, desc, completions, failure, measured, acctVars, thrVars>>

\* accounting().active_rank_contribution(): the caller announces a report.
ActiveRankContribution ==
  /\ contributions < MaxContributions
  /\ contributions' = contributions + 1
  /\ UNCHANGED <<groups, execVars, reserved, active, submitted, aborted, completed, thrVars>>

\* accounting().release(id): callers may release; the runtime never does.
Release(e) ==
  /\ e \in reserved
  /\ reserved' = reserved \ {e}
  /\ UNCHANGED <<groups, execVars, active, submitted, aborted, completed,
                 contributions, thrVars>>

-----------------------------------------------------------------------------
ThreadStep(t) ==
  \/ ExecuteRun(t)
  \/ EngineThrows(t)
  \/ ExecuteFail(t)
  \/ ExecuteSucceed(t)

Next ==
  \/ \E g \in Gen, n \in 1 .. MaxRanks : RegisterGroup(g, n)
  \/ \E e \in Exec, d \in Descriptor : CreateCollective(e, d)
  \/ \E e \in Exec :
       \/ PlanCollective(e) \/ ReserveCollective(e) \/ DispatchCollective(e)
       \/ FailCollective(e) \/ AbortCollective(e) \/ CancelCollective(e)
       \/ MarkStaleCollective(e) \/ Release(e)
  \/ \E e \in Exec, r \in Rank : CompleteRank(e, r)
  \/ ActiveRankContribution
  \/ \E t \in Thread, e \in Exec, fit \in BOOLEAN : ExecuteBegin(t, e, fit)
  \/ \E t \in Thread : ThreadStep(t)

Spec == Init /\ [][Next]_vars

\* A thread inside execute_collective keeps running: the engine terminates
\* and mu_ is held only for bounded work.
FairSpec == Spec /\ \A t \in Thread : WF_vars(ThreadStep(t))

-----------------------------------------------------------------------------
(* Safety *)

\* "A collective cannot become SUCCEEDED because a single participant says it
\* completed" (lifecycle.hpp): every rank of its group is on record.
QuorumBeforeSuccess ==
  \A e \in Exec : state[e] = "SUCCEEDED" => GroupRanks(e) \subseteq completions[e]

\* A collective in flight is in the hands of a thread inside the engine: no
\* interleaving of complete_rank, fail, abort and cancel strands it.
InFlightHasExecutor ==
  \A e \in Exec : state[e] \in {"RUNNING", "COMPLETING"} =>
    \E t \in Thread : job[t] = e /\ pc[t] \in {"engine", "failing"}

\* However often execute_collective is called on it, a collective goes
\* through the engine at most once, so it has at most one success measurement.
AtMostOneRun ==
  /\ \A e \in Exec : measured[e] <= 1
  /\ \A t, u \in Thread :
       pc[t] = "engine" /\ pc[u] = "engine" /\ job[t] = job[u] => t = u
  /\ \A t \in Thread : pc[t] = "engine" => measured[job[t]] = 0

\* Success and result come apart: complete_rank may bring SUCCEEDED while the
\* engine still runs, and a run that delivers may find its collective ended by
\* another call.  Still, a success has its measurement or a failure on record,
\* or a thread that is about to write one of them; and a measured collective
\* has an outcome and every rank of its group.
SuccessIsDocumented ==
  \A e \in Exec :
    /\ state[e] = "SUCCEEDED" =>
         \/ measured[e] > 0 \/ failure[e]
         \/ \E t \in Thread : job[t] = e /\ pc[t] \in {"engine", "failing"}
    /\ measured[e] > 0 => IsTerminal(state[e]) /\ GroupRanks(e) \subseteq completions[e]

\* The counters balance: what was started is active, completed or aborted.
AccountingConserved == submitted = active + completed + aborted

\* The accounting closes where everything went well: once every collective
\* has succeeded without a failure on record and no call is running, nothing
\* is counted as active.
CleanTeardown ==
  (/\ \A t \in Thread : pc[t] = "idle"
   /\ \A e \in Exec : state[e] \in {"none", "SUCCEEDED"} /\ ~ failure[e])
  => active = 0

\* "Old completions never resurrect a collective after failure or
\* reconfiguration" (README): an outcome other than success is final.
NoResurrection ==
  [][\A e \in Exec : state[e] \in {"FAILED", "ABORTED", "CANCELLED", "STALE"}
                       => state'[e] \in {state[e], "STALE"}]_vars

\* The execution side implements the quorum commit of module QuorumCommit.
Commit == INSTANCE QuorumCommit WITH
  outcome <- [e \in Exec |-> IF state[e] = "none" THEN "none"
                             ELSE IF IsTerminal(state[e]) THEN state[e] ELSE "pending"],
  members <- [e \in Exec |-> IF state[e] = "none" THEN {} ELSE GroupRanks(e)],
  arrived <- completions

\* Every step of the runtime is a step of the abstract quorum commit, or none.
ImplementsQuorumCommit == Commit!Spec

(* Liveness *)

\* A collective that reached RUNNING or COMPLETING gets its outcome.
InFlightEnds ==
  \A e \in Exec : state[e] \in {"RUNNING", "COMPLETING"} ~> IsTerminal(state[e])

(* What the repository says and the code does not do *)

\* accounting.hpp: "teardown must close active and reserved accounting to
\* zero": once every collective has ended, none is counted as active.
TeardownClosesActive ==
  (/\ \A t \in Thread : pc[t] = "idle"
   /\ \A e \in Exec : state[e] = "none" \/ IsTerminal(state[e]))
  => active = 0

=============================================================================
