---------------------------- MODULE QuorumCommit ----------------------------
(***************************************************************************)
(* What the runtime promises about a collective, whatever the threads that *)
(* drive it do: it has at most one outcome, an outcome is never taken back *)
(* (it may only be retired as STALE), and SUCCEEDED is reached only when   *)
(* every member of the group generation the collective was created for has *)
(* arrived.  This is the quorum that lifecycle.hpp leaves to the runtime.  *)
(***************************************************************************)
CONSTANTS Exec, Rank

VARIABLES
  outcome,   \* outcome[e]: "none" before creation, "pending", or the verdict
  members,   \* members[e]: the ranks of e's group generation
  arrived    \* arrived[e]: the ranks whose completion has been recorded

vars == <<outcome, members, arrived>>

Outcome == {"none", "pending", "SUCCEEDED", "FAILED", "ABORTED", "CANCELLED", "STALE"}

Init ==
  /\ outcome = [e \in Exec |-> "none"]
  /\ members = [e \in Exec |-> {}]
  /\ arrived = [e \in Exec |-> {}]

Open(e) ==
  /\ outcome[e] = "none"
  /\ outcome' = [outcome EXCEPT ![e] = "pending"]
  /\ \E M \in SUBSET Rank :
       M # {} /\ members' = [members EXCEPT ![e] = M]
  /\ UNCHANGED arrived

\* Arrivals are recorded; the collective commits only with a full quorum.
Arrive(e) ==
  /\ outcome[e] # "none"
  /\ \E R \in SUBSET Rank :
       arrived' = [arrived EXCEPT ![e] = @ \cup R]
  /\ \/ UNCHANGED outcome
     \/ /\ outcome[e] = "pending"
        /\ members[e] \subseteq arrived'[e]
        /\ outcome' = [outcome EXCEPT ![e] = "SUCCEEDED"]
  /\ UNCHANGED members

GiveUp(e) ==
  /\ outcome[e] = "pending"
  /\ \E o \in {"FAILED", "ABORTED", "CANCELLED"} :
       outcome' = [outcome EXCEPT ![e] = o]
  /\ UNCHANGED <<members, arrived>>

Retire(e) ==
  /\ outcome[e] \in {"SUCCEEDED", "FAILED"}
  /\ outcome' = [outcome EXCEPT ![e] = "STALE"]
  /\ UNCHANGED <<members, arrived>>

Next == \E e \in Exec : Open(e) \/ Arrive(e) \/ GiveUp(e) \/ Retire(e)

Spec == Init /\ [][Next]_vars

=============================================================================
