----------------------------- MODULE Lifecycle -----------------------------
(***************************************************************************)
(* CollectiveStateMachine (include/collectivefabric/lifecycle.hpp): the    *)
(* execution lifecycle of one collective.  transition_to throws on a move  *)
(* that Allowed refuses; the callers in runtime.cpp either let the error   *)
(* out (the operation has no effect) or swallow it (TryTransition).        *)
(***************************************************************************)

State == {"CREATED", "PLANNED", "RESERVED", "DISPATCHED", "RUNNING",
          "COMPLETING", "SUCCEEDED", "FAILED", "ABORTED", "CANCELLED", "STALE"}

\* allowed(from, to)
Allowed(from, to) ==
  \/ from = "CREATED"    /\ to \in {"PLANNED", "FAILED", "CANCELLED", "ABORTED"}
  \/ from = "PLANNED"    /\ to \in {"RESERVED", "FAILED", "CANCELLED"}
  \/ from = "RESERVED"   /\ to \in {"DISPATCHED", "FAILED", "CANCELLED"}
  \/ from = "DISPATCHED" /\ to \in {"RUNNING", "FAILED", "ABORTED", "CANCELLED"}
  \/ from = "RUNNING"    /\ to \in {"COMPLETING", "FAILED", "ABORTED", "CANCELLED"}
  \/ from = "COMPLETING" /\ to \in {"SUCCEEDED", "FAILED", "ABORTED"}
  \/ from = "SUCCEEDED"  /\ to = "STALE"
  \/ from = "FAILED"     /\ to = "STALE"

\* is_terminal: terminal, although SUCCEEDED and FAILED may still turn STALE.
IsTerminal(s) == s \in {"SUCCEEDED", "FAILED", "ABORTED", "CANCELLED", "STALE"}

\* try { transition_to(to) } catch (const Error&) {}
TryTransition(from, to) == IF Allowed(from, to) THEN to ELSE from

=============================================================================
