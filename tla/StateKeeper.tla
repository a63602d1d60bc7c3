---------------------------- MODULE StateKeeper ----------------------------
(***************************************************************************)
(* What the state file promises to the processes that save and recover,    *)
(* without files: one value that a save replaces as a whole, that survives *)
(* the end of a process, and that a recovery starts from or gets nothing.  *)
(***************************************************************************)
EXTENDS Sequences

CONSTANT States   \* runtime states that are saved

VARIABLES
  mem,       \* what the running process would save
  proc,      \* the process: "run", "recovered", "down"
  saved,     \* the value kept
  recovered  \* measurements a recovered process took from it

vars == <<mem, proc, saved, recovered>>

Init ==
  /\ mem \in States
  /\ proc = "run"
  /\ saved = [ok |-> FALSE]
  /\ recovered = <<>>

Change == proc = "run" /\ mem' \in States /\ UNCHANGED <<proc, saved, recovered>>

Save ==
  /\ proc = "run"
  /\ saved' = [ok |-> TRUE, value |-> mem]
  /\ UNCHANGED <<mem, proc, recovered>>

End == proc # "down" /\ proc' = "down" /\ UNCHANGED <<mem, saved, recovered>>

Start ==
  /\ proc = "down"
  /\ proc' = "run"
  /\ mem' \in States
  /\ recovered' = <<>>
  /\ UNCHANGED saved

\* Authority and membership are taken over; who was alive, what was measured
\* and the health of paths are not.
Recover ==
  /\ proc = "down"
  /\ saved.ok /\ saved.value.groups # <<>>
  /\ proc' = "recovered"
  /\ mem' = [saved.value EXCEPT !.live_boot = 0, !.measurements = <<>>, !.health = <<>>]
  /\ recovered' = saved.value.measurements
  /\ UNCHANGED saved

Next == Change \/ Save \/ End \/ Start \/ Recover

Spec == Init /\ [][Next]_vars

=============================================================================
