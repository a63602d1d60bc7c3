---------------------------- MODULE Multiprocess ----------------------------
(***************************************************************************)
(* The multiprocess proof as a whole: the driver                           *)
(* (tests/test_multiprocess.cpp) starts a coordinator and its workers,     *)
(* kills one of them, starts a replacement and, when the coordinator has   *)
(* ended, a second coordinator process that recovers from the state file   *)
(* of the first, with two new workers.  Workers, and the first             *)
(* coordinator, may also die by themselves.                                *)
(*                                                                         *)
(* The driver waits a fixed time for a process to listen: here a worker    *)
(* that it starts finds the coordinator listening.                         *)
(***************************************************************************)
EXTENDS Recovery

CONSTANT CoordinatorMortal   \* whether the first coordinator may die by itself

ASSUME CoordinatorMortal \in BOOLEAN

Running == {"accept", "form", "barrier", "release", "request", "collect", "reduce", "acks",
            "record", "save", "reconfigure", "replace", "regroup", "save2", "final"}
Recovering == {"load", "r_accept", "r_form", "r_barrier", "r_release", "r_request",
               "r_collect", "r_reduce", "r_acks"}

TypeOK ==
  /\ WorkersTypeOK
  /\ cpc \in Running \cup Recovering \cup Ended
  /\ ci \in 1 .. 4 /\ round \in 1 .. 4 /\ epoch \in 2 .. 3
  /\ workers \in Seq(Worker) /\ Len(workers) <= 3
  /\ DOMAIN groups \subseteq 1 .. 3
  /\ \A g \in DOMAIN groups : groups[g] \in [DOMAIN groups[g] -> 0 .. 1]
  /\ got \in Seq([round : 0 .. 4, rank : 0 .. 1]) /\ Len(got) <= 2
  /\ measured \subseteq 1 .. 3

\* A worker is started: the first two at once, the replacement once the
\* reconfiguration shows in the log, the last two once the recovery listens.
Start(w) ==
  /\ cpc \notin Ended
  /\ IF w \in Fresh THEN round = 4 /\ cpc # "load"
     ELSE round < 4 /\ (w = Late => epoch = 3)
  /\ Launch(w)
  /\ UNCHANGED coordVars

\* The driver kills its victim once the second collective has begun.
Kill == round >= 2 /\ Ends(Victim) /\ UNCHANGED coordVars

\* The first coordinator dies at any point.
CoordinatorDies ==
  /\ CoordinatorMortal
  /\ cpc \in Running
  /\ cpc' = "failed"
  /\ UNCHANGED <<coordVars, backlog, toCoord, toWorker, workerVars>>

\* When the first coordinator has ended the driver kills the workers that are
\* left, and starts the second one: of the first only the state files remain.
StartRecovery ==
  /\ cpc \in Ended /\ round < 4
  /\ Goto("load", 1)
  /\ round' = 4
  /\ workers' = <<>> /\ groups' = <<>> /\ got' = <<>> /\ measured' = {}
  /\ backlog' = <<>>
  /\ toCoord' = [w \in Worker |-> <<>>]
  /\ toWorker' = [w \in Worker |-> <<>>]
  /\ wpc' = [w \in Worker |-> IF w \in Fresh THEN wpc[w] ELSE "dead"]
  /\ UNCHANGED <<epoch, disk, patience, wrank, answered, results>>

\* The process that is the coordinator at the time.
Coordinator == CoordinatorStep \/ RecoveryStep

Next ==
  \/ Coordinator
  \/ \E w \in Worker : WorkerStep(w) /\ UNCHANGED coordVars
  \/ \E w \in Worker : Die(w) /\ UNCHANGED coordVars
  \/ \E w \in Worker : Start(w)
  \/ Kill \/ CoordinatorDies \/ StartRecovery

\* Every process runs; the driver starts workers and kills its victim.  Nothing
\* makes a process die by itself, and the recovery may never be started: the
\* workers of the first coordinator must end without being killed then.
Spec ==
  /\ Init /\ [][Next]_vars
  /\ WF_vars(Coordinator)
  /\ \A w \in Worker : WF_vars(WorkerStep(w) /\ UNCHANGED coordVars) /\ WF_vars(Start(w))
  /\ WF_vars(Kill)

-----------------------------------------------------------------------------
\* What is reduced are contributions to this round from distinct ranks: no
\* frame of an earlier round, still in a connection when a round was given up,
\* is taken for one of a later round; nor is, in the recovery, whose receives
\* look at no kind, a frame of the barrier.  (The coordinator does not look at
\* the authority a contribution carries; the order of its receives ensures it.)
ReductionIsOfThisRound ==
  /\ cpc \in {"collect", "reduce", "acks", "record", "r_collect", "r_reduce", "r_acks"} =>
       \A i \in DOMAIN got : got[i].round = round
  /\ cpc \in {"reduce", "acks", "record", "r_reduce", "r_acks"} =>
       Len(got) = 2 /\ got[1].rank # got[2].rank

\* A measurement says success, in the runtime and in every state file: each
\* member of the group (it is always formed of the first two workers) had
\* taken the RESULT of that round.
MeasuredMeansDelivered ==
  \A r \in measured \cup disk.main.measured \cup disk.before2.measured :
    \A w \in First : r \in results[w]

\* Whoever dies and whenever, each coordinator comes to an end although no
\* receive has a timeout.
CoordinatorEnds == []<>(cpc \in Ended)

\* When a coordinator has ended, no worker stays behind, except one that
\* stalls.
WorkersEnd ==
  cpc \in Ended ~> \A w \in Worker : wpc[w] \in {"off", "stalled", "dead", "exited"}

\* Wherever the first coordinator ended or died, and whoever died with it, once
\* it had saved a state the second one recovers from it and completes an
\* all-reduce that both new workers take the result of, unless one of these
\* dies: each of its receives that passes over a failure still meets the frame
\* it is meant for.
RecoveryCompletes ==
  (cpc = "load" /\ disk.main # NoFile) ~>
    \/ cpc = "done" /\ \A w \in Fresh : 4 \in results[w]
    \/ \E w \in Fresh : wpc[w] = "dead"

(* What the repository says and the code does not do *)

\* README.md on the multiprocess proof: it "kills a worker as a real OS
\* process, detects loss, [...] re-forms the group generation, runs a fresh
\* collective": when the first coordinator is done, round 3 was measured.
FreshCollectiveRan == cpc = "done" /\ round = 3 => 3 \in measured

=============================================================================
