------------------------------ MODULE Recovery ------------------------------
(***************************************************************************)
(* The coordinator process started to recover (tools/coordinator.cpp,      *)
(* run_recover and rebuild_runtime): it loads the state file of an earlier *)
(* process into a new runtime, takes in two workers and runs one           *)
(* all-reduce with them, round 4, in a group of its own, generation 3.  It *)
(* saves nothing.                                                          *)
(*                                                                         *)
(* It looks at less than run_coordinator does: no kind of a frame is       *)
(* checked, and a receive that fails at the barrier or for the last        *)
(* acknowledgements is passed over.                                        *)
(***************************************************************************)
EXTENDS Coordinator

\* rebuild_runtime: rank 0 is the null rank, so the builder gives the ranks of
\* every group anew, by participant id, which is the boot identity.
RebuildRuntime(saved) == [g \in DOMAIN saved |-> RanksByBoot(DOMAIN saved[g])]

\* A load that throws ends the process with a message and 0, a file without a
\* group with 1.  Otherwise the epoch is the saved one.  The measurements are
\* counted and not ingested.
RecoverLoad ==
  /\ cpc = "load"
  /\ \/ /\ disk.main = NoFile
        /\ Goto("done", 1)
        /\ UNCHANGED <<epoch, groups>>
     \/ /\ disk.main # NoFile
        /\ epoch' = disk.main.epoch
        /\ groups' = RebuildRuntime(disk.main.groups)
        /\ IF DOMAIN groups' = {} THEN Goto("failed", 1) ELSE Goto("r_accept", 1)
  /\ UNCHANGED <<round, workers, got, measured, disk, backlog, toCoord, toWorker, workerVars>>

RecoverAccept == AcceptTwo("r_accept", "r_form")

\* Group 7, its ranks in boot order.
RecoverForm ==
  LET group == FormGroup(workers)
      accept == [w \in Range(workers) |-> Frame("GROUP_ACCEPT", 3, group[w])]
  IN
  /\ cpc = "r_form"
  /\ groups' = [g \in DOMAIN groups \cup {3} |-> IF g = 3 THEN group ELSE groups[g]]
  /\ SendAll(workers, accept)
  /\ Goto("r_barrier", 1)
  /\ UNCHANGED <<round, workers, epoch, got, measured, disk, backlog, toCoord, workerVars>>

\* One receive from each worker; whether it succeeds is not looked at.
RecvFromEach(at, next) ==
  /\ cpc = at
  /\ LET w == workers[ci] IN ReadFails(w) \/ \E f \in Frames : Reads(w, f)
  /\ IF ci = Len(workers) THEN Goto(next, 1) ELSE Goto(at, ci + 1)
  /\ UNCHANGED <<round, workers, groups, epoch, got, measured, disk, backlog, toWorker,
                 workerVars>>

RecoverBarrier == RecvFromEach("r_barrier", "r_release")

\* Mutant: the barrier is not acknowledged; the request takes the place of the
\* acknowledgement.
RecoverReleaseSilent ==
  /\ cpc = "r_release"
  /\ Goto("r_request", 1)
  /\ UNCHANGED <<round, workers, groups, epoch, got, measured, disk, backlog, toCoord,
                 toWorker, workerVars>>

RecoverRelease ==
  LET ack == [w \in Range(workers) |-> Frame("COMPLETE", 1, 0)] IN
  /\ cpc = "r_release"
  /\ SendAll(workers, ack)
  /\ Goto("r_request", 1)
  /\ UNCHANGED <<round, workers, groups, epoch, got, measured, disk, backlog, toCoord,
                 workerVars>>

RecoverRequest ==
  LET request == [w \in Range(workers) |-> Frame("REQUEST_COLLECTIVE", round, 0)] IN
  /\ cpc = "r_request"
  /\ SendAll(workers, request)
  /\ Goto("r_collect", 1)
  /\ UNCHANGED <<round, workers, groups, epoch, got, measured, disk, backlog, toCoord,
                 workerVars>>

\* The contributions, in order of the connections.  A loss ends the process; a
\* frame of another kind holds no bytes that the engine takes: round 0.
RecoverContribution ==
  /\ cpc = "r_collect"
  /\ LET w == workers[ci] IN
     \/ ReadFails(w) /\ Goto("failed", 1) /\ UNCHANGED got
     \/ \E f \in Frames :
          /\ Reads(w, f)
          /\ got' = Append(got, [round |-> IF f.kind = "CONTRIBUTION" THEN f.n ELSE 0,
                                 rank |-> f.rank])
          /\ IF ci = Len(workers) THEN Goto("r_reduce", 1) ELSE Goto("r_collect", ci + 1)
  /\ UNCHANGED <<round, workers, groups, epoch, measured, disk, backlog, toWorker, workerVars>>

\* The engine refuses an empty input by an exception, which ends the process;
\* otherwise the RESULT goes out.
RecoverResult ==
  LET result == [w \in Range(workers) |-> Frame("RESULT", round, 0)] IN
  /\ cpc = "r_reduce"
  /\ IF \E i \in DOMAIN got : got[i].round = 0
     THEN Goto("done", 1) /\ UNCHANGED toWorker
     ELSE SendAll(workers, result) /\ Goto("r_acks", 1)
  /\ UNCHANGED <<round, workers, groups, epoch, got, measured, disk, backlog, toCoord,
                 workerVars>>

\* The acknowledgements, or their absence; then the process reports success.
RecoverAcks == RecvFromEach("r_acks", "done")

RecoveryStep ==
  \/ RecoverLoad \/ RecoverAccept \/ RecoverForm \/ RecoverBarrier \/ RecoverRelease
  \/ RecoverRequest \/ RecoverContribution \/ RecoverResult \/ RecoverAcks

=============================================================================
