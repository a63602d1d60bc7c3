---------------------------- MODULE Coordinator ----------------------------
(***************************************************************************)
(* The coordinator process in its normal scenario (tools/coordinator.cpp,  *)
(* run_coordinator): it takes in two workers, agrees with them on a group  *)
(* and a barrier, runs three all-reduces, and saves its state.  Rounds 1   *)
(* and 2 use group generation 1, round 3 generation 2, after a worker was  *)
(* lost and replaced.                                                      *)
(*                                                                         *)
(* One action per receive, per loop of sends and per save.                 *)
(***************************************************************************)
EXTENDS Workers

VARIABLES
  ci,        \* the worker the current loop is at
  round,     \* the all-reduce the process is in, or was in last
  workers,   \* workers: the accepted connections, in order
  groups,    \* registered groups: generation -> rank of each member
  epoch,     \* authority().epoch
  got,       \* contributions of this round: their round and rank
  measured,  \* rounds whose measurement was ingested
  disk       \* state files: what the main one and .before2 hold

coordVars == <<ci, round, workers, groups, epoch, got, measured, disk>>
vars == <<cpc, coordVars, backlog, toCoord, toWorker, workerVars>>

\* No state file yet.
NoFile == [epoch |-> 0, groups |-> <<>>, measured |-> {}]

\* The coordinator listens; its runtime starts at epoch 1 and advances once.
Init ==
  /\ WorkersInit
  /\ cpc = "accept" /\ ci = 1 /\ round = 1
  /\ workers = <<>>
  /\ groups = <<>>
  /\ epoch = 2
  /\ got = <<>> /\ measured = {}
  /\ disk = [main |-> NoFile, before2 |-> NoFile]

Goto(pc, i) == cpc' = pc /\ ci' = i

\* return 1: the process ends.
Quit ==
  /\ Goto("failed", ci)
  /\ UNCHANGED <<round, workers, groups, epoch, got, measured, disk>>

\* One of two connections, then on to next: accept, HELLO, JOIN_GROUP.
AcceptTwo(at, next) ==
  /\ cpc = at
  /\ backlog # <<>>
  /\ LET w == Head(backlog) IN
     /\ backlog' = Tail(backlog)
     /\ \/ ReadFails(w) /\ Quit
        \/ /\ Len(toCoord[w]) >= 2
           /\ toCoord' = [toCoord EXCEPT ![w] = SubSeq(@, 3, Len(@))]
           /\ workers' = Append(workers, w)
           /\ IF ci = 2 THEN Goto(next, 1) ELSE Goto(at, ci + 1)
           /\ UNCHANGED <<round, groups, epoch, got, measured, disk>>
  /\ UNCHANGED <<toWorker, workerVars>>

AcceptFirst == AcceptTwo("accept", "form")

\* Dense ranks in boot order.
RanksByBoot(members) == [w \in members |-> Cardinality({v \in members : BootOf[v] < BootOf[w]})]

\* form_group over the first two connections.
FormGroup(ws) == RanksByBoot({ws[1], ws[2]})

\* rank_of: the null rank, which is 0, for a worker that is no member.
RankOf(group, w) == IF w \in DOMAIN group THEN group[w] ELSE 0

\* The group of generation g is registered and its ranks are sent out.
AnnounceGroup(g) ==
  LET group == FormGroup(workers)
      accept == [w \in Range(workers) |-> Frame("GROUP_ACCEPT", g, RankOf(group, w))]
  IN /\ groups' = [h \in DOMAIN groups \cup {g} |-> IF h = g THEN group ELSE groups[h]]
     /\ SendAll(workers, accept)

FormFirstGroup ==
  /\ cpc = "form"
  /\ AnnounceGroup(1)
  /\ Goto("barrier", 1)
  /\ UNCHANGED <<round, workers, epoch, got, measured, disk, backlog, toCoord, workerVars>>

\* One worker's BARRIER, with the generation it claims.
BarrierRecv ==
  /\ cpc = "barrier"
  /\ LET w == workers[ci] IN
     \/ ReadFails(w) /\ Quit
     \/ \E f \in Frames :
          /\ Reads(w, f)
          /\ IF f.kind # "BARRIER" \/ f.n # 1 THEN Quit
             ELSE /\ IF ci = Len(workers) THEN Goto("release", 1) ELSE Goto("barrier", ci + 1)
                  /\ UNCHANGED <<round, workers, groups, epoch, got, measured, disk>>
  /\ UNCHANGED <<backlog, toWorker, workerVars>>

BarrierRelease ==
  LET ack == [w \in Range(workers) |-> Frame("COMPLETE", 1, 0)] IN
  /\ cpc = "release"
  /\ SendAll(workers, ack)
  /\ Goto("request", 1)
  /\ UNCHANGED <<round, workers, groups, epoch, got, measured, disk, backlog, toCoord,
                 workerVars>>

\* Where the coordinator goes when run_allreduce returns, whatever it returns.
AfterRound == CASE round = 1 -> "save" [] round = 2 -> "reconfigure" [] round = 3 -> "final"

\* run_allreduce: the request goes to every worker held.
SendRequest ==
  LET request == [w \in Range(workers) |-> Frame("REQUEST_COLLECTIVE", round, 0)] IN
  /\ cpc = "request"
  /\ SendAll(workers, request)
  /\ got' = <<>>
  /\ Goto("collect", 1)
  /\ UNCHANGED <<round, workers, groups, epoch, measured, disk, backlog, toCoord, workerVars>>

\* The contributions of the first two workers, in order.  The first loss ends
\* the round; so does a frame of another kind.  The authority a contribution
\* carries is decoded and not looked at.
RecvContribution ==
  /\ cpc = "collect"
  /\ LET w == workers[ci] IN
     \/ ReadFails(w) /\ Goto(AfterRound, 1) /\ UNCHANGED got
     \/ \E f \in Frames :
          /\ Reads(w, f)
          /\ IF f.kind # "CONTRIBUTION"
             THEN Goto(AfterRound, 1) /\ UNCHANGED got
             ELSE /\ got' = Append(got, [round |-> f.n, rank |-> f.rank])
                  /\ IF ci = 2 THEN Goto("reduce", 1) ELSE Goto("collect", ci + 1)
  /\ UNCHANGED <<round, workers, groups, epoch, measured, disk, backlog, toWorker, workerVars>>

\* The reduction, and the RESULT to every worker held.
SendResult ==
  LET result == [w \in Range(workers) |-> Frame("RESULT", round, 0)] IN
  /\ cpc = "reduce"
  /\ SendAll(workers, result)
  /\ Goto("acks", 1)
  /\ UNCHANGED <<round, workers, groups, epoch, got, measured, disk, backlog, toCoord,
                 workerVars>>

\* Mutant: the acknowledgement of the first worker is enough.
RecvCompleteOne ==
  /\ cpc = "acks"
  /\ \E f \in Frames : Reads(workers[1], f)
  /\ Goto("record", 1)
  /\ UNCHANGED <<round, workers, groups, epoch, got, measured, disk, backlog, toWorker,
                 workerVars>>

\* One frame, of any kind, from every worker held; a loss ends the round.
RecvComplete ==
  /\ cpc = "acks"
  /\ LET w == workers[ci] IN
     \/ ReadFails(w) /\ Goto(AfterRound, 1)
     \/ /\ \E f \in Frames : Reads(w, f)
        /\ IF ci = Len(workers) THEN Goto("record", 1) ELSE Goto("acks", ci + 1)
  /\ UNCHANGED <<round, workers, groups, epoch, got, measured, disk, backlog, toWorker,
                 workerVars>>

\* The measurement of the round is ingested.  (Rounds are kept apart here; the id
\* in the code is 1000 + generation, the same for rounds 1 and 2, so that the
\* measurement of the second takes the place of that of the first.)
Record ==
  /\ cpc = "record"
  /\ measured' = measured \cup {round}
  /\ Goto(AfterRound, 1)
  /\ UNCHANGED <<round, workers, groups, epoch, got, disk, backlog, toCoord, toWorker,
                 workerVars>>

\* build_state: the epoch, generation 1 of the group, the measurements.
Snapshot ==
  [epoch |-> epoch, measured |-> measured,
   groups |-> [g \in DOMAIN groups \cap {1} |-> groups[g]]]

\* The state is saved and the second collective begins.
Save ==
  /\ cpc = "save"
  /\ disk' = [disk EXCEPT !.main = Snapshot]
  /\ round' = 2
  /\ Goto("request", 1)
  /\ UNCHANGED <<workers, groups, epoch, got, measured, backlog, toCoord, toWorker, workerVars>>

\* Mutant: the epoch advances twice.
ReconfigureTwice ==
  /\ cpc = "reconfigure"
  /\ epoch' = epoch + 2
  /\ Goto("replace", 1)
  /\ UNCHANGED <<round, workers, groups, got, measured, disk, backlog, toCoord, toWorker, workerVars>>

\* Mutant: connections whose process is gone are dropped, so that the replacement
\* joins a survivor whose contribution to the round given up is still unread.
ReconfigureDropsDead ==
  LET alive(w) == wpc[w] # "dead" IN
  /\ cpc = "reconfigure"
  /\ epoch' = epoch + 1
  /\ workers' = SelectSeq(workers, alive)
  /\ IF workers' = <<>> THEN Goto("failed", 1) ELSE Goto("replace", 1)
  /\ UNCHANGED <<round, groups, got, measured, disk, backlog, toCoord, toWorker, workerVars>>

\* The epoch advances.  The connections whose socket was closed on this side
\* (FrameChannel::valid) are dropped: none is, for a failed receive closes nothing.
Reconfigure ==
  /\ cpc = "reconfigure"
  /\ epoch' = epoch + 1
  /\ Goto("replace", 1)
  /\ UNCHANGED <<round, workers, groups, got, measured, disk, backlog, toCoord, toWorker, workerVars>>

\* The replacement: the HELLO must be there, a JOIN_GROUP that cannot be read
\* goes unnoticed.
AcceptReplacement ==
  /\ cpc = "replace"
  /\ backlog # <<>>
  /\ LET w == Head(backlog) IN
     /\ backlog' = Tail(backlog)
     /\ \/ ReadFails(w) /\ Quit
        \/ /\ Len(toCoord[w]) >= 2
           /\ toCoord' = [toCoord EXCEPT ![w] = SubSeq(@, 3, Len(@))]
           /\ workers' = Append(workers, w)
           /\ Goto("regroup", 1)
           /\ UNCHANGED <<round, groups, epoch, got, measured, disk>>
        \/ /\ ReadFails(w)
           /\ workers' = Append(workers, w)
           /\ Goto("regroup", 1)
           /\ UNCHANGED <<round, groups, epoch, got, measured, disk>>
  /\ UNCHANGED <<toWorker, workerVars>>

\* Group generation 2, again over the first two connections; no barrier.
Regroup ==
  /\ cpc = "regroup"
  /\ AnnounceGroup(2)
  /\ Goto("save2", 1)
  /\ UNCHANGED <<round, workers, epoch, got, measured, disk, backlog, toCoord, workerVars>>

\* The replay of stale claims changes nothing; then the second state file.
SaveBefore2 ==
  /\ cpc = "save2"
  /\ disk' = [disk EXCEPT !.before2 = Snapshot]
  /\ round' = 3
  /\ Goto("request", 1)
  /\ UNCHANGED <<workers, groups, epoch, got, measured, backlog, toCoord, toWorker, workerVars>>

SaveFinal ==
  /\ cpc = "final"
  /\ disk' = [disk EXCEPT !.main = Snapshot]
  /\ Goto("done", 1)
  /\ UNCHANGED <<round, workers, groups, epoch, got, measured, backlog, toCoord, toWorker,
                 workerVars>>

CoordinatorStep ==
  \/ AcceptFirst \/ FormFirstGroup \/ BarrierRecv \/ BarrierRelease
  \/ SendRequest \/ RecvContribution \/ SendResult \/ RecvComplete \/ Record
  \/ Save \/ Reconfigure \/ AcceptReplacement \/ Regroup \/ SaveBefore2 \/ SaveFinal

=============================================================================
