------------------------------ MODULE Workers ------------------------------
(***************************************************************************)
(* The worker processes (tools/worker.cpp) and their framed TCP            *)
(* connections to the coordinator process (tools/mp.hpp, tools/tcp.hpp).   *)
(*                                                                         *)
(* Every process is sequential.  A receive blocks until a frame is there   *)
(* or the connection is closed; nothing has a timeout.  A send never waits *)
(* and its result is ignored, so one loop of sends is one step.  A         *)
(* connection delivers whole frames in order (FrameStream shows that the   *)
(* bytes do that); when a worker is gone, what it had sent may be read     *)
(* before the end of the connection shows, or be lost with it (a reset).   *)
(*                                                                         *)
(* A frame is its kind, a number n (the generation of GROUP_ACCEPT and     *)
(* BARRIER, the all-reduce for the others; in the code two all-reduces of  *)
(* one group look the same) and the rank it carries.  Payload bytes and    *)
(* the log are left out.                                                   *)
(*                                                                         *)
(* The actions here say nothing of the coordinator's own variables: the    *)
(* modules that compose them with it do.                                   *)
(***************************************************************************)
EXTENDS Naturals, Sequences, FiniteSets, Functions

CONSTANTS
  First,       \* the two workers the driver starts at once
  Late,        \* the replacement, started after the reconfiguration
  Fresh,       \* the two workers of the recovering coordinator
  Victim,      \* the worker the driver kills during round 2
  Mortal,      \* workers that may die by themselves at any time
  BootOf,      \* boot identity of each worker
  StallAfter   \* how many requests a worker may be told to answer before it stalls

Worker == First \cup {Late} \cup Fresh

ASSUME WorkerAssumption ==
  /\ IsFiniteSet(Worker)
  /\ Cardinality(First) = 2 /\ Cardinality(Fresh) = 2 /\ Cardinality(Worker) = 5
  /\ Victim \in First
  /\ Mortal \subseteq Worker
  /\ BootOf \in [Worker -> Nat \ {0}]
  /\ \A v, w \in Worker : BootOf[v] = BootOf[w] => v = w
  /\ \A w \in Worker : StallAfter[w] \in SUBSET Nat

VARIABLES
  cpc,       \* where the coordinator process is
  backlog,   \* connections not yet accepted
  toCoord,   \* frames a worker sent and the coordinator has not read
  toWorker,  \* and the other way round
  wpc,       \* where each worker is
  patience,  \* its --stall-after
  wrank,     \* the rank it was given
  answered,  \* collective_index: requests it answered
  results    \* all-reduces whose RESULT it took

workerVars == <<wpc, patience, wrank, answered, results>>

Ended == {"done", "failed"}
Gone(w) == wpc[w] \in {"dead", "exited"}

Frame(kind, n, rank) == [kind |-> kind, n |-> n, rank |-> rank]

Kinds == {"HELLO", "JOIN_GROUP", "GROUP_ACCEPT", "BARRIER", "COMPLETE",
          "REQUEST_COLLECTIVE", "CONTRIBUTION", "RESULT"}
Frames == [kind : Kinds, n : 0 .. 4, rank : 0 .. 1]

WorkersTypeOK ==
  /\ backlog \in Seq(Worker)
  /\ toCoord \in [Worker -> Seq(Frames)] /\ toWorker \in [Worker -> Seq(Frames)]
  /\ wpc \in [Worker -> {"off", "accept", "ack", "loop", "result", "stalled",
                         "dead", "exited"}]
  /\ patience \in [Worker -> Nat]
  /\ wrank \in [Worker -> 0 .. 1]
  /\ answered \in [Worker -> 0 .. 4]
  /\ results \in [Worker -> SUBSET (0 .. 4)]

WorkersInit ==
  /\ backlog = <<>>
  /\ toCoord = [w \in Worker |-> <<>>]
  /\ toWorker = [w \in Worker |-> <<>>]
  /\ wpc = [w \in Worker |-> "off"]
  /\ patience \in {p \in [Worker -> UNION {StallAfter[w] : w \in Worker}] :
                    \A w \in Worker : p[w] \in StallAfter[w]}
  /\ wrank = [w \in Worker |-> 0]
  /\ answered = [w \in Worker |-> 0]
  /\ results = [w \in Worker |-> {}]

-----------------------------------------------------------------------------
(* Connections *)

\* The coordinator sends frames[w] to every worker w of the connections it holds.
SendAll(connections, frames) ==
  toWorker' = [w \in Worker |->
    IF w \in Range(connections) /\ ~ Gone(w) THEN Append(toWorker[w], frames[w])
    ELSE toWorker[w]]

\* recv on the connection of w: the next frame f ...
Reads(w, f) ==
  /\ toCoord[w] # <<>>
  /\ f = Head(toCoord[w])
  /\ toCoord' = [toCoord EXCEPT ![w] = Tail(@)]

\* Mutant: only the orderly end of a connection is noticed.
ReadFailsOnExit(w) ==
  /\ wpc[w] = "exited"
  /\ toCoord' = [toCoord EXCEPT ![w] = <<>>]

\* ... or a failure, which takes with it what was still under way.
ReadFails(w) ==
  /\ Gone(w)
  /\ toCoord' = [toCoord EXCEPT ![w] = <<>>]

\* A worker sends f; a coordinator that ended reads it no more.
Sends(w, f) ==
  toCoord' = [toCoord EXCEPT ![w] = IF cpc \in Ended THEN @ ELSE Append(@, f)]

\* A worker's recv: the next frame, if there is one.
Receives(w, at) ==
  /\ wpc[w] = at
  /\ toWorker[w] # <<>>
  /\ toWorker' = [toWorker EXCEPT ![w] = Tail(@)]

-----------------------------------------------------------------------------
(* A worker *)

\* GROUP_ACCEPT (the kind is not looked at), answered by BARRIER.
TakeAccept(w) ==
  /\ Receives(w, "accept")
  /\ wrank' = [wrank EXCEPT ![w] = Head(toWorker[w]).rank]
  /\ Sends(w, Frame("BARRIER", Head(toWorker[w]).n, 0))
  /\ wpc' = [wpc EXCEPT ![w] = "ack"]
  /\ UNCHANGED <<cpc, backlog, patience, answered, results>>

\* Whatever comes after BARRIER is taken for its acknowledgement.
TakeAck(w) ==
  /\ Receives(w, "ack")
  /\ wpc' = [wpc EXCEPT ![w] = "loop"]
  /\ UNCHANGED <<cpc, backlog, toCoord, patience, wrank, answered, results>>

\* The main loop: a request is answered, or the worker stalls for good; any
\* other frame is passed over.
TakeRequest(w) ==
  LET f == Head(toWorker[w]) IN
  /\ Receives(w, "loop")
  /\ \/ /\ f.kind # "REQUEST_COLLECTIVE"
        /\ UNCHANGED <<wpc, answered, toCoord>>
     \/ /\ f.kind = "REQUEST_COLLECTIVE"
        /\ answered[w] >= patience[w]
        /\ wpc' = [wpc EXCEPT ![w] = "stalled"]
        /\ UNCHANGED <<answered, toCoord>>
     \/ /\ f.kind = "REQUEST_COLLECTIVE"
        /\ answered[w] < patience[w]
        /\ Sends(w, Frame("CONTRIBUTION", f.n, wrank[w]))
        /\ answered' = [answered EXCEPT ![w] = @ + 1]
        /\ wpc' = [wpc EXCEPT ![w] = "result"]
  /\ UNCHANGED <<cpc, backlog, patience, wrank, results>>

\* After a contribution: the RESULT, or the worker gives up.
TakeResult(w) ==
  LET f == Head(toWorker[w]) IN
  /\ Receives(w, "result")
  /\ \/ /\ f.kind = "RESULT"
        /\ results' = [results EXCEPT ![w] = @ \cup {f.n}]
        /\ Sends(w, Frame("COMPLETE", f.n, 0))
        /\ wpc' = [wpc EXCEPT ![w] = "loop"]
     \/ /\ f.kind # "RESULT"
        /\ wpc' = [wpc EXCEPT ![w] = "exited"]
        /\ UNCHANGED <<results, toCoord>>
  /\ UNCHANGED <<cpc, backlog, patience, wrank, answered>>

\* Mutant: the end of the connection is noticed in the main loop only.
SeeClosedInLoop(w) ==
  /\ cpc \in Ended
  /\ wpc[w] = "loop"
  /\ toWorker[w] = <<>>
  /\ wpc' = [wpc EXCEPT ![w] = "exited"]
  /\ UNCHANGED <<cpc, backlog, toCoord, toWorker, patience, wrank, answered, results>>

\* The coordinator ended: a receive fails, with or without the frames still
\* under way.  A worker that waits for the acknowledgement goes on to its loop.
SeeClosed(w) ==
  /\ cpc \in Ended
  /\ wpc[w] \in {"accept", "ack", "loop", "result"}
  /\ wpc' = [wpc EXCEPT ![w] = IF @ = "ack" THEN "loop" ELSE "exited"]
  /\ toWorker' = [toWorker EXCEPT ![w] = <<>>]
  /\ UNCHANGED <<cpc, backlog, toCoord, patience, wrank, answered, results>>

-----------------------------------------------------------------------------
(* The life of a worker process *)

\* A worker process starts, connects, and sends HELLO and JOIN_GROUP.
Launch(w) ==
  /\ wpc[w] = "off"
  /\ wpc' = [wpc EXCEPT ![w] = "accept"]
  /\ backlog' = Append(backlog, w)
  /\ toCoord' = [toCoord EXCEPT ![w] = <<Frame("HELLO", 0, 0), Frame("JOIN_GROUP", 0, 0)>>]
  /\ UNCHANGED <<cpc, toWorker, patience, wrank, answered, results>>

Ends(w) ==
  /\ wpc[w] \notin {"off", "dead", "exited"}
  /\ wpc' = [wpc EXCEPT ![w] = "dead"]
  /\ toWorker' = [toWorker EXCEPT ![w] = <<>>]
  /\ UNCHANGED <<cpc, backlog, toCoord, patience, wrank, answered, results>>

Die(w) == w \in Mortal /\ Ends(w)

WorkerStep(w) ==
  TakeAccept(w) \/ TakeAck(w) \/ TakeRequest(w) \/ TakeResult(w) \/ SeeClosed(w)

=============================================================================
