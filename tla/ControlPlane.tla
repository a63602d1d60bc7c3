---------------------------- MODULE ControlPlane ----------------------------
(***************************************************************************)
(* The control state of the Runtime: the authority ground truth and the    *)
(* path health (runtime.cpp), with what the coordinator tool does to them: *)
(* reconfigure, regroup, save, and recover in a fresh process.             *)
(*                                                                         *)
(* A claim needs no state of its own: messages may be delayed, duplicated  *)
(* and replayed at will, so the properties quantify over every claim.      *)
(* newest and known are history: the newest generation of the reports with *)
(* a known state accepted since the process started, and of all of them    *)
(* since the record was last UNKNOWN.                                      *)
(* A save is one step here; how it can be torn belongs to the store.       *)
(***************************************************************************)
EXTENDS Authority

CONSTANT NoFile   \* nothing saved yet

VARIABLES
  truth,     \* authority_
  health,    \* health_: state and generation
  saved,     \* epoch of the saved state file, or NoFile
  newest,    \* history: newest generation of a report of a known state
  known      \* history: newest generation since the record was last UNKNOWN

vars == <<truth, health, saved, newest, known>>

HealthState == {"HEALTHY", "DEGRADED", "UNHEALTHY", "UNKNOWN"}
HealthRecord == [state : HealthState, gen : Generation]

ASSUME NoFileAssumption == NoFile \notin Generation

TypeOK ==
  /\ truth \in GroundTruth
  /\ health \in HealthRecord
  /\ saved \in Generation \cup {NoFile}
  /\ newest \in Generation /\ known \in Generation

\* Runtime(): epoch 1, no live incarnation, nothing recorded.
FreshTruth ==
  [epoch |-> 1, live_boot |-> Null, group |-> 0, collective |-> 0,
   attempt |-> 0, dispatch |-> 0]

FreshHealth == [state |-> "UNKNOWN", gen |-> 0]

Init ==
  /\ truth = FreshTruth
  /\ health = FreshHealth
  /\ saved = NoFile
  /\ newest = 0 /\ known = 0

-----------------------------------------------------------------------------
AdvanceEpoch ==
  /\ truth' = [truth EXCEPT !.epoch = NextGen(@)]
  /\ UNCHANGED <<health, saved, newest, known>>

SetLiveBoot(b) ==
  /\ truth' = [truth EXCEPT !.live_boot = b]
  /\ UNCHANGED <<health, saved, newest, known>>

\* After a new group generation g: the representative incarnation, then the
\* generations through authority() (the coordinator writes 2, 1, 2, 2).
Regroup(b, g) ==
  /\ truth' = [truth EXCEPT !.live_boot = b, !.group = g, !.collective = 1,
                            !.attempt = g, !.dispatch = g]
  /\ UNCHANGED <<health, saved, newest, known>>

\* build_state and Store::save: of the truth, the epoch is what recovery uses.
Save ==
  /\ saved' = truth.epoch
  /\ UNCHANGED <<truth, health, newest, known>>

\* Mutant: the recovered process keeps the epoch of its constructor.
RecoverForgetsEpoch ==
  /\ saved # NoFile
  /\ truth' = FreshTruth
  /\ health' = FreshHealth
  /\ newest' = 0 /\ known' = 0
  /\ UNCHANGED saved

\* The process ended, at any point, and run_recover starts a fresh one: the
\* saved epoch, no live boot; generations and health are not restored.
Recover ==
  /\ saved # NoFile
  /\ truth' = [FreshTruth EXCEPT !.epoch = saved]
  /\ health' = FreshHealth
  /\ newest' = 0 /\ known' = 0
  /\ UNCHANGED saved

Later(g, h) == IF h > g THEN h ELSE g

\* The report h becomes the record, whatever it is.
Accept(h) ==
  /\ health' = h
  /\ newest' = IF h.state = "UNKNOWN" THEN newest ELSE Later(newest, h.gen)
  /\ known' = IF health.state = "UNKNOWN" THEN h.gen ELSE Later(known, h.gen)
  /\ UNCHANGED <<truth, saved>>

\* Mutant: any report replaces the record.
UpdateHealthUnguarded(h) == Accept(h)

\* update_health: a report older than the record is refused (and counted as a
\* stale rejection; those counters are left out), unless the record is UNKNOWN,
\* which is_zero() takes for none at all.
UpdateHealth(h) ==
  /\ health.state = "UNKNOWN" \/ h.gen >= health.gen
  /\ Accept(h)

\* advance_health: path is a participant, worker, transport or device failure.
AdvanceHealth(current, path) ==
  IF path THEN IF current = "UNHEALTHY" THEN "UNHEALTHY" ELSE "DEGRADED"
  ELSE IF current = "UNKNOWN" THEN "DEGRADED" ELSE current

\* A failure reported the way the callers of advance_health do it.
ReportFailure(path) ==
  UpdateHealth([state |-> AdvanceHealth(health.state, path),
                gen |-> NextGen(health.gen)])

Next ==
  \/ AdvanceEpoch
  \/ \E b \in Boot \cup {Null} : SetLiveBoot(b)
  \/ \E b \in Boot, g \in Generation \ {0} : Regroup(b, g)
  \/ Save
  \/ Recover
  \/ \E h \in HealthRecord : UpdateHealth(h)
  \/ \E path \in BOOLEAN : ReportFailure(path)

Spec == Init /\ [][Next]_vars

-----------------------------------------------------------------------------
\* "Authority is scoped to a WorkerBootId plus the current epoch and
\* generations" (authority.hpp), for every claim that can arrive: one that is
\* acted upon has the current epoch, no older generation, and comes from the
\* live incarnation where there is one, however large its numbers are.
AcceptanceIsSound ==
  \A c \in Claim : Accepted(truth, c) =>
    /\ c.epoch = truth.epoch
    /\ ~ Lags(truth, c)
    /\ truth.live_boot # Null => c.boot = truth.live_boot

\* What the live incarnation may count on: with the current epoch and no older
\* generation, newer ones or a mixture included, every claim of its is acted
\* upon but one, which is told apart: the completion with exactly the
\* generations in force is a DUPLICATE.
LiveIncarnationServed ==
  \A c \in Claim :
    /\ c.boot = truth.live_boot /\ c.boot # Null
    /\ c.epoch = truth.epoch
    /\ c.group >= truth.group /\ c.collective >= truth.collective
    /\ c.attempt >= truth.attempt /\ c.dispatch >= truth.dispatch
    => IF c.is_completion /\ Same(truth, c)
       THEN Evaluate(truth, c) = "DUPLICATE"
       ELSE Accepted(truth, c)

\* Fencing survives a crash: a claim of an epoch older than the saved one is
\* acted upon neither by the process that saved nor by one that recovers.
DurableFencing ==
  saved # NoFile =>
    \A c \in Claim : c.epoch < saved => ~ Accepted(truth, c)

\* A reconfiguration fences: once the epoch has moved, within one process,
\* nothing that was accepted before is accepted again.  (At the largest epoch
\* next() stays, the epoch does not move, and nothing is fenced.)
ReconfigurationFences ==
  [][truth'.epoch # truth.epoch /\ ~ Recover
     => /\ truth'.epoch > truth.epoch
        /\ \A c \in Claim : c.epoch <= truth.epoch => ~ Accepted(truth', c)]_vars

\* Reports in any order, failures included: a record that is not UNKNOWN is the
\* newest of those accepted since it last was.  (An UNKNOWN record gives way to
\* any report, however old: see OldReportsRefused.)
KnownHealthIsNewest == health.gen = known

(* What the repository says and the code does not do *)

\* "Old reports cannot overwrite fresh state" (health.hpp:3-4, README.md:53): a
\* record with a known state is not older than such a record before it was.
OldReportsRefused == health.state # "UNKNOWN" => health.gen >= newest

=============================================================================
