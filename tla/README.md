# Collective Fabric in TLA+

A TLA+ development of Collective Fabric: modules that model the library and its
multiprocess proof, TLC configurations that check them on small instances, and
theorems that TLAPS checks for every value of the constants. `PROJECT.json` maps
each definition to the lines it models and lists runs, mutants, findings, hazards
and theorems.

## 1. The system

Collective Fabric runs collectives (barrier, broadcast, reduce, all-reduce,
all-gather, reduce-scatter) among the ranks of a group. A collective is described,
validated, planned, reserved, dispatched and executed, and it succeeds only when
every rank of its group generation is on record.

| Part | State it keeps | Operations | Hard about it |
|---|---|---|---|
| Lifecycle (`lifecycle.hpp`) | state of one execution | `transition_to` | which moves exist from where; callers that swallow its error |
| Runtime (`runtime.cpp`) | groups, executions, measurements, health, authority, all under `mu_` | create, plan, reserve, dispatch, execute, complete_rank, fail, abort, cancel, mark_stale, update_health, advance_epoch, ... | `execute_collective` releases `mu_` around the engine; operations that throw half way |
| Accounting (`accounting.hpp`) | counters under a lock of its own | started, completed, aborted, reserve, release, rank contributions | must balance through partial failures |
| Authority (`authority.hpp`, `generation.hpp`) | epoch, live boot, four generations | `evaluate_authority`, `next()` | stale claims with large numbers; saturation |
| Health (`health.hpp`) | one record | `update_health`, `advance_health` | reports out of order |
| Groups (`group.hpp`) | participants in a builder; registered generations | add, build, validate, register, rebuild from a file | null means zero, also for a rank; a builder that is used again |
| Store (`store.cpp`) | a state file and a temporary one | encode, decode, save, load | a crash at any byte; damaged files |
| Descriptor (`descriptor.hpp`) | the request | validate, byte counts | overflow |
| Planner (`planner.cpp`) | none | candidates, plan | a scan whose criterion depends on what was measured; saturation |
| Engine (`engine.hpp`) | none | execute | sizes, block arithmetic, wrap-around |
| Coordinator, workers (`tools/`) | connections, groups, state files | the scenario of `test_multiprocess.cpp` | blocking receives without timeout, deaths, frames left over from an abandoned round |
| Recovery (`run_recover`) | a new runtime, connections | load, rebuild, one all-reduce with two new workers | starts from whatever the first process left; ignores failed receives |
| Framing (`protocol.cpp`, `mp.hpp`, `tcp.hpp`) | bytes received so far; the write lock | encode, decode, feed, next; send, recv | frames cut anywhere, partial sends, several writers, damaged fields |
| Topology (`topology.hpp`) | nodes, devices, links | add, look up | none that needs a model checker |

How they interact: callers use the runtime from several threads; the runtime calls
planner, engine, lifecycle and accounting. The coordinator owns a runtime, exchanges
frames with worker processes over TCP, and saves its state; a recovering process
loads that file into a fresh runtime. Workers never talk to each other.

What makes each part correct is stated by the properties of section 4.

## 2. Modules

| Module | Models | Variables and actions |
|---|---|---|
| `Lifecycle` | the transition table, terminal states | operators |
| `QuorumCommit` | abstract: what the runtime promises about one collective | outcome, members, arrived |
| `Runtime` | executions, quorum, accounting, threads inside `execute_collective` | one action per operation; `execute_collective` is `ExecuteBegin`, `ExecuteRun`, `EngineThrows`, `ExecuteFail`, `ExecuteSucceed`, cut where the code takes and releases `mu_` |
| `Authority` | `evaluate_authority` and `next()` | operators |
| `ControlPlane` | ground truth and health of a runtime, saving and recovering the epoch | AdvanceEpoch, SetLiveBoot, Regroup, Save, Recover, UpdateHealth, ReportFailure |
| `GroupRegistry` | the builder, the registry, rebuilding saved groups | AddParticipant, GiveGenerations, Register |
| `StateKeeper` | abstract: what saving and recovering amount to, without files | mem, proc, saved, recovered; Change, Save, End, Start, Recover |
| `Store` | file format, save in steps, load, crash, loss of power and recovery | Change, SaveOpen, SaveWrite, SaveRename, End, WriteBack, PowerLoss, Start, Recover |
| `FifoChannel` | abstract: what a connection promises, without bytes | in, out, dead; Put, Take, Refuse |
| `FrameStream` | one direction of a `FrameChannel`: encode, locked partial sends, TCP, the streaming decoder | Send, Write, WriteFails, Cut, Damage, RecvSome, RecvFrame, RecvReject, RecvClosed |
| `Workers` | `worker.cpp` and the connections between processes, whole frames | Launch, TakeAccept, TakeAck, TakeRequest, TakeResult, SeeClosed, Ends |
| `Coordinator` | `run_coordinator` (extends `Workers`) | one action per receive, per loop of sends, per save |
| `Recovery` | `run_recover` and `rebuild_runtime` (extends `Coordinator`) | RecoverLoad, RecoverAccept, RecoverForm, RecoverBarrier, RecoverRelease, RecoverRequest, RecoverContribution, RecoverResult, RecoverAcks |
| `Multiprocess` | composes these with the test's driver and with deaths | Start, Kill, CoordinatorDies, StartRecovery |
| `Descriptor` | descriptor, sizes, checked arithmetic | operators |
| `Planner` | candidates, estimates, selection | operators |
| `Engine` | the six collectives | operators |
| `Pipeline` | one request through validation, planner and engine | CreateCollective, PlanCollective, ExecuteCollective, CallEngine |
| `RuntimeProofs`, `ControlPlaneProofs`, `FrameStreamProofs`, `MultiprocessProofs`, `GroupRegistryProofs`, `StoreProofs`, `PipelineProofs` | theorems about the module of that name | |
| `InductionLemmas` | induction on numbers and finite sets, recursive functions exist, folds | |
| `MC*` | instances | |

Conventions. An operation that throws before it changed anything is no step. One that
throws half way keeps what it had written: `abort_collective` after its transition,
`complete_rank` after recording the rank, `reserve_collective` of a barrier whose byte
count overflows, `plan_collective` when the planner throws. A definition that is a
*mutant* of the next one says so in its comment; it is used by no specification and
serves to show that a property can fail. An optional value or a result that may be an
exception is, in `Descriptor`, `Planner` and `Engine`, a set of at most one member.

Ids drawn from `next_id_` are named by what they belong to; timestamps, texts, logs and
payload bytes (outside `Engine`) are left out.

## 3. Runs

| Run | Instance | Shows |
|---|---|---|
| `runtime_quorum` | 1 collective, 2 threads, groups of 1 or 2 ranks, 3 kinds | the quorum rule, no stranded and no doubled run, final outcomes, successes with a record, balanced counters, refinement of `QuorumCommit`, every run ends |
| `runtime_teardown` (violation) | 1 collective | a failed collective stays counted as active |
| `control_plane` | 2 incarnations, generations up to 3, saturation included | authority, fencing, health |
| `control_plane_health` (violation) | the same | after UNKNOWN an old report becomes the record |
| `coordinator` | workers A, B, A2, then A3 and B3; each of them and the first coordinator may die at any point; A stalls after 1, 2 or no requests | no mixed rounds, no unfounded measurement, everyone ends, the recovery completes |
| `coordinator_fresh` (violation) | exactly the test's scenario | the fresh collective does not run |
| `groups` | up to 3 participants with ids and ranks 0 to 2, null and repeated identities; any order of equal sort keys | dense ranks, immutable groups, recovery keeps ranks |
| `store` | 3 states with 0 to 2 groups; every field set to each of 0 to 7; files torn after each field | atomic saves, truncated files rejected, torn and damaged files, strict decoding, refinement of `StateKeeper` |
| `frames` | 2 senders, 2 frames of 0 to 3 bytes with a limit of 2, reads of 1 to 7 cells, 1 changed cell | a FIFO channel, no false rejection, frames arrive |
| `store_revalidation` (violation) | the same | recovered measurements stay CURRENT |
| `pipeline` | all kinds and operations, 3 datatypes, 1 to 4 ranks, counts 0, 1, 2 and one that overflows | the plan is the best one, estimates saturate, results are the collectives' |
| `pipeline_all_gather` (violation) | the same | ALL_GATHER fails through the runtime |

Why the bounds are enough. *Runtime*: a race on one collective needs two callers of
`execute_collective` and the other operations, which are not tied to a thread; executions
meet only in the counters, which the theorems cover for any number of executions. Two ranks tell one completion from a
quorum, and `Rank` holds one rank outside every group. The theorems drop all these bounds.
*ControlPlane*: `MaxGen` is the saturation value, reached in three steps, and every claim is
tried in every state. *Multiprocess*: the program is fixed to two ranks, three rounds, one
replacement and one recovery, so the instance is the program. *FrameStream*: with two frames a
read can hold the end of one and the start of the next, and two senders can meet at the lock; a
frame above the limit, an empty one and the largest one are sent; a changed cell becomes a
smaller or larger length, an unknown kind, another byte. The theorems drop these bounds too. *GroupRegistry*: three participants give every
shape of rank assignment (null, hole, duplicate, dense in another order). *Store*: a save is
cut after each field, damage touches one field (which reaches every check of `decode` but the limit on the
numbers of groups and of measurements: there only the theorem speaks), a torn file is cut or zero after each field; the checksum is
a weighted sum of the fields, which tells all of these apart. *Pipeline*: `MaxU64` is 63 and `Modulus` 5,
so that products, byte counts and elements overflow in both the planner and the engine; one measured
bandwidth does not divide `Second`; INT64 elements have either sign; three
ranks tell a fold from a pairwise operation and `RING` from `TREE`, and with four the fewest
steps and the fewest bytes belong to different algorithms.

Deadlock is checked except in the coordinator, pipeline and `frames` runs, where a scenario,
a request or a bounded stream ends.

Fairness. `runtime_quorum` assumes that a thread inside `execute_collective` goes on
(`ThreadStep`): the engine is a loop over its inputs and `mu_` is held for bounded work. No
caller is assumed to do anything else. `coordinator` assumes that each coordinator and each
live worker take a step that is enabled, and that the driver starts the workers and kills
its victim, as the test does. Nothing forces a process to die by itself, a worker to stall, a
connection to lose what was sent, or the recovery to be started: the workers of the first
coordinator must end without the driver's help. `frames` assumes that a thread in `send_all` goes
on with its loop and that the receiver goes on calling `recv`; nothing makes anybody send.

Assumed of the driver: the fixed times that it waits are long enough for a coordinator to listen
before its workers connect, and for the first coordinator to have ended before the second starts.

## 4. What holds

*Runtime.* `QuorumBeforeSuccess`: SUCCEEDED implies every rank of the group generation on
record, whatever `complete_rank`, `fail`, `abort` and `cancel` do while the engine runs.
`AtMostOneRun`: a collective goes through the engine at most once. `InFlightHasExecutor`:
RUNNING and COMPLETING always belong to a thread that will end them, and `InFlightEnds` says
it does. `NoResurrection`: failed, aborted, cancelled and stale collectives stay so.
`SuccessIsDocumented`: a success and the result of the engine can come apart (a completion from
elsewhere may succeed first, an abort may come in between), yet a success always has a measurement
or a failure on record, or a thread about to write one, and what was measured has an outcome and
all its ranks. `AccountingConserved`, `CleanTeardown`. `ImplementsQuorumCommit`: the refinement.

*Authority and health.* `AcceptanceIsSound`: an accepted claim has the current epoch, no
older generation, and the live boot if there is one. `LiveIncarnationServed`: conversely, what the
live incarnation claims with the current epoch and no older generation is acted upon, but for the
completion with exactly the generations in force, which is a DUPLICATE. `ReconfigurationFences` and `DurableFencing`: an epoch that
moves fences all that was accepted before, and a saved epoch fences through a crash.
`KnownHealthIsNewest`: in whatever order reports arrive, a record that is not UNKNOWN is the newest
of those accepted since it last was; across an UNKNOWN the promise is broken (point 6 of section 5).

*Frames.* `ImplementsChannel`: whatever the pieces of writes and reads, recv returns what was
sent, unchanged, once, in order, and nothing after a rejection. `RejectedForCause`: it rejects
only damage, or a frame above the limit, which `encode` does not check and which costs the peer
the connection. `EveryFrameArrives`.

*Multiprocess.* `ReductionIsOfThisRound`: although a contribution's authority is not compared
with the round, no contribution left in a connection by an abandoned round is reduced in a
later one. It holds only because dead connections are never dropped (point 2 of section 5): if
they were, the replacement would be grouped with a survivor whose stale contribution is the
next frame read. `MeasuredMeansDelivered`: any frame counts as an acknowledgement, yet a measurement
is written only when both members took the result. `CoordinatorEnds`, `WorkersEnd`: although no receive has a timeout. `RecoveryCompletes`: once a
state was saved, and wherever the first coordinator ended or died, the second one completes its
all-reduce with both new workers unless one of these dies, although it looks at no kind of frame
and passes over failed receives: each connection's order still brings it the frame it waits for.
It rests on the acknowledgement of the barrier being sent, which takes the place of the frame that
a worker drops unread.

*Groups and store.* `RanksDenseById`, `MembershipImmutable`, `RecoveryKeepsRanks`;
`SavesAreAtomic` (as long as the power does not fail: the renamed file is not synced, and a loss
of power may leave neither the new state nor the old one), `BrokenFilesRejected` (a temporary file
that a crash left unfinished, and a state file that a loss of power cut short or filled with zeros,
unless all that is missing were zeros), `DamageNeverMisread`,
`DecodeIsStrict` (whatever field is changed under a right checksum, what `decode` accepts has distinct keys of
groups, participants, ranks and measurements, known values of every enumeration and counts within the limit), and `ImplementsKeeper`: a recovered process goes on from the last state that was
saved as a whole, or from none.

*Pipeline.* `PlanIsBest`: the sequential scan finds the minimum of the total order (time,
steps, movement, place). `TREE` serves every kind under the same constraints as
`BACKEND_DEFAULT`, so the fallback loop of `plan()` is never needed. `EstimatesSaturate`.
`ResultIsTheCollective`: results against definitions without an order; the blocks of a
reduce-scatter, put together, are an all-reduce.

## 5. Where code and documents disagree

1. *Teardown.* `accounting.hpp` wants the active count closed at teardown; failure and
   cancellation do not close it (`runtime_teardown`).
2. *Fresh collective.* The coordinator's check for dead workers looks at its own socket, so
   the new group contains the dead worker, round 3 is lost at once, and success is logged
   (`coordinator_fresh`).
3. *Explicit ranks.* Rank 0 is the null rank, so a dense explicit assignment is always taken
   for missing and replaced by the order of ids. No run of its own: `RanksDenseById`, which `groups` checks and
   `RanksAreDense` proves, says that the order of ids decides in every registered group.
4. *Revalidation.* Recovery logs that measurements need revalidation and leaves them CURRENT
   (`store_revalidation`).
5. *All-gather.* `execute_collective` asks for `rank_count * element_count` elements per rank,
   the engine for `element_count`; with two ranks or more the collective cannot succeed
   (`pipeline_all_gather`).
6. *Health.* "Old reports cannot overwrite fresh state", but `update_health` compares generations
   only when the record is not UNKNOWN, and an UNKNOWN record has a generation as well: after HEALTHY of
   generation 1 and UNKNOWN of generation 1 or later, a delayed report of generation 0 is the record
   (`control_plane_health`).

Also worth knowing, without a document that says otherwise: with a null live boot, as after a
recovery, `evaluate_authority` refuses no boot identity but the null one, so that claims of an
epoch that was lost in a crash pass once the recovered process has counted up to it again; an execution that was
failed or aborted while its engine ran still gets a measurement with `success = true`; an abort of a collective
that was never reserved lowers the active count all the same; the measurements of rounds 1 and 2 have one id
(1000 + generation), so that the second would replace the first; a collective whose
planning threw can be executed with an empty plan; only generation 1 of the group is ever saved;
a changed length field that is still below the limit makes the receiver wait for bytes that do not
come, since nothing has a timeout; a stream cut in the middle of a frame is reported as "connection
closed", like an orderly end; the recovery reports its all-reduce as done when a worker died before
its result; the recovered measurements are counted and not given to the new runtime;
`Topology::link_between` returns the first link it finds, although its comment speaks of the best one;
`reduce()` does not compare the root with the group (the model marks such a run *undefined*).

## 6. What is proved

TLAPS checks, for every value of the constants (numbers of executions, threads, generations, ranks,
frames, participants, saved states and descriptors; the width of integers, the limits of sizes):

| Module | Theorems |
|---|---|
| `RuntimeProofs` | `TypeCorrect`, `QuorumSafety`, `OutcomesAreFinal`, `Refinement`, `AccountingBalances`, `SingleRun`, `NeverStranded`, `SuccessDocumented`, `TeardownIsClean` |
| `ControlPlaneProofs` | `ControlTypeCorrect`, `AuthoritySound`, `AuthorityServes`, `FencingIsDurable`, `ReconfigurationIsFence`, `HealthKeepsNewest` |
| `FrameStreamProofs` | `TypeCorrect`, `NoFalseRejection`, `ChannelRefinement` |
| `MultiprocessProofs` | `Invariant`, `TypeCorrect`, `ReductionsAreOfTheirRound`, `MeasurementsMeanDelivery` |
| `GroupRegistryProofs` | `Invariant`, `TypeCorrect`, `RanksAreDense`, `RebuildingIsExact`, `GroupsAreImmutable` |
| `StoreProofs` | `RoundTrip`, `LoadedMayBeSaved`, `Invariant`, `TypeCorrect`, `AtomicSaves`, `BrokenFilesDoNotLoad`, `DamageIsSeen`, `StrictDecoding`, `Refinement` |
| `PipelineProofs` | `Invariant`, `TypeCorrect`, `PlansAreBest`, `EstimatesAreExact`, `FallbackIsNeverTaken`, `ResultsAreTheCollectives` |

Assumptions on constants, evaluated by TLC in every run that uses the modules: `RuntimeAssumption` (at
least one rank, finitely many executions, `None` is not an execution), `AuthorityAssumption`,
`FrameAssumption` (kinds are among the known ones, payloads are sequences of bytes, sizes are positive),
`WorkerAssumption` (the five workers of the scenario, with boot identities that tell them apart),
`GroupAssumption` (bounds are numbers), `StoreAssumption` (the states are ones that the runtime exports:
keys are distinct, since it keeps them in maps, and counts are within the limits of the format),
`ChecksumAssumption` (the checksum tells a payload from one with a field changed or with zeros from some field on,
and that of as many zeros is not 0: CRC-32 finds every change within 32 consecutive bits and, of what is damaged
further, all but one case in 2^32; it starts from ones, so that zeros do not have the checksum 0),
`MaxU64Assumption`, `SecondAssumption`, `ModulusAssumption` (the modulus is positive) and `PipelineAssumption`
(a group has one rank at least and at most `MaxU64`, measurements are numbers, kinds, reductions and datatypes
are those of the enumerations, and a buffer of a given length has that many elements: those of UINT32 in
`0 .. Modulus - 1`, others any integers).

*Runtime.* `BaseInv` is the type invariant with two facts it needs to be inductive: `Created`
(an execution that exists has a descriptor, and its group is registered) and `Working` (a
thread that is not idle holds an existing execution). `StepShapes` then shows that every step
has one of a few shapes on groups, states and completions (`StepShape`): nothing changes there,
a group is registered,
an execution is created, or one execution gains completions and moves along the transition
table, to SUCCEEDED only with its quorum. Quorum safety, finality and the refinement follow from
`StepShape` alone, so the 17 actions are analysed once. `AtMostOneRun` is not inductive: it needs
that an execution in a state before RUNNING has no measurement and no thread in the engine
(`RunOnce`), with `NeverBack`: no step returns to such a state. `NeverStranded` is inductive with
`BaseInv`: a collective comes into flight only by `ExecuteRun`, and the executor leaves only
through `ExecuteSucceed` or `ExecuteFail`, which end it. `SuccessDocumented` follows a success back
to the flight it came from: with `NeverStranded` a collective in flight has its executor, records
only grow, and the executor leaves a record behind. `TeardownIsClean` needs arithmetic on sets: the
active count is at most the number of collectives that were reserved and have no measurement yet
(`FiniteSetTheorems`), and that set is empty when everything reserved has succeeded.

*FrameStream.* TLC checked the inductive invariant before it was proved. `Layout`: the start of
each frame sent is the start of the one before plus its size, so the stream is divided into the
frames, the last of them perhaps unfinished. `Writer`: what the holder of the lock has left is the
tail of the last frame, and nobody else has anything left: this is what the lock is for.
`Written`: every cell of the stream is the cell of its frame or, after damage, some byte. `Reader`: what the
decoder erased are exactly the frames delivered, and these are the first of those sent; with
damage, a frame whose checksum matches is still the frame sent, since the checksum covers all
that the decoder looks at. The refinement maps `Send` to `Put`, `RecvFrame` to `Take`, `RecvReject`
to `Refuse` and everything else to a stutter.

*ControlPlane.* `EvaluateSound` is a lemma about the decision procedure alone. Durable fencing
needs that the saved epoch is never ahead of the current one (`SavedIsPast`). `AuthorityServes` is about every
claim of the live incarnation that is not older; what is older, also of the live incarnation, is refused.
`KnownHealthIsNewest` is inductive with the type invariant.

*Multiprocess.* A reduction of this round cannot be had from what the coordinator checks, since it
does not compare a contribution with the round. The invariant is about each connection as a whole, from
the worker's program counter over the frames on their way to where the coordinator is: `InStep` says, for
each point of the coordinator, that both workers have sent what it has not yet received and nothing else,
so that the next frame is the one it waits for. This breaks down where a member has died in the
middle of a round; what holds then is `Stuck`: the first connection, from which every receiving loop
starts, will never bring a frame again, so that the rounds that follow are abandoned at once and never get
to the survivor's stale contribution. `Synchrony`, their disjunction, is inductive; `GotRight`
and `Acknowledged` follow from it what was received. The actions are split into those that send, those that
receive, and those that stay within the coordinator, and each part of the invariant has its own lemma for each of these.

*GroupRegistry.* `std::sort` leaves the order of equal keys open, so the model sorts to any arrangement
that the comparison allows. A registered group is `Ordered`: in the order of ids, with ranks 0, 1, 2, ...
Such a sequence has no other order (`IncreasingIsIdentity`), whence a rebuilt group is the one that was saved,
whichever way the entries were arranged.

*Store.* `RoundTrip`: `decode` returns what `encode` was given, for a state of any size, in
front of any rest. The functions that read and join are recursive. `InductionLemmas` shows by least
counterexample that a function with such equations exists, and hence that the recursive definition satisfies
them; induction then goes over sets of positions, since no library theorem with an operator as parameter can be
used. `LoadedMayBeSaved` is the other direction: whatever `decode` accepts is `Exported`
(`AcceptedIsExported`), which is also what `StrictDecoding` says of a changed field, so that writing it again
and reading it back changes nothing. The invariant for the saves is in three parts: `Frozen` (a state does not change while it is saved),
`Written` (the temporary file has a prefix of the frame, or all of it), `Kept` (the state file is the frame of
the last state renamed, or torn from it). What a torn or damaged file may load as is a matter of where it is
damaged (`ZeroedLoads`, `ChangedLoads`): magic and length are compared, without the length there is no payload,
without the checksum zeros would have to be their own, and behind it the checksum decides; only the version may
be lower, and changes nothing. `LoadsTheLastSaved` follows: whatever loads is the last state that was saved, which
is what the refinement of `StateKeeper` needs. It maps `SaveRename` to `Save`, `PowerLoss` to `End`, and the
pieces of a save to stutters.

*Pipeline.* `CheckedProduct` shows that the overflow test of `checked_mul`, which divides, lets exactly the
products through that fit; `MovementSaturates` that a saturated product of a saturated product is the
saturated product. `BetterIsAnOrder`: the comparison of `plan()` is a strict order whatever was measured, so
the best of the first k candidates (`BestOfFirst`) is kept by each round of the scan (`BestOfNext`). Estimated
times are compared as exact integers, scaled by the bandwidth: what rounding does to the order of two doubles is outside the theorem.

`ResultsAreTheCollectives` compares a fold in rank order that wraps at every step (`do_reduce`) with
definitions that name no order and wrap once. `OrderDoesNotMatter` (`InductionLemmas`) is the fact about folds:
where the steps commute, a recursive function that takes the members of a set in whatever order `CHOOSE` or `Max`
picks them ends where one that counts from 1 to n ends. `Sums` and `Products` apply it to the definitions, `LeftFold`
to the engine; `WrapsOnce` moves the remainder out of the sum or product, and `SumReduced` to `MaxReduced`
compare the two for each operation. `OneBlockEach` gets the number of elements back from the engine's
test of bytes, `Gathered` finds the members of joined buffers, and `Places` the block of a place, for
gather and scatter. The invariant adds that only a valid descriptor executes (`Made`) and that the outputs are the
engine's for the inputs of this execution (`Ran`). Signed elements may be of either sign, but are added and
multiplied as integers are: where a signed sum or product leaves its range the code is undefined, and where a
floating-point one is rounded the theorem says nothing.

Only model-checked is liveness (`InFlightEnds`, `CoordinatorEnds`, `WorkersEnd`, `RecoveryCompletes`,
`EveryFrameArrives`): fairness is outside this prover.

## 7. Not modelled, and why

- The topology: sequential tables. The planner reads the node count and whether ranks share a
  node, inputs of `Planner`; the other look-ups have no caller but tests, and its digest includes
  the wall clock.
- Failures of setting up a socket (listen, accept, connect), and two coordinators on one port.
- Floating-point rounding, signed overflow, SHA-256, the bits of CRC-32, name tables: arithmetic
  and data that test vectors serve better.
- Corruption that CRC-32 does not detect: for frames checksums are equal only for equal data, for state files as
  `ChecksumAssumption` says.
- A `save` whose error is caught by a caller that goes on: `run_coordinator` does not catch
  it and `run_recover` saves nothing, so in `Store` a failing save ends the process (`End`).
- A planner input without a group or a backend, which `plan()` refuses: to the runtime that is a planner that throws,
  as with an overflow.
- A rename that is lost with the power: `MOVEFILE_WRITE_THROUGH` asks for it to reach the disk.
- Records without operations, byte totals and rejection counters of the accounting, the command
  line, examples, benchmarks, and the CUDA path.

## 8. Plan

Done, in the order of importance: runtime with quorum and accounting and its proofs; authority,
health and their proofs; the multiprocess scenario; groups; store; the request pipeline;
then the byte stream with its proofs, the recovery round, and losses of power.

Then the theorems about `Multiprocess`, `GroupRegistry`, `Store`, the planner and the reference engine, and
`StateKeeper`.

Next:
1. `FifoChannel` as the specification that the connections of `Workers` are shown to refine, frame
   by frame.
2. `Topology` as an input of `Planner`.
