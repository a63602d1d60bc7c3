------------------------------- MODULE Store -------------------------------
(***************************************************************************)
(* Persistence (store.cpp) and the recovery from a state file (run_recover *)
(* in coordinator.cpp): the canonical payload, the file frame around it,   *)
(* save by way of a temporary file, load with its checks, and a process    *)
(* that may end between any two steps of a save.  save flushes its stream  *)
(* and syncs nothing, so what it renamed may still be in the system's      *)
(* cache when the power fails: the file is then there with its size, or    *)
(* cut, and holds zeros where no block was written.                        *)
(*                                                                         *)
(* A payload is the sequence of its fields, one number each.  Fields that  *)
(* are read and stored without being looked at are represented by one of   *)
(* them: of a group its id, generation and lifecycle, of a participant its *)
(* id and rank, of a measurement its id and freshness, of the health       *)
(* record its state.  The backends, the policy count and the save time     *)
(* follow the same pattern at the end and are left out.  The checksum is   *)
(* any that tells a payload from what the model damages it to.             *)
(***************************************************************************)
EXTENDS Naturals, Sequences, SequencesExt

CONSTANTS
  States,     \* runtime states that are saved
  MaxCount,   \* kMaxCount: largest count that decode accepts
  MaxField,   \* bound: values tried for a damaged field
  Crc(_)      \* Crc32::compute

Magic == 67            \* kMagic
FormatVersion == 1     \* kFormatVersion
Lifecycles == 0 .. 5   \* GroupLifecycle, as numbers
Freshness == 0 .. 3    \* CURRENT, STALE, REVALIDATION_REQUIRED, UNKNOWN
Healths == 0 .. 3      \* HealthState

Current == 0
RevalidationRequired == 2

Failed == [ok |-> FALSE]
Got(v) == [ok |-> TRUE, value |-> v]

VARIABLES
  mem,        \* what the running process would save
  proc,       \* the process: "run", "recovered", "down"
  spc,        \* where it is in save: "idle", "writing", "closed"
  snap,       \* the frame it is writing
  tmp,        \* the temporary file
  main,       \* the state file
  medium,     \* where main is: in the system's "cache", on "disk", or "torn"
  lastSaved,  \* history: the state of the last rename
  recovered   \* measurements a recovered process took from the file

vars == <<mem, proc, spc, snap, tmp, main, medium, lastSaved, recovered>>

NoFile == Failed

Distinct(s, Key(_)) == \A i, j \in DOMAIN s : Key(s[i]) = Key(s[j]) => i = j

ParticipantRecord == [id : Nat, rank : Nat]

\* A group whose participants have ids and ranks of their own.
GroupRecord ==
  {g \in [id : Nat, gen : Nat, lifecycle : Lifecycles, parts : Seq(ParticipantRecord)] :
     Distinct(g.parts, LAMBDA p : p.id) /\ Distinct(g.parts, LAMBDA p : p.rank)}

MeasurementRecord == [id : Nat, fresh : Freshness]

\* What the runtime exports: groups that validate() accepted, under different
\* generations, and measurements with different ids, no more than decode takes.
Exported(s) ==
  /\ s \in [epoch : Nat, live_boot : Nat, groups : Seq(GroupRecord),
            measurements : Seq(MeasurementRecord),
            health : {<<>>} \cup {<<h>> : h \in Healths}]
  /\ Len(s.groups) <= MaxCount /\ Len(s.measurements) <= MaxCount
  /\ \A i \in DOMAIN s.groups : Len(s.groups[i].parts) <= MaxCount
  /\ Distinct(s.groups, LAMBDA g : <<g.id, g.gen>>)
  /\ Distinct(s.measurements, LAMBDA m : m.id)

ASSUME StoreAssumption ==
  /\ MaxCount \in Nat /\ MaxField \in Nat
  /\ \A s \in States : Exported(s)

-----------------------------------------------------------------------------
(* The format *)

GroupFields(g) ==
  <<g.id, g.gen, g.lifecycle, Len(g.parts)>>
  \o FlattenSeq([i \in DOMAIN g.parts |-> <<g.parts[i].id, g.parts[i].rank>>])

\* Store::encode
Encode(s) ==
  <<FormatVersion, s.epoch, s.live_boot, Len(s.groups)>>
  \o FlattenSeq([i \in DOMAIN s.groups |-> GroupFields(s.groups[i])])
  \o <<Len(s.measurements)>>
  \o FlattenSeq([i \in DOMAIN s.measurements |-> <<s.measurements[i].id, s.measurements[i].fresh>>])
  \o (IF s.health = <<>> THEN <<0>> ELSE <<1, s.health[1]>>)

\* n fields are left from pos on.
Has(t, pos, n) == pos + n - 1 <= Len(t)

\* n items, one after the other from start on; item says what is read at a position.
ReadItems(start, n, item) ==
  LET f[k \in 0 .. n] ==
        IF k = 0 THEN [ok |-> TRUE, pos |-> start, value |-> <<>>]
        ELSE LET prev == f[k - 1]
                 next == IF prev.ok THEN item[prev.pos] ELSE Failed
             IN IF next.ok
                THEN [ok |-> TRUE, pos |-> next.pos, value |-> Append(prev.value, next.value)]
                ELSE Failed
  IN f[n]

ReadParticipant(t, pos) ==
  IF Has(t, pos, 2)
  THEN [ok |-> TRUE, pos |-> pos + 2, value |-> [id |-> t[pos], rank |-> t[pos + 1]]]
  ELSE Failed

ReadGroup(t, pos) ==
  IF ~ Has(t, pos, 4) THEN Failed
  ELSE LET parts == IF t[pos + 3] <= MaxCount
                    THEN ReadItems(pos + 4, t[pos + 3], [p \in Nat \ {0} |-> ReadParticipant(t, p)]) ELSE Failed
       IN IF /\ t[pos + 2] \in Lifecycles
             /\ parts.ok
             /\ Distinct(parts.value, LAMBDA p : p.id)
             /\ Distinct(parts.value, LAMBDA p : p.rank)
          THEN [ok |-> TRUE, pos |-> parts.pos,
                value |-> [id |-> t[pos], gen |-> t[pos + 1], lifecycle |-> t[pos + 2],
                           parts |-> parts.value]]
          ELSE Failed

ReadMeasurement(t, pos) ==
  IF Has(t, pos, 2) /\ t[pos + 1] \in Freshness
  THEN [ok |-> TRUE, pos |-> pos + 2, value |-> [id |-> t[pos], fresh |-> t[pos + 1]]]
  ELSE Failed

\* The count at pos and that many items.
ReadCounted(t, pos, item) ==
  IF Has(t, pos, 1) /\ t[pos] <= MaxCount THEN ReadItems(pos + 1, t[pos], item) ELSE Failed

\* Mutant: the health state is not looked up among those there are.
ReadHealthAny(t, pos) ==
  IF ~ Has(t, pos, 1) THEN Failed
  ELSE IF t[pos] = 0 THEN [ok |-> TRUE, pos |-> pos + 1, value |-> <<>>]
  ELSE IF Has(t, pos + 1, 1)
       THEN [ok |-> TRUE, pos |-> pos + 2, value |-> <<t[pos + 1]>>]
  ELSE Failed

\* The health flag (any number but 0 is true) and record.
ReadHealth(t, pos) ==
  IF ~ Has(t, pos, 1) THEN Failed
  ELSE IF t[pos] = 0 THEN [ok |-> TRUE, pos |-> pos + 1, value |-> <<>>]
  ELSE IF Has(t, pos + 1, 1) /\ t[pos + 1] \in Healths
       THEN [ok |-> TRUE, pos |-> pos + 2, value |-> <<t[pos + 1]>>]
  ELSE Failed

\* Store::decode
Decode(t) ==
  IF ~ (Has(t, 1, 3) /\ t[1] <= FormatVersion) THEN Failed
  ELSE
    LET gs == ReadCounted(t, 4, [p \in Nat \ {0} |-> ReadGroup(t, p)])
        ms == IF gs.ok THEN ReadCounted(t, gs.pos, [p \in Nat \ {0} |-> ReadMeasurement(t, p)])
              ELSE Failed
        h  == IF ms.ok THEN ReadHealth(t, ms.pos) ELSE Failed
    IN IF /\ h.ok
          /\ Distinct(gs.value, LAMBDA g : <<g.id, g.gen>>)
          /\ Distinct(ms.value, LAMBDA m : m.id)
          /\ h.pos = Len(t) + 1
       THEN Got([epoch |-> t[2], live_boot |-> t[3], groups |-> gs.value,
                 measurements |-> ms.value, health |-> h.value])
       ELSE Failed

\* The file frame: magic, version, length, checksum, payload.
FrameOf(s) == <<Magic, FormatVersion, Len(Encode(s)), Crc(Encode(s))>> \o Encode(s)

Zeros(n) == [i \in 1 .. n |-> 0]

\* What f may look like when nothing was written from some cell on.
ZeroedOf(f) == {SubSeq(f, 1, n) \o Zeros(Len(f) - n) : n \in 0 .. Len(f) - 1}

\* f with one cell changed.
ChangedOf(f) == {[f EXCEPT ![i] = v] : i \in DOMAIN f, v \in 0 .. MaxField}

\* CRC-32 finds every change within 32 consecutive bits, and what is damaged
\* further but for one case in 2^32, which is left out.  It starts from ones: up
\* to 2^32 - 2 zeros do not have the checksum 0.
ASSUME ChecksumAssumption ==
  \A s \in States :
    /\ \A t \in ZeroedOf(Encode(s)) \cup ChangedOf(Encode(s)) :
         Crc(t) = Crc(Encode(s)) => t = Encode(s)
    /\ Crc(Zeros(Len(Encode(s)))) # 0

\* Mutant: the checksum is not compared.
LoadNoChecksum(f) ==
  IF /\ Len(f) >= 4
     /\ f[1] = Magic
     /\ f[2] <= FormatVersion
     /\ f[3] = Len(f) - 4
  THEN Decode(SubSeq(f, 5, Len(f)))
  ELSE Failed

\* Mutant: the buffer has the length in the header, zeros where the file ends
\* early.
LoadZeroFilled(f) ==
  IF /\ Len(f) >= 4
     /\ f[1] = Magic
     /\ f[2] <= FormatVersion
     /\ f[3] >= Len(f) - 4
  THEN LET payload == SubSeq(f, 5, Len(f)) \o Zeros(f[3] - (Len(f) - 4)) IN
       IF f[4] = Crc(payload) THEN Decode(payload) ELSE Failed
  ELSE Failed

\* Store::load on the contents of a file.
Load(f) ==
  IF /\ Len(f) >= 4
     /\ f[1] = Magic
     /\ f[2] <= FormatVersion
     /\ f[3] = Len(f) - 4
     /\ f[4] = Crc(SubSeq(f, 5, Len(f)))
  THEN Decode(SubSeq(f, 5, Len(f)))
  ELSE Failed

-----------------------------------------------------------------------------
(* Saving, the end of the process, recovery *)

Init ==
  /\ mem \in States
  /\ proc = "run" /\ spc = "idle" /\ snap = <<>>
  /\ tmp = NoFile /\ main = NoFile
  /\ medium = "disk" /\ lastSaved = NoFile
  /\ recovered = <<>>

\* The runtime goes on between two saves.
Change ==
  /\ proc = "run" /\ spc = "idle"
  /\ mem' \in States
  /\ UNCHANGED <<proc, spc, snap, tmp, main, medium, lastSaved, recovered>>

\* Mutant: the state file itself is opened, truncated.
SaveOpenInPlace ==
  /\ proc = "run" /\ spc = "idle"
  /\ spc' = "writing"
  /\ snap' = FrameOf(mem)
  /\ tmp' = Got(<<>>)
  /\ main' = Got(<<>>)
  /\ UNCHANGED <<mem, proc, medium, lastSaved, recovered>>

\* save: encode, and open the temporary file, truncated.
SaveOpen ==
  /\ proc = "run" /\ spc = "idle"
  /\ spc' = "writing"
  /\ snap' = FrameOf(mem)
  /\ tmp' = Got(<<>>)
  /\ UNCHANGED <<mem, proc, main, medium, lastSaved, recovered>>

\* Bytes reach the file in pieces; flushed and closed after the last one.
SaveWrite ==
  /\ proc = "run" /\ spc = "writing"
  /\ \E n \in Len(tmp.value) + 1 .. Len(snap) :
       /\ tmp' = Got(SubSeq(snap, 1, n))
       /\ spc' = IF n = Len(snap) THEN "closed" ELSE "writing"
  /\ UNCHANGED <<mem, proc, snap, main, medium, lastSaved, recovered>>

\* The rename replaces the state file in one step; its contents may not have
\* reached the disk.
SaveRename ==
  /\ proc = "run" /\ spc = "closed"
  /\ main' = tmp /\ medium' = "cache"
  /\ tmp' = NoFile
  /\ spc' = "idle"
  /\ snap' = <<>>
  /\ lastSaved' = Got(mem)
  /\ UNCHANGED <<mem, proc, recovered>>

\* Mutant: the next process believes that a save is under way.
EndKeepsSave ==
  /\ proc # "down"
  /\ proc' = "down" /\ snap' = <<>>
  /\ UNCHANGED <<mem, spc, tmp, main, medium, lastSaved, recovered>>

\* The process is killed, returns, or fails in a save: run_coordinator does
\* not catch what save throws.
End ==
  /\ proc # "down"
  /\ proc' = "down" /\ spc' = "idle" /\ snap' = <<>>
  /\ UNCHANGED <<mem, tmp, main, medium, lastSaved, recovered>>

\* The system writes its cache back.
WriteBack ==
  /\ medium = "cache"
  /\ medium' = "disk"
  /\ UNCHANGED <<mem, proc, spc, snap, tmp, main, lastSaved, recovered>>

\* What a file of contents f may look like when some of it was not written: cut
\* at n, or with zeros from there on.
TornOf(f) == {SubSeq(f, 1, n) : n \in 0 .. Len(f) - 1} \cup ZeroedOf(f)

\* The power fails before that: the process ends and the state file is torn.
PowerLoss ==
  /\ medium = "cache"
  /\ \E f \in TornOf(main.value) : main' = Got(f)
  /\ medium' = "torn"
  /\ proc' = "down" /\ spc' = "idle" /\ snap' = <<>>
  /\ UNCHANGED <<mem, tmp, lastSaved, recovered>>

\* A new run of the coordinator reads no file: it has a state of its own.
Start ==
  /\ proc = "down"
  /\ proc' = "run"
  /\ mem' \in States
  /\ recovered' = <<>>
  /\ UNCHANGED <<spc, snap, tmp, main, medium, lastSaved>>

\* run_recover: a file that does not load, or holds no group, ends the
\* attempt.  Otherwise a fresh runtime gets the epoch and the groups, no live
\* boot; the measurements are looked through and counted, not changed.  The
\* recovered process never saves.
Recover ==
  /\ proc = "down"
  /\ main.ok
  /\ LET loaded == Load(main.value) IN
     /\ loaded.ok
     /\ loaded.value.groups # <<>>
     /\ mem' = [loaded.value EXCEPT !.live_boot = 0, !.measurements = <<>>, !.health = <<>>]
     /\ recovered' = loaded.value.measurements
  /\ proc' = "recovered"
  /\ UNCHANGED <<spc, snap, tmp, main, medium, lastSaved>>

Next ==
  \/ Change \/ SaveOpen \/ SaveWrite \/ SaveRename
  \/ End \/ WriteBack \/ PowerLoss \/ Start \/ Recover

Spec == Init /\ [][Next]_vars

-----------------------------------------------------------------------------
TypeOK ==
  /\ proc \in {"run", "recovered", "down"}
  /\ spc \in {"idle", "writing", "closed"}
  /\ spc # "idle" => proc = "run" /\ tmp.ok
  /\ spc = "writing" => Len(tmp.value) < Len(snap)
  /\ medium \in {"cache", "disk", "torn"} /\ (medium # "disk" => main.ok)

\* "Writes are atomic" (README.md:57): whenever the process ends, as long as the
\* power does not fail, the state file is the whole of the last state saved.
SavesAreAtomic == main.ok /\ medium # "torn" => Load(main.value) = lastSaved

\* "Truncation ... rejected" (README.md:57): a temporary file that a crash left
\* unfinished does not load; of the state files that a loss of power tore those
\* cut short do not either, and the others only if all that is missing were zeros.
BrokenFilesRejected ==
  /\ spc = "writing" => ~ Load(tmp.value).ok
  /\ medium = "torn" =>
       /\ Load(main.value) \in {Failed, lastSaved}
       /\ Len(main.value) < Len(FrameOf(lastSaved.value)) => ~ Load(main.value).ok

\* A file with one damaged field is refused, or (a lower version number in the
\* header, which the checksum does not cover) still read as what was saved.
DamageNeverMisread ==
  spc = "closed" =>
    \A f \in ChangedOf(snap) : Load(f) \in {Failed, Got(mem)}

\* "Impossible counts, duplicate ids, invalid enums ... are all rejected"
\* (README.md:57): whatever a field of the payload just written is changed to,
\* with whatever checksum, decode returns only what a runtime could have exported:
\* groups with keys (id, generation) of their own and participants with ids and
\* ranks of their own, measurements with ids of their own, known values of the
\* three enumerations (lifecycle, freshness, health), no count above the limit.
DecodeIsStrict ==
  spc = "closed" =>
    \A i \in DOMAIN Encode(mem), v \in 0 .. MaxField :
      LET d == Decode([Encode(mem) EXCEPT ![i] = v]) IN
      d.ok => Exported(d.value)

\* A process that recovers goes on from the last state that was saved as a
\* whole, wherever the one before it ended and whatever the power did to the
\* file: between them the two files, the frame and the checks of load amount to
\* the one value of StateKeeper.
Keeper == INSTANCE StateKeeper WITH saved <- lastSaved
ImplementsKeeper == Keeper!Spec

(* What the repository says and the code does not do *)

\* README.md:57: "recovered physical observations become REVALIDATION_REQUIRED".
RecoveredNeedRevalidation ==
  \A i \in DOMAIN recovered : recovered[i].fresh = RevalidationRequired

=============================================================================
