---------------------------- MODULE FrameStream ----------------------------
(***************************************************************************)
(* One direction of a FrameChannel (tools/mp.hpp): frames are encoded      *)
(* (protocol.cpp), written by any number of threads under the connection's *)
(* write lock in as many pieces as ::send likes (tools/tcp.hpp), carried   *)
(* by TCP, read in pieces of any size and put together by FrameDecoder.    *)
(*                                                                         *)
(* The unit is a field, or one byte of a payload: a piece that ends inside *)
(* a field is a piece that ends before it, since decode() looks at nothing *)
(* it does not have in full.  A cell is a tuple: <<v>> for the value v,    *)
(* and <<header, payload>> for the checksum of those two, so that equal    *)
(* checksums mean equal data.  What CRC-32 lets through is left out.       *)
(*                                                                         *)
(* Faults: the connection is cut at any point, with the cells in flight    *)
(* lost from some point on, and a cell in flight is changed.               *)
(***************************************************************************)
EXTENDS Integers, Sequences

CONSTANTS
  Sender,      \* threads that send on the connection
  Kind,        \* message kinds in use
  Payload,     \* payloads in use
  MaxKind,     \* ERROR_MSG, the largest message kind
  MaxPayload,  \* COLLECTIVEFABRIC_PROTOCOL_MAX_PAYLOAD
  ReadSize,    \* size of the buffer that recv_some fills
  Garbage,     \* what a changed cell may turn into
  MaxFrames,   \* bound: frames sent
  MaxDamage,   \* bound: cells changed
  None         \* nobody holds the lock

Byte(v) == <<v>>
ByteCell == [1 .. 1 -> Nat]

\* encode() writes magic, version, kind and length, the checksum of these
\* and the payload, and the payload; it does not look at its size.
Magic == Byte(1128677968)
Version == Byte(1)
Frame == [kind : Kind, payload : Payload]
Header(f) == <<Magic, Version, Byte(f.kind), Byte(Len(f.payload))>>
Crc(header, payload) == <<header, payload>>
Encode(f) == Header(f) \o <<Crc(Header(f), f.payload)>> \o f.payload

\* COLLECTIVEFABRIC_PROTOCOL_HEADER: magic, version, kind, length, checksum.
HeaderSize == 5
Cell == ByteCell \cup (Seq(ByteCell) \X Seq(ByteCell))
Total(f) == HeaderSize + Len(f.payload)

ASSUME FrameAssumption ==
  /\ MaxKind \in Nat \ {0}
  /\ Kind \subseteq 1 .. MaxKind
  /\ MaxPayload \in Nat
  /\ ReadSize \in Nat \ {0}
  /\ MaxFrames \in Nat /\ MaxDamage \in Nat
  /\ Garbage \subseteq Nat
  /\ Payload \subseteq Seq(ByteCell)
  /\ None \notin Sender

VARIABLES
  sent,       \* frames in the order in which they got the lock (history)
  starts,     \* where each of them starts in the stream (history)
  lock,       \* write_mu_: the sender that holds it
  rest,       \* what each sender still has to write
  stream,     \* every cell written so far
  up,         \* the connection stands
  arrived,    \* how many cells of the stream recv_some has returned
  taken,      \* how many of those the decoder has erased from its buffer
  delivered,  \* frames returned by recv
  verdict,    \* what the last call of recv came to
  damage      \* how many cells were changed on the way

sendVars == <<sent, starts, lock, rest>>
recvVars == <<taken, delivered, verdict>>
vars == <<sendVars, stream, up, arrived, recvVars, damage>>

TypeOK ==
  /\ sent \in Seq(Frame) /\ delivered \in Seq(Frame)
  /\ starts \in Seq(Nat)
  /\ lock \in Sender \cup {None}
  /\ rest \in [Sender -> Seq(Cell)]
  /\ stream \in Seq(Cell)
  /\ up \in BOOLEAN
  /\ arrived \in 0 .. Len(stream)
  /\ taken \in 0 .. arrived
  /\ verdict \in {"none", "frame", "rejected", "closed"}
  /\ damage \in Nat

\* A connection just made and an empty decoder.
Init ==
  /\ sent = <<>> /\ starts = <<>>
  /\ lock = None /\ rest = [t \in Sender |-> <<>>]
  /\ stream = <<>> /\ up = TRUE
  /\ arrived = 0 /\ taken = 0
  /\ delivered = <<>> /\ verdict = "none"
  /\ damage = 0

-----------------------------------------------------------------------------
(* The sending side. *)

\* Mutant: send_all does not lock.
SendNoLock(t, f) ==
  /\ rest[t] = <<>> /\ up
  /\ Len(sent) < MaxFrames
  /\ lock' = t
  /\ rest' = [rest EXCEPT ![t] = Encode(f)]
  /\ sent' = Append(sent, f)
  /\ starts' = Append(starts, Len(stream))
  /\ UNCHANGED <<stream, up, arrived, recvVars, damage>>

\* FrameChannel::send: encode, then send_all takes the lock.  On a broken
\* connection it returns false and nothing has changed.
Send(t, f) ==
  /\ lock = None /\ up
  /\ Len(sent) < MaxFrames
  /\ lock' = t
  /\ rest' = [rest EXCEPT ![t] = Encode(f)]
  /\ sent' = Append(sent, f)
  /\ starts' = Append(starts, Len(stream))
  /\ UNCHANGED <<stream, up, arrived, recvVars, damage>>

\* Mutant: whatever ::send took counts as everything.
WriteOnce(t, n) ==
  /\ up
  /\ n \in 1 .. Len(rest[t])
  /\ stream' = stream \o SubSeq(rest[t], 1, n)
  /\ rest' = [rest EXCEPT ![t] = <<>>]
  /\ lock' = None
  /\ UNCHANGED <<sent, starts, up, arrived, recvVars, damage>>

\* One ::send of the loop takes the first n cells; the lock is given back
\* with the last one.
Write(t, n) ==
  /\ up
  /\ n \in 1 .. Len(rest[t])
  /\ stream' = stream \o SubSeq(rest[t], 1, n)
  /\ rest' = [rest EXCEPT ![t] = SubSeq(@, n + 1, Len(@))]
  /\ lock' = IF n = Len(rest[t]) THEN None ELSE lock
  /\ UNCHANGED <<sent, starts, up, arrived, recvVars, damage>>

\* ::send fails: send_all returns false.
WriteFails(t) ==
  /\ ~ up
  /\ lock = t
  /\ lock' = None
  /\ rest' = [rest EXCEPT ![t] = <<>>]
  /\ UNCHANGED <<sent, starts, stream, up, arrived, recvVars, damage>>

-----------------------------------------------------------------------------
(* The connection. *)

\* An end goes away: of the cells in flight the first few still arrive.
Cut(n) ==
  /\ up
  /\ up' = FALSE
  /\ stream' = SubSeq(stream, 1, n)
  /\ UNCHANGED <<sendVars, arrived, recvVars, damage>>

\* A cell in flight is changed.
Damage(i, v) ==
  /\ damage < MaxDamage
  /\ stream[i] # Byte(v)
  /\ stream' = [stream EXCEPT ![i] = Byte(v)]
  /\ damage' = damage + 1
  /\ UNCHANGED <<sendVars, up, arrived, recvVars>>

-----------------------------------------------------------------------------
(* The receiving side. *)

\* buffer_ of FrameDecoder.
Buffer == SubSeq(stream, taken + 1, arrived)

\* The length field and the payload it delimits.
LengthOf(b) == b[4][1]
PayloadOf(b) == SubSeq(b, HeaderSize + 1, HeaderSize + LengthOf(b))

\* The checks on the first four fields, in front of any look at the rest.
HeaderValid(b) ==
  /\ b[1] = Magic
  /\ b[2] = Version
  /\ b[3] \in {Byte(k) : k \in 1 .. MaxKind}
  /\ b[4] \in {Byte(n) : n \in 0 .. MaxPayload}

\* Mutants of decode(): the checksum is not compared; a truncated payload is
\* taken for the whole one.
DecodeNoChecksum(b) ==
  IF Len(b) < HeaderSize - 1 THEN "NEED_MORE"
  ELSE IF ~ HeaderValid(b) THEN "REJECT"
  ELSE IF Len(b) < HeaderSize + LengthOf(b) THEN "NEED_MORE"
  ELSE "FRAME"

DecodeTruncated(b) ==
  IF Len(b) < HeaderSize THEN "NEED_MORE"
  ELSE IF ~ HeaderValid(b) THEN "REJECT"
  ELSE IF LengthOf(b) > 0 /\ Len(b) < HeaderSize + 1 THEN "NEED_MORE"
  ELSE IF b[HeaderSize] # Crc(SubSeq(b, 1, HeaderSize - 1),
                              SubSeq(b, HeaderSize + 1, Len(b))) THEN "REJECT"
  ELSE "FRAME"

\* decode(): NEED_MORE for less than the first four fields and, these being
\* right, for less than the frame they announce.
Decode(b) ==
  IF Len(b) < HeaderSize - 1 THEN "NEED_MORE"
  ELSE IF ~ HeaderValid(b) THEN "REJECT"
  ELSE IF Len(b) < HeaderSize + LengthOf(b) THEN "NEED_MORE"
  ELSE IF b[HeaderSize] # Crc(SubSeq(b, 1, HeaderSize - 1), PayloadOf(b)) THEN "REJECT"
  ELSE "FRAME"

\* next() yields a frame and erases it from the buffer; recv returns it.
RecvFrame ==
  /\ Decode(Buffer) = "FRAME"
  /\ delivered' = Append(delivered, [kind |-> Buffer[3][1], payload |-> PayloadOf(Buffer)])
  /\ taken' = taken + HeaderSize + LengthOf(Buffer)
  /\ verdict' = "frame"
  /\ UNCHANGED <<sendVars, stream, up, arrived, damage>>

\* Mutant: a rejected frame is skipped.
RecvRejectSkips ==
  /\ Decode(Buffer) = "REJECT"
  /\ verdict' = "rejected"
  /\ taken' = arrived
  /\ UNCHANGED <<sendVars, stream, up, arrived, delivered, damage>>

\* next() rejects: recv returns false and the buffer stays as it is.
RecvReject ==
  /\ Decode(Buffer) = "REJECT"
  /\ verdict' = "rejected"
  /\ UNCHANGED <<sendVars, stream, up, arrived, taken, delivered, damage>>

\* recv_some returned n cells, which are fed to the decoder.
RecvSome(n) ==
  /\ Decode(Buffer) = "NEED_MORE"
  /\ arrived + n <= Len(stream)
  /\ arrived' = arrived + n
  /\ UNCHANGED <<sendVars, stream, up, recvVars, damage>>

\* recv_some returned nothing or an error: recv returns false, whatever part
\* of a frame the buffer holds.
RecvClosed ==
  /\ Decode(Buffer) = "NEED_MORE"
  /\ ~ up /\ arrived = Len(stream)
  /\ verdict' = "closed"
  /\ UNCHANGED <<sendVars, stream, up, arrived, taken, delivered, damage>>

-----------------------------------------------------------------------------
SenderStep(t) == WriteFails(t) \/ \E n \in 1 .. Len(rest[t]) : Write(t, n)

ReceiverStep ==
  \/ RecvFrame \/ RecvReject \/ RecvClosed
  \/ \E n \in 1 .. ReadSize : RecvSome(n)

Next ==
  \/ \E t \in Sender, f \in Frame : Send(t, f)
  \/ \E t \in Sender : SenderStep(t)
  \/ \E n \in arrived .. Len(stream) : Cut(n)
  \/ \E i \in arrived + 1 .. Len(stream), v \in Garbage : Damage(i, v)
  \/ ReceiverStep

Spec == Init /\ [][Next]_vars

\* A thread in send_all goes on writing; the receiver goes on calling recv.
FairSpec == Spec /\ WF_vars(ReceiverStep) /\ \A t \in Sender : WF_vars(SenderStep(t))

-----------------------------------------------------------------------------
\* A frame that encode() writes and decode() does not accept.
Oversized(f) == Len(f.payload) > MaxPayload

\* Whatever the pieces and the number of writers, recv refuses its input only
\* when a cell was changed or the peer sent more than decode() accepts.
RejectedForCause ==
  verdict = "rejected" =>
    \/ damage > 0
    \/ Len(delivered) < Len(sent) /\ Oversized(sent[Len(delivered) + 1])

\* recv returns the frames that were sent, unchanged, in order, none twice and
\* none skipped, and returns none once it has rejected its input ("corruption
\* is unrecoverable", protocol.hpp).
Channel == INSTANCE FifoChannel WITH
  Message <- Frame, in <- sent, out <- delivered, dead <- (verdict = "rejected")

ImplementsChannel == Channel!Spec

\* Every frame sent is returned by recv unless a fault, or a frame that the
\* receiver does not accept, comes first.
EveryFrameArrives ==
  \A k \in 1 .. MaxFrames :
    Len(sent) >= k ~> \/ Len(delivered) >= k
                      \/ ~ up \/ damage > 0 \/ verdict = "rejected"

=============================================================================
