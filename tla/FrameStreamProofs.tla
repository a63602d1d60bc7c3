------------------------- MODULE FrameStreamProofs -------------------------
(***************************************************************************)
(* Theorems about module FrameStream, for any number of senders and frames *)
(* of any size, cut into any pieces, with any cells in flight changed.     *)
(***************************************************************************)
EXTENDS FrameStream, SequenceTheorems, TLAPS

-----------------------------------------------------------------------------
(* Cells and encodings. *)

LEMMA ByteFacts ==
  /\ \A v \in Nat : Byte(v) \in ByteCell /\ Byte(v) \in Cell
  /\ \A v, w : Byte(v) = Byte(w) => v = w
  /\ \A v : Byte(v)[1] = v
  /\ \A b \in ByteCell : \A h, p : b # Crc(h, p)
  /\ \A h, p, x, y : Crc(h, p) = Crc(x, y) => h = x /\ p = y
<1>1. \A v \in Nat : Byte(v) \in ByteCell /\ Byte(v) \in Cell
  BY DEF Byte, ByteCell, Cell
<1>2. \A v, w : Byte(v) = Byte(w) => v = w
  BY DEF Byte
<1>3. \A v : Byte(v)[1] = v
  BY DEF Byte
<1>4. \A b \in ByteCell : \A h, p : b # Crc(h, p)
  <2> SUFFICES ASSUME NEW b \in ByteCell, NEW h, NEW p, b = Crc(h, p) PROVE FALSE
    OBVIOUS
  <2>1. DOMAIN b = 1 .. 1 /\ DOMAIN Crc(h, p) = 1 .. 2
    BY DEF ByteCell, Crc
  <2> QED BY <2>1
<1>5. \A h, p, x, y : Crc(h, p) = Crc(x, y) => h = x /\ p = y
  BY DEF Crc
<1> QED BY <1>1, <1>2, <1>3, <1>4, <1>5

\* The encoding of a frame: four header fields, the checksum, the payload.
LEMMA EncodeFacts ==
  ASSUME NEW f \in Frame
  PROVE  /\ f.payload \in Seq(ByteCell) /\ Len(f.payload) \in Nat
         /\ f.kind \in 1 .. MaxKind
         /\ Header(f) \in Seq(ByteCell) /\ Len(Header(f)) = 4
         /\ Total(f) \in Nat /\ Total(f) >= HeaderSize
         /\ Encode(f) \in Seq(Cell) /\ Len(Encode(f)) = Total(f)
         /\ \A i \in 1 .. 4 : Encode(f)[i] = Header(f)[i]
         /\ Encode(f)[HeaderSize] = Crc(Header(f), f.payload)
         /\ \A i \in 1 .. Len(f.payload) : Encode(f)[HeaderSize + i] = f.payload[i]
<1> USE FrameAssumption
<1>1. /\ f.payload \in Seq(ByteCell) /\ Len(f.payload) \in Nat
      /\ f.kind \in 1 .. MaxKind
  <2>1. f.kind \in Kind /\ f.payload \in Payload
    BY DEF Frame
  <2> QED BY <2>1, LenProperties
<1>2. f.kind \in Nat
  BY <1>1
<1>3. Header(f) \in Seq(ByteCell) /\ Len(Header(f)) = 4
  <2>1. /\ Magic \in ByteCell /\ Version \in ByteCell
        /\ Byte(f.kind) \in ByteCell /\ Byte(Len(f.payload)) \in ByteCell
    BY <1>1, <1>2, ByteFacts DEF Magic, Version
  <2> QED BY <2>1 DEF Header
<1>4. Total(f) \in Nat /\ Total(f) >= HeaderSize
  BY <1>1 DEF Total, HeaderSize
<1> DEFINE c == Crc(Header(f), f.payload)
<1>5. ByteCell \subseteq Cell /\ c \in Cell
  BY <1>1, <1>3 DEF Cell, Crc
<1>6. Header(f) \in Seq(Cell) /\ f.payload \in Seq(Cell) /\ <<c>> \in Seq(Cell)
  BY <1>1, <1>3, <1>5
<1> HIDE DEF c
<1>7. /\ Header(f) \o <<c>> \in Seq(Cell) /\ Len(Header(f) \o <<c>>) = 5
      /\ \A i \in 1 .. 4 : (Header(f) \o <<c>>)[i] = Header(f)[i]
      /\ (Header(f) \o <<c>>)[5] = c
  <2>1. Len(<<c>>) = 1 /\ <<c>>[1] = c
    OBVIOUS
  <2>2. /\ Header(f) \o <<c>> \in Seq(Cell)
        /\ Len(Header(f) \o <<c>>) = Len(Header(f)) + Len(<<c>>)
        /\ \A i \in 1 .. Len(Header(f)) + Len(<<c>>) : (Header(f) \o <<c>>)[i] =
             IF i <= Len(Header(f)) THEN Header(f)[i] ELSE <<c>>[i - Len(Header(f))]
    BY <1>6, ConcatProperties
  <2> QED BY <1>3, <2>1, <2>2
<1>8. /\ Encode(f) \in Seq(Cell) /\ Len(Encode(f)) = Total(f)
      /\ \A i \in 1 .. 5 : Encode(f)[i] = (Header(f) \o <<c>>)[i]
      /\ \A i \in 1 .. Len(f.payload) : Encode(f)[5 + i] = f.payload[i]
  <2>1. Encode(f) = (Header(f) \o <<c>>) \o f.payload
    BY DEF Encode, c
  <2> DEFINE h == Header(f) \o <<c>>
  <2> HIDE DEF h
  <2>2. h \in Seq(Cell) /\ Len(h) = 5 /\ Encode(f) = h \o f.payload
    BY <1>7, <2>1 DEF h
  <2>3. /\ h \o f.payload \in Seq(Cell) /\ Len(h \o f.payload) = 5 + Len(f.payload)
        /\ \A i \in 1 .. 5 : (h \o f.payload)[i] = h[i]
        /\ \A i \in 1 .. Len(f.payload) : (h \o f.payload)[5 + i] = f.payload[i]
    <3>1. /\ h \o f.payload \in Seq(Cell)
          /\ Len(h \o f.payload) = Len(h) + Len(f.payload)
          /\ \A i \in 1 .. Len(h) + Len(f.payload) : (h \o f.payload)[i] =
               IF i <= Len(h) THEN h[i] ELSE f.payload[i - Len(h)]
      BY <1>6, <2>2, ConcatProperties
    <3> QED BY <1>1, <2>2, <3>1
  <2> QED BY <2>2, <2>3 DEF h, Total, HeaderSize
<1> QED BY <1>1, <1>3, <1>4, <1>7, <1>8 DEF HeaderSize, c

-----------------------------------------------------------------------------
(***************************************************************************)
(* The inductive invariant.  The stream is the encodings of the frames     *)
(* sent, one after the other, as far as they were written; each cell of it *)
(* is as encoded or, after damage, some byte; the decoder stands at the    *)
(* end of the frame delivered last.                                        *)
(***************************************************************************)
EndOf(k) == IF k = 0 THEN 0 ELSE starts[k] + Total(sent[k])

Layout ==
  /\ Len(starts) = Len(sent)
  /\ \A k \in 1 .. Len(sent) : starts[k] = EndOf(k - 1)
  /\ \A k, j \in 1 .. Len(sent) : k < j => EndOf(k) <= starts[j]
  /\ Len(stream) <= EndOf(Len(sent))

\* The writer in send_all, and what it still has to write.
Writing(f, s) ==
  /\ s <= Len(stream) /\ Len(stream) < s + Total(f)
  /\ rest[lock] = SubSeq(Encode(f), Len(stream) - s + 1, Total(f))

Writer ==
  /\ \A t \in Sender : t # lock => rest[t] = <<>>
  /\ up /\ lock = None => Len(stream) = EndOf(Len(sent))
  /\ up /\ lock # None => Len(sent) > 0 /\ Writing(sent[Len(sent)], starts[Len(sent)])

Written ==
  \A k \in 1 .. Len(sent) : \A i \in 1 .. Total(sent[k]) :
    starts[k] + i <= Len(stream) =>
      \/ stream[starts[k] + i] = Encode(sent[k])[i]
      \/ damage > 0 /\ stream[starts[k] + i] \in ByteCell

Reader ==
  /\ Len(delivered) <= Len(sent)
  /\ \A k \in 1 .. Len(delivered) : delivered[k] = sent[k]
  /\ taken = EndOf(Len(delivered))
  /\ verdict = "rejected" => Decode(Buffer) = "REJECT"

Inv == TypeOK /\ Layout /\ Writer /\ Written /\ Reader

-----------------------------------------------------------------------------
(* What the decoder finds. *)

LEMMA BufferFacts ==
  ASSUME TypeOK
  PROVE  /\ Buffer \in Seq(Cell) /\ Len(Buffer) = arrived - taken
         /\ arrived \in Nat /\ taken \in Nat /\ Len(stream) \in Nat
         /\ \A i \in 1 .. arrived - taken : Buffer[i] = stream[taken + i]
<1>1. /\ stream \in Seq(Cell) /\ Len(stream) \in Nat
      /\ arrived \in Nat /\ taken \in Nat /\ taken <= arrived /\ arrived <= Len(stream)
  BY LenProperties DEF TypeOK
<1>2. \A i \in taken + 1 .. arrived : stream[i] \in Cell
  BY <1>1, ElementOfSeq
<1>3. /\ SubSeq(stream, taken + 1, arrived) \in Seq(Cell)
      /\ Len(SubSeq(stream, taken + 1, arrived))
           = IF taken + 1 <= arrived THEN arrived - (taken + 1) + 1 ELSE 0
      /\ \A i \in 1 .. arrived - (taken + 1) + 1 :
           SubSeq(stream, taken + 1, arrived)[i] = stream[(taken + 1) + i - 1]
  <2>1. taken + 1 \in Int /\ arrived \in Int
    BY <1>1
  <2> QED BY <1>2, <2>1, SubSeqProperties
<1> QED BY <1>1, <1>3 DEF Buffer

LEMMA SentFacts ==
  ASSUME TypeOK, Layout, NEW k \in 1 .. Len(sent)
  PROVE  /\ Len(sent) \in Nat
         /\ sent[k] \in Frame /\ starts[k] \in Nat
         /\ Total(sent[k]) \in Nat /\ Total(sent[k]) >= HeaderSize
         /\ EndOf(k) \in Nat /\ EndOf(k) = starts[k] + Total(sent[k])
<1>1. Len(sent) \in Nat /\ sent[k] \in Frame
  BY LenProperties, ElementOfSeq DEF TypeOK
<1>2. starts[k] \in Nat
  BY ElementOfSeq DEF TypeOK, Layout
<1>3. Total(sent[k]) \in Nat /\ Total(sent[k]) >= HeaderSize
  BY <1>1, EncodeFacts
<1> QED BY <1>1, <1>2, <1>3 DEF EndOf

\* Beyond the frames delivered there is one more, and the buffer holds a part
\* of it from its start.
LEMMA NextInBuffer ==
  ASSUME Inv, Len(Buffer) > 0
  PROVE  /\ Len(delivered) + 1 \in 1 .. Len(sent)
         /\ starts[Len(delivered) + 1] = taken
         /\ \A i \in 1 .. Total(sent[Len(delivered) + 1]) : i <= Len(Buffer) =>
              \/ Buffer[i] = Encode(sent[Len(delivered) + 1])[i]
              \/ damage > 0 /\ Buffer[i] \in ByteCell
<1> USE DEF Inv
<1> DEFINE k == Len(delivered) + 1
<1>1. Len(delivered) \in Nat /\ Len(sent) \in Nat /\ Len(delivered) <= Len(sent)
  BY LenProperties DEF TypeOK, Reader
<1>2. taken < arrived /\ arrived <= Len(stream)
  BY BufferFacts DEF TypeOK
<1>3. taken = EndOf(Len(delivered)) /\ Len(stream) <= EndOf(Len(sent))
  BY DEF Reader, Layout
<1>4. Len(delivered) # Len(sent)
  BY <1>2, <1>3, BufferFacts
<1>5. k \in 1 .. Len(sent)
  BY <1>1, <1>4
<1>6. starts[k] = taken
  BY <1>1, <1>3, <1>5 DEF Layout
<1>7. ASSUME NEW i \in 1 .. Total(sent[k]), i <= Len(Buffer)
      PROVE  \/ Buffer[i] = Encode(sent[k])[i]
             \/ damage > 0 /\ Buffer[i] \in ByteCell
  <2>1. Total(sent[k]) \in Nat
    BY <1>5, SentFacts
  <2>2. Buffer[i] = stream[taken + i] /\ taken + i <= Len(stream)
    BY <1>2, <1>7, <2>1, BufferFacts
  <2> QED BY <1>5, <1>6, <2>2 DEF Written
<1> QED BY <1>5, <1>6, <1>7

LEMMA DecodeCases ==
  ASSUME NEW b, Len(b) \in Nat
  PROVE  /\ Decode(b) # "NEED_MORE" => Len(b) >= 4
         /\ Decode(b) = "FRAME" =>
              /\ HeaderValid(b)
              /\ Len(b) >= HeaderSize + LengthOf(b)
              /\ b[HeaderSize] = Crc(SubSeq(b, 1, 4), PayloadOf(b))
         /\ Decode(b) = "REJECT" =>
              \/ ~ HeaderValid(b)
              \/ /\ ~ (Len(b) < HeaderSize + LengthOf(b))
                 /\ b[HeaderSize] # Crc(SubSeq(b, 1, 4), PayloadOf(b))
<1>1. HeaderSize - 1 = 4
  BY DEF HeaderSize
<1>2. Decode(b) =
        IF Len(b) < 4 THEN "NEED_MORE"
        ELSE IF ~ HeaderValid(b) THEN "REJECT"
        ELSE IF Len(b) < HeaderSize + LengthOf(b) THEN "NEED_MORE"
        ELSE IF b[HeaderSize] # Crc(SubSeq(b, 1, 4), PayloadOf(b)) THEN "REJECT"
        ELSE "FRAME"
  BY <1>1 DEF Decode
<1>3. Decode(b) # "NEED_MORE" => ~ (Len(b) < 4)
  BY <1>2
<1>4. Decode(b) = "FRAME" =>
        /\ HeaderValid(b)
        /\ ~ (Len(b) < HeaderSize + LengthOf(b))
        /\ b[HeaderSize] = Crc(SubSeq(b, 1, 4), PayloadOf(b))
  BY <1>2
<1>5. HeaderValid(b) => LengthOf(b) \in Nat
  BY ByteFacts, FrameAssumption DEF HeaderValid, LengthOf
<1>6. Decode(b) = "REJECT" =>
        \/ ~ HeaderValid(b)
        \/ /\ ~ (Len(b) < HeaderSize + LengthOf(b))
           /\ b[HeaderSize] # Crc(SubSeq(b, 1, 4), PayloadOf(b))
  BY <1>2
<1> QED BY <1>3, <1>4, <1>5, <1>6 DEF HeaderSize

\* A frame that decode() accepts is the frame that was sent: its checksum is
\* no byte, so it is the one that encode() wrote.
LEMMA DecodedIsSent ==
  ASSUME Inv, Decode(Buffer) = "FRAME"
  PROVE  LET f == sent[Len(delivered) + 1] IN
         /\ Len(delivered) + 1 \in 1 .. Len(sent)
         /\ starts[Len(delivered) + 1] = taken
         /\ [kind |-> Buffer[3][1], payload |-> PayloadOf(Buffer)] = f
         /\ HeaderSize + LengthOf(Buffer) = Total(f)
         /\ Total(f) <= Len(Buffer)
<1> USE DEF Inv
<1> DEFINE f == sent[Len(delivered) + 1]
           b == Buffer
<1>1. Len(b) \in Nat /\ b \in Seq(Cell)
  BY BufferFacts, LenProperties
<1>2. /\ Len(b) >= 4 /\ HeaderValid(b) /\ Len(b) >= HeaderSize + LengthOf(b)
      /\ b[HeaderSize] = Crc(SubSeq(b, 1, 4), PayloadOf(b))
  BY <1>1, DecodeCases
<1>3. LengthOf(b) \in Nat
  BY <1>2, ByteFacts, FrameAssumption DEF HeaderValid, LengthOf
<1>4. /\ Len(delivered) + 1 \in 1 .. Len(sent)
      /\ starts[Len(delivered) + 1] = taken
      /\ \A i \in 1 .. Total(f) : i <= Len(b) =>
           b[i] = Encode(f)[i] \/ (damage > 0 /\ b[i] \in ByteCell)
  <2>1. Len(b) > 0
    BY <1>1, <1>2
  <2> QED BY <2>1, NextInBuffer
<1>5. f \in Frame /\ Total(f) \in Nat /\ Total(f) >= HeaderSize
  BY <1>4, SentFacts
<1>6. HeaderSize \in 1 .. Total(f) /\ HeaderSize <= Len(b)
  BY <1>1, <1>2, <1>3, <1>5 DEF HeaderSize
<1>7. b[HeaderSize] \notin ByteCell
  BY <1>2, ByteFacts
<1>8. b[HeaderSize] = Crc(Header(f), f.payload)
  BY <1>4, <1>5, <1>6, <1>7, EncodeFacts
<1>9. SubSeq(b, 1, 4) = Header(f) /\ PayloadOf(b) = f.payload
  <2>1. Crc(SubSeq(b, 1, 4), PayloadOf(b)) = Crc(Header(f), f.payload)
    BY <1>2, <1>8
  <2> QED BY <2>1, Zenon DEF Crc
<1>10. b[3] = Header(f)[3] /\ b[4] = Header(f)[4]
  <2>1. \A i \in 1 .. 4 : SubSeq(b, 1, 4)[i] = b[i]
    <3>1. \A i \in 1 .. 4 : b[i] \in Cell
      BY <1>1, <1>2, ElementOfSeq
    <3>2. \A i \in 1 .. 4 - 1 + 1 : SubSeq(b, 1, 4)[i] = b[1 + i - 1]
      BY <3>1, SubSeqProperties
    <3> QED BY <3>2
  <2> QED BY <1>9, <2>1
<1>11. b[3] = Byte(f.kind) /\ b[4] = Byte(Len(f.payload))
  BY <1>10 DEF Header
<1>12. b[3][1] = f.kind /\ LengthOf(b) = Len(f.payload)
  BY <1>11, ByteFacts DEF LengthOf
<1>13. [kind |-> b[3][1], payload |-> PayloadOf(b)] = f
  BY <1>5, <1>9, <1>12 DEF Frame
<1> QED BY <1>2, <1>4, <1>12, <1>13 DEF Total

\* An unchanged frame of an acceptable size is not rejected.
LEMMA UndamagedAccepted ==
  ASSUME Inv, Decode(Buffer) = "REJECT", ~ (damage > 0)
  PROVE  /\ Len(delivered) < Len(sent)
         /\ Oversized(sent[Len(delivered) + 1])
<1> USE DEF Inv
<1> DEFINE f == sent[Len(delivered) + 1]
           b == Buffer
<1>1. Len(b) \in Nat /\ b \in Seq(Cell)
  BY BufferFacts, LenProperties
<1>2. Len(b) >= 4
  BY <1>1, DecodeCases
<1>3. /\ Len(delivered) + 1 \in 1 .. Len(sent)
      /\ \A i \in 1 .. Total(f) : i <= Len(b) => b[i] = Encode(f)[i]
  BY <1>2, NextInBuffer
<1>4. f \in Frame /\ Total(f) \in Nat /\ Total(f) >= HeaderSize
  BY <1>3, SentFacts
<1>5. Len(f.payload) \in Nat /\ f.payload \in Seq(ByteCell) /\ f.kind \in 1 .. MaxKind
  BY <1>4, EncodeFacts
<1>6. SUFFICES ASSUME Len(f.payload) <= MaxPayload PROVE FALSE
  BY <1>3, <1>5, FrameAssumption, LenProperties DEF Oversized, TypeOK
<1>7. \A i \in 1 .. 4 : b[i] = Header(f)[i]
  <2>1. \A i \in 1 .. 4 : i \in 1 .. Total(f) /\ i <= Len(b)
    BY <1>1, <1>2, <1>4 DEF HeaderSize
  <2>2. \A i \in 1 .. 4 : Encode(f)[i] = Header(f)[i]
    BY <1>4, EncodeFacts
  <2> QED BY <1>3, <2>1, <2>2
<1>8. /\ b[1] = Magic /\ b[2] = Version
      /\ b[3] = Byte(f.kind) /\ b[4] = Byte(Len(f.payload))
  BY <1>7 DEF Header
<1>9. HeaderValid(b) /\ LengthOf(b) = Len(f.payload)
  BY <1>5, <1>6, <1>8, ByteFacts DEF HeaderValid, LengthOf
<1>10. /\ ~ (Len(b) < HeaderSize + LengthOf(b))
       /\ b[HeaderSize] # Crc(SubSeq(b, 1, 4), PayloadOf(b))
  BY <1>1, <1>9, DecodeCases
<1>11. Total(f) <= Len(b)
  BY <1>1, <1>4, <1>9, <1>10 DEF Total
<1>12. SubSeq(b, 1, 4) = Header(f)
  <2>1. \A i \in 1 .. 4 : b[i] \in Cell
    BY <1>1, <1>2, ElementOfSeq
  <2>2. /\ SubSeq(b, 1, 4) \in Seq(Cell) /\ Len(SubSeq(b, 1, 4)) = 4
        /\ \A i \in 1 .. 4 - 1 + 1 : SubSeq(b, 1, 4)[i] = b[1 + i - 1]
    BY <2>1, SubSeqProperties
  <2>3. Header(f) \in Seq(Cell) /\ Len(Header(f)) = 4
    <3>1. Header(f) \in Seq(ByteCell) /\ Len(Header(f)) = 4
      BY <1>4, EncodeFacts
    <3> QED BY <3>1 DEF Cell
  <2> QED BY <1>7, <2>2, <2>3, SeqEqual
<1>13. PayloadOf(b) = f.payload
  <2> DEFINE n == Len(f.payload)
  <2>1. PayloadOf(b) = SubSeq(b, HeaderSize + 1, HeaderSize + n)
    BY <1>9 DEF PayloadOf
  <2>2. \A i \in HeaderSize + 1 .. HeaderSize + n : b[i] \in Cell
    BY <1>1, <1>5, <1>11, ElementOfSeq DEF Total, HeaderSize
  <2>3. /\ PayloadOf(b) \in Seq(Cell)
        /\ Len(PayloadOf(b)) = n
        /\ \A i \in 1 .. n : PayloadOf(b)[i] = b[HeaderSize + i]
    <3>1. HeaderSize + 1 \in Int /\ HeaderSize + n \in Int
      BY <1>5 DEF HeaderSize
    <3>2. /\ PayloadOf(b) \in Seq(Cell)
          /\ Len(PayloadOf(b)) = IF HeaderSize + 1 <= HeaderSize + n
                                 THEN (HeaderSize + n) - (HeaderSize + 1) + 1 ELSE 0
          /\ \A i \in 1 .. (HeaderSize + n) - (HeaderSize + 1) + 1 :
               PayloadOf(b)[i] = b[(HeaderSize + 1) + i - 1]
      BY <2>1, <2>2, <3>1, SubSeqProperties
    <3> QED BY <1>5, <3>2 DEF HeaderSize
  <2>4. \A i \in 1 .. n : b[HeaderSize + i] = f.payload[i]
    <3> SUFFICES ASSUME NEW i \in 1 .. n PROVE b[HeaderSize + i] = f.payload[i]
      OBVIOUS
    <3>1. HeaderSize + i \in 1 .. Total(f) /\ HeaderSize + i <= Len(b)
      BY <1>1, <1>5, <1>11 DEF Total, HeaderSize
    <3> QED BY <1>3, <1>4, <3>1, EncodeFacts
  <2>5. f.payload \in Seq(Cell)
    BY <1>5 DEF Cell
  <2> QED BY <1>5, <2>3, <2>4, <2>5, SeqEqual
<1>14. b[HeaderSize] = Crc(Header(f), f.payload)
  BY <1>1, <1>3, <1>4, <1>11, EncodeFacts DEF HeaderSize
<1> QED BY <1>10, <1>12, <1>13, <1>14

-----------------------------------------------------------------------------
(* Every step keeps the invariant. *)

LEMMA InvInit == Init => Inv
<1> SUFFICES ASSUME Init PROVE Inv
  OBVIOUS
<1>1. TypeOK
  BY DEF Init, TypeOK
<1>2. Layout /\ Writer /\ Written /\ Reader
  BY DEF Init, Layout, Writer, Written, Reader, EndOf
<1> QED BY <1>1, <1>2 DEF Inv

\* What has arrived does not change, so neither does the buffer.
LEMMA BufferSame ==
  ASSUME TypeOK, TypeOK', UNCHANGED <<arrived, taken>>,
         \A i \in 1 .. arrived : stream'[i] = stream[i]
  PROVE  Buffer' = Buffer
<1>1. /\ Buffer \in Seq(Cell) /\ Len(Buffer) = arrived - taken
      /\ arrived \in Nat /\ taken \in Nat
      /\ \A i \in 1 .. arrived - taken : Buffer[i] = stream[taken + i]
  BY BufferFacts
<1>2. /\ Buffer' \in Seq(Cell) /\ Len(Buffer') = arrived - taken
      /\ \A i \in 1 .. arrived - taken : Buffer'[i] = stream'[taken + i]
  <2>1. stream' \in Seq(Cell) /\ Len(stream') \in Nat /\ arrived <= Len(stream')
    BY LenProperties DEF TypeOK
  <2>2. \A i \in taken + 1 .. arrived : stream'[i] \in Cell
    BY <1>1, <2>1, ElementOfSeq
  <2>3. taken + 1 \in Int /\ arrived \in Int /\ taken <= arrived
    BY <1>1 DEF TypeOK
  <2>4. /\ SubSeq(stream', taken + 1, arrived) \in Seq(Cell)
        /\ Len(SubSeq(stream', taken + 1, arrived))
             = IF taken + 1 <= arrived THEN arrived - (taken + 1) + 1 ELSE 0
        /\ \A i \in 1 .. arrived - (taken + 1) + 1 :
             SubSeq(stream', taken + 1, arrived)[i] = stream'[(taken + 1) + i - 1]
    BY <2>2, <2>3, SubSeqProperties
  <2> QED BY <1>1, <2>3, <2>4 DEF Buffer
<1>3. \A i \in 1 .. arrived - taken : Buffer'[i] = Buffer[i]
  BY <1>1, <1>2
<1> QED BY <1>1, <1>2, <1>3, SeqEqual

LEMMA InvSend ==
  ASSUME Inv, NEW t \in Sender, NEW f \in Frame, Send(t, f)
  PROVE  Inv'
<1> USE DEF Inv
<1>0. PICK n \in Nat : n = Len(sent)
  BY LenProperties DEF TypeOK
<1> USE <1>0
<1>1. /\ n \in Nat /\ Len(starts) = n /\ Len(stream) \in Nat
      /\ t # None /\ Total(f) \in Nat /\ Total(f) >= HeaderSize
  BY LenProperties, EncodeFacts, FrameAssumption DEF TypeOK, Layout
<1>2. /\ sent' \in Seq(Frame) /\ Len(sent') = n + 1
      /\ sent'[n + 1] = f /\ \A k \in 1 .. n : sent'[k] = sent[k]
  BY AppendProperties DEF Send, TypeOK
<1>3. /\ starts' \in Seq(Nat) /\ Len(starts') = n + 1
      /\ starts'[n + 1] = Len(stream) /\ \A k \in 1 .. n : starts'[k] = starts[k]
  BY <1>1, AppendProperties DEF Send, TypeOK
<1>4. /\ UNCHANGED <<stream, up, arrived, taken, delivered, verdict, damage>>
      /\ lock = None /\ up /\ lock' = t
      /\ rest' = [rest EXCEPT ![t] = Encode(f)]
  BY DEF Send, recvVars
<1>5. TypeOK'
  BY <1>2, <1>3, <1>4, EncodeFacts DEF TypeOK
<1>6. /\ Len(stream) = EndOf(n)
      /\ \A k \in 0 .. n : EndOf(k)' = EndOf(k)
      /\ EndOf(n + 1)' = Len(stream) + Total(f)
  BY <1>1, <1>2, <1>3, <1>4 DEF EndOf, Writer
<1>7. Layout'
  <2>1. \A k \in 1 .. n + 1 : starts'[k] = EndOf(k - 1)'
    <3> SUFFICES ASSUME NEW k \in 1 .. n + 1 PROVE starts'[k] = EndOf(k - 1)'
      OBVIOUS
    <3>1. EndOf(k - 1)' = EndOf(k - 1)
      BY <1>6
    <3>2. CASE k = n + 1
      BY <1>3, <1>6, <3>1, <3>2
    <3>3. CASE k \in 1 .. n
      BY <1>3, <3>1, <3>3 DEF Layout
    <3> QED BY <3>2, <3>3
  <2>2. \A k \in 1 .. n : EndOf(k) <= EndOf(n)
    <3> SUFFICES ASSUME NEW k \in 1 .. n, k < n PROVE EndOf(k) <= EndOf(n)
      BY <1>1, SentFacts
    <3>1. n \in 1 .. n
      BY <1>1
    <3>2. EndOf(k) <= starts[n]
      BY <3>1 DEF Layout
    <3> QED BY <3>1, <3>2, SentFacts
  <2>3. \A k, j \in 1 .. n + 1 : k < j => EndOf(k)' <= starts'[j]
    <3> SUFFICES ASSUME NEW k \in 1 .. n + 1, NEW j \in 1 .. n + 1, k < j
                 PROVE  EndOf(k)' <= starts'[j]
      OBVIOUS
    <3>1. k \in 1 .. n /\ EndOf(k)' = EndOf(k)
      BY <1>1, <1>6
    <3>2. CASE j = n + 1
      BY <1>3, <1>6, <2>2, <3>1, <3>2
    <3>3. CASE j # n + 1
      <4>1. j \in 1 .. n /\ starts'[j] = starts[j]
        <5>1. j \in 1 .. n
          BY <3>3
        <5> QED BY <1>3, <5>1
      <4> QED BY <3>1, <4>1 DEF Layout
    <3> QED BY <3>2, <3>3
  <2> QED BY <1>1, <1>2, <1>3, <1>4, <1>6, <2>1, <2>3 DEF Layout
<1>8. Writer'
  <2>1. Encode(f) = SubSeq(Encode(f), 1, Total(f))
    BY EncodeFacts, SubSeqFull
  <2>2. rest'[t] = Encode(f) /\ \A u \in Sender : u # t => rest'[u] = <<>>
    BY <1>4, FrameAssumption DEF TypeOK, Writer
  <2>3. Len(stream) - Len(stream) + 1 = 1
    BY <1>1
  <2>4. Writing(f, Len(stream))'
    BY <1>1, <1>4, <2>1, <2>2, <2>3 DEF Writing, HeaderSize
  <2> QED BY <1>1, <1>2, <1>3, <1>4, <2>2, <2>4 DEF Writer, Writing
<1>9. Written'
  <2> SUFFICES ASSUME NEW k \in 1 .. n + 1, NEW i \in 1 .. Total(sent'[k]),
                      starts'[k] + i <= Len(stream)
               PROVE  \/ stream[starts'[k] + i] = Encode(sent'[k])[i]
                      \/ damage > 0 /\ stream[starts'[k] + i] \in ByteCell
    BY <1>2, <1>4 DEF Written
  <2>1. CASE k = n + 1
    BY <1>1, <1>2, <1>3, <2>1
  <2>2. CASE k # n + 1
    <3>1. k \in 1 .. n
      BY <1>1, <2>2
    <3> QED BY <1>2, <1>3, <3>1 DEF Written
  <2> QED BY <2>1, <2>2
<1>10. Reader'
  <2>1. Len(delivered) \in Nat /\ Len(delivered) <= n
    BY LenProperties DEF TypeOK, Reader
  <2>2. Buffer' = Buffer
    BY <1>4 DEF Buffer
  <2> QED BY <1>1, <1>2, <1>4, <1>6, <2>1, <2>2 DEF Reader
<1> QED BY <1>5, <1>7, <1>8, <1>9, <1>10

\* Steps that leave the frames sent alone.
LEMMA EndOfSame ==
  ASSUME UNCHANGED <<sent, starts>>, NEW k
  PROVE  EndOf(k)' = EndOf(k)
BY DEF EndOf

LEMMA InvWrite ==
  ASSUME Inv, NEW t \in Sender, NEW n \in 1 .. Len(rest[t]), Write(t, n)
  PROVE  Inv'
<1> USE DEF Inv
<1>a. PICK N \in Nat : N = Len(sent)
  BY LenProperties DEF TypeOK
<1>b. PICK f : f = sent[N]
  OBVIOUS
<1>c. PICK s : s = starts[N]
  OBVIOUS
<1>d. PICK L \in Nat : L = Len(stream)
  BY LenProperties DEF TypeOK
<1>e. PICK r : r = rest[t]
  OBVIOUS
<1>f. PICK e : e = Encode(f)
  OBVIOUS
<1>g. PICK T : T = Total(f)
  OBVIOUS
<1> USE <1>a, <1>b, <1>c, <1>d, <1>e, <1>f, <1>g
<1>1. /\ UNCHANGED <<sent, starts, up, arrived, taken, delivered, verdict, damage>>
      /\ up /\ stream' = stream \o SubSeq(r, 1, n)
      /\ rest' = [rest EXCEPT ![t] = SubSeq(r, n + 1, Len(r))]
      /\ lock' = IF n = Len(r) THEN None ELSE lock
  BY DEF Write, recvVars
<1>2. /\ r \in Seq(Cell) /\ Len(r) \in Nat /\ n \in Nat /\ n <= Len(r) /\ n >= 1
      /\ stream \in Seq(Cell) /\ L \in Nat /\ arrived \in 0 .. L /\ N \in Nat
  BY LenProperties DEF TypeOK
<1>3. lock = t /\ lock # None
  <2>1. r # <<>>
    BY <1>2, EmptySeq
  <2> QED BY <2>1, FrameAssumption DEF Writer
<1>4. N > 0 /\ s <= L /\ L < s + T /\ r = SubSeq(e, L - s + 1, T)
  BY <1>1, <1>3 DEF Writer, Writing
<1>5. /\ N \in 1 .. N /\ f \in Frame /\ s \in Nat /\ T \in Nat
      /\ EndOf(N) = s + T
  <2>1. N \in 1 .. N
    BY <1>4
  <2> QED BY <2>1, SentFacts
<1>6. e \in Seq(Cell) /\ Len(e) = T
  BY <1>5, EncodeFacts
<1>7. /\ Len(r) = s + T - L
      /\ \A i \in 1 .. Len(r) : r[i] = e[L - s + i]
  <2>1. L - s + 1 \in Int /\ T \in Int
    BY <1>2, <1>5
  <2>2. \A i \in L - s + 1 .. T : e[i] \in Cell
    <3> SUFFICES ASSUME NEW i \in L - s + 1 .. T PROVE e[i] \in Cell
      OBVIOUS
    <3> HIDE <1>a, <1>b, <1>c, <1>d, <1>e, <1>f, <1>g
    <3>1. L \in Nat /\ s \in Nat /\ T \in Nat /\ s <= L /\ Len(e) = T
      BY <1>2, <1>4, <1>5, <1>6
    <3>2. i \in 1 .. Len(e)
      BY <3>1
    <3> QED BY <1>6, <3>2, ElementOfSeq
  <2>3. /\ Len(r) = IF L - s + 1 <= T THEN T - (L - s + 1) + 1 ELSE 0
        /\ \A i \in 1 .. T - (L - s + 1) + 1 : r[i] = e[(L - s + 1) + i - 1]
    BY <1>4, <2>1, <2>2, SubSeqProperties
  <2> HIDE <1>a, <1>b, <1>c, <1>d, <1>e, <1>f, <1>g
  <2>4. Len(r) = s + T - L
    BY <1>2, <1>4, <1>5, <2>3
  <2>5. ASSUME NEW i \in 1 .. Len(r) PROVE r[i] = e[L - s + i]
    <3>1. i \in 1 .. T - (L - s + 1) + 1 /\ (L - s + 1) + i - 1 = L - s + i
      BY <1>2, <1>5, <2>4, <2>5
    <3> QED BY <2>3, <3>1
  <2> QED BY <2>4, <2>5
<1>8. /\ SubSeq(r, 1, n) \in Seq(Cell) /\ Len(SubSeq(r, 1, n)) = n
      /\ \A i \in 1 .. n : SubSeq(r, 1, n)[i] = r[i]
  <2>1. \A i \in 1 .. n : r[i] \in Cell
    BY <1>2, ElementOfSeq
  <2>2. /\ SubSeq(r, 1, n) \in Seq(Cell)
        /\ Len(SubSeq(r, 1, n)) = IF 1 <= n THEN n - 1 + 1 ELSE 0
        /\ \A i \in 1 .. n - 1 + 1 : SubSeq(r, 1, n)[i] = r[1 + i - 1]
    BY <1>2, <2>1, SubSeqProperties
  <2> QED BY <1>2, <2>2
<1>9. /\ stream' \in Seq(Cell) /\ Len(stream') = L + n
      /\ \A i \in 1 .. L : stream'[i] = stream[i]
      /\ \A i \in 1 .. n : stream'[L + i] = e[L - s + i]
  <2>1. /\ stream' \in Seq(Cell) /\ Len(stream') = L + n
        /\ \A i \in 1 .. L + n : stream'[i] =
             IF i <= L THEN stream[i] ELSE SubSeq(r, 1, n)[i - L]
    <3> DEFINE w == SubSeq(r, 1, n)
    <3> HIDE DEF w
    <3>1. w \in Seq(Cell) /\ Len(w) = n /\ stream' = stream \o w
      BY <1>1, <1>8 DEF w
    <3> QED BY <1>2, <3>1, ConcatProperties DEF w
  <2>2. \A i \in 1 .. n : stream'[L + i] = r[i]
    <3> SUFFICES ASSUME NEW i \in 1 .. n PROVE stream'[L + i] = r[i]
      OBVIOUS
    <3>1. L + i \in 1 .. L + n /\ ~ (L + i <= L) /\ (L + i) - L = i
      BY <1>2
    <3> QED BY <1>8, <2>1, <3>1
  <2> HIDE <1>a, <1>b, <1>c, <1>d, <1>e, <1>f, <1>g
  <2>3. \A i \in 1 .. L : stream'[i] = stream[i]
    BY <1>2, <2>1
  <2>4. \A i \in 1 .. n : stream'[L + i] = e[L - s + i]
    BY <1>2, <1>7, <2>2
  <2> QED BY <2>1, <2>3, <2>4
<1>10. /\ n < Len(r) => SubSeq(r, n + 1, Len(r)) = SubSeq(e, L + n - s + 1, T)
       /\ n = Len(r) => SubSeq(r, n + 1, Len(r)) = <<>>
       /\ SubSeq(r, n + 1, Len(r)) \in Seq(Cell)
  <2>1. \A i \in n + 1 .. Len(r) : r[i] \in Cell
    BY <1>2, ElementOfSeq
  <2>2. SubSeq(r, n + 1, Len(r)) \in Seq(Cell)
    BY <1>2, <2>1, SubSeqProperties
  <2>3. n = Len(r) => SubSeq(r, n + 1, Len(r)) = <<>>
    BY <1>2, SubSeqEmpty
  <2>4. ASSUME n < Len(r)
        PROVE  SubSeq(r, n + 1, Len(r)) = SubSeq(e, L + n - s + 1, T)
    <3> DEFINE i == L - s + 1
               j == T
               m == n + 1
               q == Len(r)
    <3>1. /\ i \in 1 .. Len(e) /\ j \in 1 .. Len(e)
          /\ m \in 1 .. j - i + 1 /\ q \in 1 .. j - i + 1
          /\ i + m - 1 = L + n - s + 1 /\ i + q - 1 = T
      <4> HIDE <1>a, <1>b, <1>c, <1>d, <1>e, <1>f, <1>g
      <4>1. /\ L \in Nat /\ s \in Nat /\ T \in Nat /\ n \in Nat /\ Len(r) \in Nat
            /\ s <= L /\ L < s + T /\ n < Len(r) /\ n >= 1
            /\ Len(r) = s + T - L /\ Len(e) = T
        BY <1>2, <1>4, <1>5, <1>6, <1>7, <2>4
      <4>2. i \in 1 .. Len(e) /\ j \in 1 .. Len(e)
        BY <4>1
      <4>3. j - i + 1 = Len(r) /\ m \in 1 .. Len(r) /\ q \in 1 .. Len(r)
        BY <4>1
      <4>4. i + m - 1 = L + n - s + 1 /\ i + q - 1 = T
        BY <4>1
      <4> QED BY <4>2, <4>3, <4>4
    <3> HIDE DEF i, j, m, q
    <3>2. SubSeq(SubSeq(e, i, j), m, q) = SubSeq(e, i + m - 1, i + q - 1)
      BY <1>6, <3>1, SubSeqOfSubSeq
    <3> QED BY <1>4, <3>1, <3>2 DEF i, j, m, q
  <2> QED BY <2>2, <2>3, <2>4
<1>11. TypeOK'
  <2>1. rest' \in [Sender -> Seq(Cell)]
    BY <1>1, <1>10 DEF TypeOK
  <2>2. arrived' \in 0 .. Len(stream')
    BY <1>1, <1>2, <1>9
  <2>3. lock' \in Sender \cup {None}
    BY <1>1, <1>3
  <2> QED BY <1>1, <1>9, <2>1, <2>2, <2>3 DEF TypeOK
<1>12. Layout'
  <2>1. L + n <= EndOf(N)
    BY <1>2, <1>5, <1>7
  <2>2. \A k : EndOf(k)' = EndOf(k)
    BY <1>1, EndOfSame
  <2> QED BY <1>1, <1>9, <2>1, <2>2 DEF Layout
<1>13. Writer'
  <2>1. rest'[t] = SubSeq(r, n + 1, Len(r)) /\ \A u \in Sender : u # t => rest'[u] = <<>>
    BY <1>1, <1>3 DEF TypeOK, Writer
  <2>2. CASE n = Len(r)
    <3>1. lock' = None /\ rest'[t] = <<>> /\ L + n = EndOf(N)
      <4>1. L + n = EndOf(N)
        <5> HIDE <1>a, <1>b, <1>c, <1>d, <1>e, <1>f, <1>g
        <5> QED BY <1>2, <1>5, <1>7, <2>2
      <4> QED BY <1>1, <1>10, <2>1, <2>2, <4>1
    <3>2. EndOf(N)' = EndOf(N)
      BY <1>1, EndOfSame
    <3> QED BY <1>1, <1>9, <2>1, <3>1, <3>2 DEF Writer
  <2>3. CASE n < Len(r)
    <3>1. /\ lock' = t /\ rest'[t] = SubSeq(e, L + n - s + 1, T)
          /\ s <= L + n /\ L + n < s + T
      <4>1. s <= L + n /\ L + n < s + T
        <5> HIDE <1>a, <1>b, <1>c, <1>d, <1>e, <1>f, <1>g
        <5>1. /\ L \in Nat /\ s \in Nat /\ T \in Nat /\ n \in Nat
              /\ s <= L /\ n < Len(r) /\ Len(r) = s + T - L
          BY <1>2, <1>4, <1>5, <1>7, <2>3
        <5> QED BY <5>1
      <4>2. n # Len(r)
        BY <1>2, <2>3
      <4> QED BY <1>1, <1>3, <1>10, <2>1, <2>3, <4>1, <4>2
    <3>2. Writing(f, s)'
      <4>1. Len(stream') = L + n
        BY <1>9
      <4>2. rest'[lock'] = SubSeq(e, L + n - s + 1, T)
        BY <3>1
      <4>3. s <= Len(stream') /\ Len(stream') < s + Total(f)
        <5> HIDE <1>a, <1>b, <1>c, <1>d, <1>e, <1>f
        <5> QED BY <3>1, <4>1
      <4>4. rest'[lock'] = SubSeq(Encode(f), Len(stream') - s + 1, Total(f))
        <5> HIDE <1>a, <1>b, <1>c, <1>d, <1>e
        <5>1. SubSeq(e, L + n - s + 1, T) = SubSeq(Encode(f), L + n - s + 1, Total(f))
          OBVIOUS
        <5>2. L + n - s + 1 = Len(stream') - s + 1
          BY <1>2, <1>5, <4>1
        <5> QED BY <4>2, <5>1, <5>2, Zenon
      <4> QED BY <4>3, <4>4 DEF Writing
    <3> QED BY <1>1, <1>3, <1>4, <2>1, <3>1, <3>2 DEF Writer
  <2> QED BY <1>2, <2>2, <2>3
<1>14. Written'
  <2> SUFFICES ASSUME NEW k \in 1 .. N, NEW i \in 1 .. Total(sent[k]),
                      starts[k] + i <= L + n
               PROVE  \/ stream'[starts[k] + i] = Encode(sent[k])[i]
                      \/ damage > 0 /\ stream'[starts[k] + i] \in ByteCell
    <3>1. Len(stream') = L + n
      BY <1>9
    <3>2. sent' = sent /\ starts' = starts /\ damage' = damage
      BY <1>1
    <3> QED BY <3>1, <3>2 DEF Written
  <2>1. starts[k] \in Nat /\ Total(sent[k]) \in Nat /\ EndOf(k) = starts[k] + Total(sent[k])
    BY SentFacts
  <2>2. CASE starts[k] + i <= L
    <3>1. stream'[starts[k] + i] = stream[starts[k] + i]
      <4>1. i \in Nat /\ i >= 1
        BY <2>1
      <4>2. starts[k] + i \in 1 .. L
        BY <1>2, <2>1, <2>2, <4>1
      <4> QED BY <1>9, <4>2
    <3> QED BY <2>2, <3>1 DEF Written
  <2>3. CASE ~ (starts[k] + i <= L)
    <3>1. k = N
      <4> SUFFICES ASSUME k < N PROVE FALSE
        BY <1>2
      <4>1. EndOf(k) <= s
        BY <1>5 DEF Layout
      <4> HIDE <1>a, <1>b, <1>c, <1>d, <1>e, <1>f, <1>g
      <4>2. L \in Nat /\ s \in Nat /\ s <= L /\ i \in Nat /\ i <= Total(sent[k])
        BY <1>2, <1>4, <1>5, <2>1
      <4> QED BY <2>1, <2>3, <4>1, <4>2
    <3>2. /\ (s + i) - L \in 1 .. n
          /\ L + ((s + i) - L) = s + i
          /\ (L - s) + ((s + i) - L) = i
      <4>1. L \in Nat /\ n \in Nat /\ s \in Nat /\ s + i <= L + n /\ ~ (s + i <= L)
        BY <1>2, <1>5, <2>3, <3>1
      <4>2. i \in Nat
        BY <2>1
      <4> HIDE <1>a, <1>b, <1>c, <1>d, <1>e, <1>f, <1>g
      <4> QED BY <4>1, <4>2
    <3>3. stream'[s + i] = e[i]
      BY <1>9, <3>2
    <3> QED BY <3>1, <3>3
  <2> QED BY <2>2, <2>3
<1>15. Reader'
  <2>1. \A i \in 1 .. arrived : stream'[i] = stream[i]
    BY <1>2, <1>9
  <2>2. Buffer' = Buffer
    BY <1>1, <1>11, <2>1, BufferSame
  <2>3. EndOf(Len(delivered))' = EndOf(Len(delivered))
    BY <1>1, EndOfSame
  <2> QED BY <1>1, <2>2, <2>3 DEF Reader
<1> QED BY <1>11, <1>12, <1>13, <1>14, <1>15

\* The faults: a broken connection loses cells at the end of the stream, a
\* damaged cell is some byte, and neither touches what has arrived.
LEMMA InvFault ==
  ASSUME Inv,
         \/ \E t \in Sender : WriteFails(t)
         \/ \E n \in arrived .. Len(stream) : Cut(n)
         \/ \E i \in arrived + 1 .. Len(stream), v \in Garbage : Damage(i, v)
  PROVE  Inv'
<1> USE DEF Inv
<1>1. /\ stream \in Seq(Cell) /\ Len(stream) \in Nat /\ arrived \in Nat
      /\ arrived <= Len(stream) /\ taken \in 0 .. arrived /\ Len(sent) \in Nat
  BY LenProperties DEF TypeOK
<1>2. UNCHANGED <<sent, starts, arrived, taken, delivered, verdict>>
  BY DEF WriteFails, Cut, Damage, sendVars, recvVars
<1>3. ASSUME TypeOK', Len(stream') <= Len(stream), damage' >= damage,
             \A i \in 1 .. Len(stream') :
               stream'[i] = stream[i] \/ (damage' > 0 /\ stream'[i] \in ByteCell),
             \A i \in 1 .. arrived : stream'[i] = stream[i]
      PROVE  Layout' /\ Written' /\ Reader'
  <2>1. Len(stream') \in Nat /\ damage \in Nat /\ damage' \in Nat
    BY <1>3, LenProperties DEF TypeOK
  <2>2. \A k : EndOf(k)' = EndOf(k)
    BY <1>2, EndOfSame
  <2>3. Layout'
    <3>1. EndOf(Len(sent)) \in Nat
      BY <1>1, SentFacts DEF EndOf
    <3>2. Len(stream') <= EndOf(Len(sent))
      BY <1>1, <1>3, <2>1, <3>1 DEF Layout
    <3> QED BY <1>2, <2>2, <3>2 DEF Layout
  <2>4. Written'
    <3> SUFFICES ASSUME NEW k \in 1 .. Len(sent), NEW i \in 1 .. Total(sent[k]),
                        starts[k] + i <= Len(stream')
                 PROVE  \/ stream'[starts[k] + i] = Encode(sent[k])[i]
                        \/ damage' > 0 /\ stream'[starts[k] + i] \in ByteCell
      BY <1>2 DEF Written
    <3>1. starts[k] \in Nat /\ Total(sent[k]) \in Nat
      BY SentFacts
    <3>2. starts[k] + i \in 1 .. Len(stream') /\ starts[k] + i <= Len(stream)
      <4>1. i \in Nat /\ i >= 1
        BY <3>1
      <4>2. Len(stream) \in Nat /\ Len(stream') <= Len(stream)
        BY <1>1, <1>3
      <4> QED BY <2>1, <3>1, <4>1, <4>2
    <3>3. \/ stream[starts[k] + i] = Encode(sent[k])[i]
          \/ damage > 0 /\ stream[starts[k] + i] \in ByteCell
      BY <3>2 DEF Written
    <3>4. damage > 0 => damage' > 0
      BY <1>3, <2>1
    <3> QED BY <1>3, <3>2, <3>3, <3>4
  <2>5. Buffer' = Buffer
    BY <1>2, <1>3, BufferSame
  <2>6. Reader'
    BY <1>2, <2>2, <2>5 DEF Reader
  <2> QED BY <2>3, <2>4, <2>6
<1>4. ASSUME NEW t \in Sender, WriteFails(t) PROVE Inv'
  <2>1. /\ lock = t /\ ~ up /\ lock' = None /\ rest' = [rest EXCEPT ![t] = <<>>]
        /\ UNCHANGED <<stream, up, damage>>
    BY <1>4 DEF WriteFails
  <2>2. TypeOK'
    BY <1>2, <2>1, EmptySeq DEF TypeOK
  <2>3. Writer'
    BY <2>1 DEF Writer, TypeOK
  <2>4. damage' >= damage
    BY <2>1 DEF TypeOK
  <2>5. Layout' /\ Written' /\ Reader'
    BY <1>1, <1>3, <2>1, <2>2, <2>4
  <2> QED BY <2>2, <2>3, <2>5
<1>5. ASSUME NEW n \in arrived .. Len(stream), Cut(n) PROVE Inv'
  <2>1. /\ up' = FALSE /\ stream' = SubSeq(stream, 1, n)
        /\ UNCHANGED <<lock, rest, damage>>
    BY <1>5 DEF Cut, sendVars
  <2>2. n \in Nat /\ arrived <= n /\ n <= Len(stream)
    BY <1>1
  <2>3. /\ stream' \in Seq(Cell) /\ Len(stream') = n
        /\ \A i \in 1 .. n : stream'[i] = stream[i]
    <3>1. \A i \in 1 .. n : stream[i] \in Cell
      BY <1>1, <2>2, ElementOfSeq
    <3>2. /\ SubSeq(stream, 1, n) \in Seq(Cell)
          /\ Len(SubSeq(stream, 1, n)) = IF 1 <= n THEN n - 1 + 1 ELSE 0
          /\ \A i \in 1 .. n - 1 + 1 : SubSeq(stream, 1, n)[i] = stream[1 + i - 1]
      BY <2>2, <3>1, SubSeqProperties
    <3> QED BY <2>1, <2>2, <3>2
  <2>4. TypeOK'
    <3>1. arrived' \in 0 .. Len(stream')
      BY <1>1, <1>2, <2>2, <2>3
    <3> QED BY <1>2, <2>1, <2>3, <3>1 DEF TypeOK
  <2>5. Writer'
    BY <2>1 DEF Writer
  <2>6. damage' >= damage
    BY <2>1 DEF TypeOK
  <2>7. \A i \in 1 .. arrived : stream'[i] = stream[i]
    BY <1>1, <2>2, <2>3
  <2>8. Layout' /\ Written' /\ Reader'
    BY <1>3, <2>2, <2>3, <2>4, <2>6, <2>7
  <2> QED BY <2>4, <2>5, <2>8
<1>6. ASSUME NEW i \in arrived + 1 .. Len(stream), NEW v \in Garbage, Damage(i, v)
      PROVE  Inv'
  <2>1. /\ stream' = [stream EXCEPT ![i] = Byte(v)] /\ damage' = damage + 1
        /\ UNCHANGED <<lock, rest, up>>
    BY <1>6 DEF Damage, sendVars
  <2>2. Byte(v) \in ByteCell /\ Byte(v) \in Cell
    BY FrameAssumption, ByteFacts
  <2>3. i \in 1 .. Len(stream) /\ i > arrived
    BY <1>1
  <2>4. /\ stream' \in Seq(Cell) /\ Len(stream') = Len(stream)
        /\ \A j \in 1 .. Len(stream) : stream'[j] = IF j = i THEN Byte(v) ELSE stream[j]
    BY <1>1, <2>1, <2>2, <2>3, ExceptSeq
  <2>5. damage \in Nat /\ damage' \in Nat /\ damage' > 0 /\ damage' >= damage
    BY <2>1 DEF TypeOK
  <2>6. TypeOK'
    BY <1>2, <2>1, <2>4, <2>5 DEF TypeOK
  <2>7. Writer'
    <3>1. EndOf(Len(sent))' = EndOf(Len(sent))
      BY <1>2, EndOfSame
    <3> QED BY <1>2, <2>1, <2>4, <3>1 DEF Writer, Writing
  <2>8. \A j \in 1 .. arrived : stream'[j] = stream[j]
    BY <1>1, <2>3, <2>4
  <2>9. \A j \in 1 .. Len(stream') :
          stream'[j] = stream[j] \/ (damage' > 0 /\ stream'[j] \in ByteCell)
    BY <2>2, <2>4, <2>5
  <2>10. Len(stream') <= Len(stream)
    BY <1>1, <2>4
  <2>11. Layout' /\ Written' /\ Reader'
    BY <1>3, <2>5, <2>6, <2>8, <2>9, <2>10
  <2> QED BY <2>6, <2>7, <2>11
<1> QED BY <1>4, <1>5, <1>6

LEMMA InvReceive ==
  ASSUME Inv, ReceiverStep
  PROVE  Inv'
<1> USE DEF Inv
<1>1. UNCHANGED <<sent, starts, lock, rest, stream, up, damage>>
  BY DEF ReceiverStep, RecvFrame, RecvReject, RecvClosed, RecvSome, sendVars
<1>2. Layout' /\ Writer' /\ Written'
  <2>1. \A k : EndOf(k)' = EndOf(k)
    BY <1>1, EndOfSame
  <2> QED BY <1>1, <2>1 DEF Layout, Writer, Writing, Written
<1>3. CASE RecvFrame
  <2>1. PICK k \in Nat : k = Len(delivered) + 1
    BY LenProperties DEF TypeOK
  <2>2. PICK f : f = sent[k]
    OBVIOUS
  <2>3. /\ k \in 1 .. Len(sent) /\ starts[k] = taken
        /\ [kind |-> Buffer[3][1], payload |-> PayloadOf(Buffer)] = f
        /\ HeaderSize + LengthOf(Buffer) = Total(f)
        /\ Total(f) <= Len(Buffer)
    BY <1>3, <2>1, <2>2, DecodedIsSent DEF RecvFrame
  <2>4. /\ f \in Frame /\ Total(f) \in Nat /\ EndOf(k) = taken + Total(f)
    BY <2>2, <2>3, SentFacts
  <2>5. /\ delivered' = Append(delivered, f)
        /\ taken' = taken + HeaderSize + LengthOf(Buffer)
        /\ verdict' = "frame" /\ arrived' = arrived
    BY <1>3, <2>3 DEF RecvFrame
  <2>6. LengthOf(Buffer) \in Nat
    <3>1. HeaderValid(Buffer)
      BY <1>3, BufferFacts, LenProperties, DecodeCases DEF RecvFrame
    <3> QED BY <3>1, ByteFacts, FrameAssumption DEF HeaderValid, LengthOf
  <2>7. taken' = EndOf(k) /\ taken' \in 0 .. arrived
    <3>1. taken \in Nat /\ arrived \in Nat /\ Len(Buffer) = arrived - taken
      BY BufferFacts
    <3> HIDE <2>2
    <3> QED BY <2>3, <2>4, <2>5, <2>6, <3>1 DEF HeaderSize
  <2>8. /\ delivered' \in Seq(Frame) /\ Len(delivered') = k
        /\ delivered'[k] = f /\ \A j \in 1 .. Len(delivered) : delivered'[j] = delivered[j]
    BY <2>1, <2>4, <2>5, AppendProperties DEF TypeOK
  <2>9. TypeOK'
    BY <1>1, <2>5, <2>7, <2>8 DEF TypeOK
  <2>10. EndOf(k)' = EndOf(k)
    BY <1>1, EndOfSame
  <2>11. Reader'
    <3>1. \A j \in 1 .. k : delivered'[j] = sent[j]
      <4> SUFFICES ASSUME NEW j \in 1 .. k PROVE delivered'[j] = sent[j]
        OBVIOUS
      <4>1. j = k \/ j \in 1 .. Len(delivered)
        BY <2>1
      <4> QED BY <2>2, <2>8, <4>1 DEF Reader
    <3>2. k <= Len(sent)
      BY <2>3
    <3> QED BY <1>1, <2>5, <2>7, <2>8, <2>10, <3>1, <3>2 DEF Reader
  <2> QED BY <1>2, <2>9, <2>11
<1>4. CASE RecvReject \/ RecvClosed
  <2>1. /\ UNCHANGED <<arrived, taken, delivered>>
        /\ \/ verdict' = "rejected" /\ Decode(Buffer) = "REJECT"
           \/ verdict' = "closed"
    BY <1>4 DEF RecvReject, RecvClosed
  <2>2. TypeOK'
    BY <1>1, <2>1 DEF TypeOK
  <2>3. Buffer' = Buffer /\ EndOf(Len(delivered))' = EndOf(Len(delivered))
    BY <1>1, <2>1, EndOfSame DEF Buffer
  <2>4. Reader'
    BY <1>1, <2>1, <2>3 DEF Reader
  <2> QED BY <1>2, <2>2, <2>4
<1>5. ASSUME NEW n \in 1 .. ReadSize, RecvSome(n) PROVE Inv'
  <2>1. /\ arrived' = arrived + n /\ arrived + n <= Len(stream)
        /\ UNCHANGED <<taken, delivered, verdict>> /\ Decode(Buffer) = "NEED_MORE"
    BY <1>5 DEF RecvSome, recvVars
  <2>2. TypeOK'
    <3>1. arrived' \in 0 .. Len(stream) /\ taken \in 0 .. arrived'
      BY <2>1, BufferFacts, FrameAssumption DEF TypeOK
    <3> QED BY <1>1, <2>1, <3>1 DEF TypeOK
  <2>3. EndOf(Len(delivered))' = EndOf(Len(delivered))
    BY <1>1, <2>1, EndOfSame
  <2>4. verdict # "rejected"
    BY <2>1 DEF Reader
  <2>5. Reader'
    BY <1>1, <2>1, <2>3, <2>4 DEF Reader
  <2> QED BY <1>2, <2>2, <2>5
<1> QED BY <1>3, <1>4, <1>5 DEF ReceiverStep

LEMMA InvNext == Inv /\ [Next]_vars => Inv'
<1> SUFFICES ASSUME Inv, [Next]_vars PROVE Inv'
  OBVIOUS
<1>1. CASE UNCHANGED vars
  <2>1. UNCHANGED <<sent, starts, lock, rest, stream, up, arrived, taken, delivered,
                    verdict, damage>>
    BY <1>1 DEF vars, sendVars, recvVars
  <2> QED BY <2>1 DEF Inv, TypeOK, Layout, Writer, Writing, Written, Reader, EndOf, Buffer
<1>2. CASE Next
  BY <1>2, InvSend, InvWrite, InvFault, InvReceive DEF Next, SenderStep
<1> QED BY <1>1, <1>2

-----------------------------------------------------------------------------
\* Every variable of the channel keeps its type: the decoder never erases
\* more than it was given.
THEOREM TypeCorrect == Spec => []TypeOK
<1>1. Inv => TypeOK
  BY DEF Inv
<1> QED BY <1>1, InvInit, InvNext, PTL DEF Spec

\* However the stream is cut into pieces and however many threads write,
\* frames of an acceptable size that nobody changed are not rejected.
THEOREM NoFalseRejection == Spec => []RejectedForCause
<1>1. Inv => RejectedForCause
  <2> SUFFICES ASSUME Inv, verdict = "rejected", ~ (damage > 0)
               PROVE  /\ Len(delivered) < Len(sent)
                      /\ Oversized(sent[Len(delivered) + 1])
    BY DEF RejectedForCause
  <2>1. Decode(Buffer) = "REJECT"
    BY DEF Inv, Reader
  <2> QED BY <2>1, UndamagedAccepted
<1> QED BY <1>1, InvInit, InvNext, PTL DEF Spec

\* The channel implements the abstract FIFO channel: every frame that recv
\* returns is the next one that was sent, unchanged, and after a rejection it
\* returns none.
THEOREM ChannelRefinement == Spec => ImplementsChannel
<1>1. Init => Channel!Init
  BY DEF Init, Channel!Init
<1>2. Inv /\ [Next]_vars => [Channel!Next]_(Channel!vars)
  <2> SUFFICES ASSUME Inv, [Next]_vars PROVE [Channel!Next]_(Channel!vars)
    OBVIOUS
  <2> USE DEF Channel!Next, Channel!vars
  <2>1. ASSUME NEW t \in Sender, NEW f \in Frame, Send(t, f) PROVE Channel!Put(f)
    BY <2>1 DEF Send, recvVars, Channel!Put
  <2>2. CASE RecvFrame
    <3>1. LET f == sent[Len(delivered) + 1] IN
          /\ Len(delivered) + 1 \in 1 .. Len(sent)
          /\ [kind |-> Buffer[3][1], payload |-> PayloadOf(Buffer)] = f
      BY <2>2, DecodedIsSent DEF RecvFrame
    <3>2. verdict # "rejected" /\ verdict' # "rejected"
      BY <2>2 DEF RecvFrame, Inv, Reader
    <3>3. Len(delivered) < Len(sent)
      BY <3>1, LenProperties DEF Inv, TypeOK
    <3>4. delivered' = Append(delivered, sent[Len(delivered) + 1]) /\ sent' = sent
      BY <2>2, <3>1 DEF RecvFrame, sendVars
    <3> QED BY <3>2, <3>3, <3>4 DEF Channel!Take
  <2>3. CASE RecvReject
    BY <2>3 DEF RecvReject, sendVars, Channel!Refuse
  <2>4. CASE RecvClosed
    <3>1. verdict # "rejected" /\ verdict' # "rejected"
      BY <2>4 DEF RecvClosed, Inv, Reader
    <3> QED BY <2>4, <3>1 DEF RecvClosed, sendVars
  <2>5. CASE UNCHANGED <<sent, delivered, verdict>>
    BY <2>5
  <2>6. \/ \E t \in Sender, f \in Frame : Send(t, f)
        \/ RecvFrame \/ RecvReject \/ RecvClosed
        \/ UNCHANGED <<sent, delivered, verdict>>
    BY DEF Next, SenderStep, ReceiverStep, WriteFails, Write, Cut, Damage, RecvSome, vars,
           sendVars, recvVars
  <2> QED BY <2>1, <2>2, <2>3, <2>4, <2>5, <2>6
<1> QED BY <1>1, <1>2, InvInit, InvNext, PTL DEF Spec, ImplementsChannel, Channel!Spec

=============================================================================
