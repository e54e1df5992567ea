------------------------- MODULE PacketReaderProofs -------------------------
(***************************************************************************)
(* Proofs that the packet reader never alters the stream and reassembles   *)
(* its packets, for every byte size, every prefix, every stream and every  *)
(* way the connection cuts it.                                             *)
(***************************************************************************)
EXTENDS PacketReader, NumberLemmas, SequenceTheorems, TLAPS

(* A header announces an integer length (readFragment).                    *)
LEMMA LengthType ==
  ASSUME NEW h \in Seq(Byte), Len(h) >= HeaderLen
  PROVE  LengthOf(h) \in Int
<1>1. Base \in Int
  BY ReaderAssumption
<1>2. h[1] \in Int /\ h[2] \in Int /\ h[3] \in Int
  BY <1>1 DEF HeaderLen, Byte
<1>3. Base * h[2] \in Int /\ Base * Base \in Int
  BY <1>1, <1>2
<1>4. (Base * Base) * h[3] \in Int
  BY <1>2, <1>3
<1> QED
  BY <1>2, <1>3, <1>4 DEF LengthOf

(* What a ReadFull still wants is an integer (io.ReadFull in readFragment).*)
LEMMA WantType ==
  ASSUME StreamInv, pc \in {"header", "body"}
  PROVE  Want \in Int
<1>1. CASE pc = "header"
  BY <1>1 DEF Want, StreamInv, HeaderLen
<1>2. CASE pc = "body"
  <2>1. LengthOf(raw) \in Int
    BY <1>2, LengthType DEF StreamInv
  <2> QED
    BY <1>2, <2>1 DEF Want, StreamInv, HeaderLen
<1> QED
  BY <1>1, <1>2

(* Appending the next n bytes of the wire to what was consumed gives what  *)
(* is consumed then (PrefixedConn.Read, in either of its two branches).    *)
LEMMA NextBytes ==
  ASSUME StreamInv, NEW n \in Nat, n > 0,
         NEW chunk,
         \/ offset + n <= Len(prefix) /\ taken = 0
            /\ chunk = SubSeq(prefix, offset + 1, offset + n)
         \/ offset = Len(prefix) /\ taken + n <= Len(stream)
            /\ chunk = SubSeq(stream, taken + 1, taken + n)
  PROVE  /\ chunk \in Seq(Byte)
         /\ SubSeq(Wire, 1, Consumed) \o chunk = SubSeq(Wire, 1, Consumed + n)
<1>0. prefix \in Seq(Byte) /\ stream \in Seq(Byte) /\ offset \in Nat /\ taken \in Nat
      /\ Len(prefix) \in Nat /\ Len(stream) \in Nat
  BY DEF StreamInv
<1>1. Wire \in Seq(Byte) /\ Len(Wire) = Len(prefix) + Len(stream)
  BY <1>0, ConcatProperties DEF Wire
<1>2. Consumed \in Nat /\ Consumed + n <= Len(Wire)
  BY <1>0, <1>1 DEF Consumed, StreamInv
<1>3. chunk = SubSeq(Wire, Consumed + 1, Consumed + n)
  <2>1. CASE offset + n <= Len(prefix) /\ taken = 0
             /\ chunk = SubSeq(prefix, offset + 1, offset + n)
    <3>1. offset + 1 \in 1 .. Len(prefix) /\ offset + n \in 1 .. Len(prefix)
      BY <1>0, <2>1
    <3>2. SubSeq(prefix \o stream, offset + 1, offset + n)
          = SubSeq(prefix, offset + 1, offset + n)
      BY <1>0, <3>1, SubSeqOfConcat1
    <3> QED
      BY <1>0, <2>1, <3>2 DEF Wire, Consumed
  <2>2. CASE offset = Len(prefix) /\ taken + n <= Len(stream)
             /\ chunk = SubSeq(stream, taken + 1, taken + n)
    <3> DEFINE a == Consumed + 1
               b == Consumed + n
    <3>1. a \in Len(prefix) + 1 .. Len(prefix) + Len(stream)
          /\ b \in Len(prefix) + 1 .. Len(prefix) + Len(stream)
      BY <1>0, <2>2 DEF Consumed
    <3>2. SubSeq(prefix \o stream, a, b) = SubSeq(stream, a - Len(prefix), b - Len(prefix))
      <4> HIDE DEF a, b
      <4> QED
        BY <1>0, <3>1, SubSeqOfConcat2
    <3>3. a - Len(prefix) = taken + 1 /\ b - Len(prefix) = taken + n
      BY <1>0, <2>2 DEF Consumed
    <3> QED
      BY <2>2, <3>2, <3>3 DEF Wire
  <2> QED
    BY <2>1, <2>2
<1>4. 1 \in 1 .. Len(Wire) + 1 /\ Consumed \in 1 - 1 .. Len(Wire)
      /\ Consumed + n \in Consumed .. Len(Wire)
  BY <1>1, <1>2
<1>5. SubSeq(Wire, 1, Consumed) \o SubSeq(Wire, Consumed + 1, Consumed + n)
      = SubSeq(Wire, 1, Consumed + n)
  BY <1>1, <1>4, ConcatAdjacentSubSeq
<1>6. \A i \in Consumed + 1 .. Consumed + n : Wire[i] \in Byte
  BY <1>1, <1>2
<1>7. chunk \in Seq(Byte)
  BY <1>2, <1>3, <1>6, SubSeqProperties
<1> QED
  BY <1>3, <1>5, <1>7

(* The bytes of the packet in progress are bytes (ReadPacket).             *)
LEMMA PendingType ==
  ASSUME StreamInv
  PROVE  Pending \in Seq(Byte)
BY ConcatProperties DEF StreamInv, Pending

(* Appending a chunk to the last of two buffers is appending it to both.   *)
LEMMA ChunkAtEnd ==
  ASSUME NEW s \in Seq(Byte), NEW t \in Seq(Byte), NEW chunk \in Seq(Byte)
  PROVE  (s \o t) \o chunk = s \o (t \o chunk)
BY ConcatAssociative

(* A Read that returns the next bytes of the wire keeps the invariant      *)
(* (io.ReadFull in readFragment).                                          *)
LEMMA FillStep ==
  ASSUME IInv, pc \in {"header", "body"}, NEW chunk \in Seq(Byte), NEW n \in Nat,
         SubSeq(Wire, 1, Consumed) \o chunk = SubSeq(Wire, 1, Consumed + n),
         Fill(chunk), Consumed' = Consumed + n,
         offset' \in 0 .. Len(prefix), taken' \in 0 .. Len(stream),
         taken' > 0 => offset' = Len(prefix)
  PROVE  IInv'
<1>0. hdr \in Seq(Byte) /\ raw \in Seq(Byte) /\ rawBuf \in Seq(Byte) /\ forwarded \in Seq(Byte)
  BY DEF IInv, StreamInv
<1>1. UNCHANGED <<prefix, stream, pc, rawBuf, forwarded>>
  BY DEF Fill, connVars
<1>2. /\ hdr' \in Seq(Byte) /\ raw' \in Seq(Byte)
      /\ pc = "header" => raw' = <<>> /\ hdr' = hdr \o chunk
      /\ pc = "body" => raw' = raw \o chunk /\ raw # <<>> /\ Len(raw') >= HeaderLen
  <2>1. CASE pc = "header"
    <3>1. hdr' = hdr \o chunk /\ raw' = <<>>
      BY <2>1 DEF Fill, IInv, StreamInv
    <3>2. hdr \o chunk \in Seq(Byte)
      BY <1>0, ConcatProperties
    <3> QED
      BY <1>0, <2>1, <3>1, <3>2
  <2>2. CASE pc = "body"
    <3>1. raw' = raw \o chunk /\ hdr' = hdr /\ Len(raw) >= HeaderLen
      BY <2>2 DEF Fill, IInv, StreamInv
    <3>2. raw \o chunk \in Seq(Byte) /\ Len(raw \o chunk) = Len(raw) + Len(chunk)
      BY <1>0, ConcatProperties
    <3>3. Len(raw) \in Nat /\ Len(chunk) \in Nat
      BY <1>0
    <3>4. raw # <<>>
      BY <3>1 DEF HeaderLen
    <3> QED
      BY <1>0, <2>2, <3>1, <3>2, <3>3, <3>4 DEF HeaderLen
  <2> QED
    BY <2>1, <2>2
<1>3. StreamInv'
  BY <1>1, <1>2 DEF IInv, StreamInv
<1>4. Pending' = Pending \o chunk
  <2>1. CASE pc = "header"
    <3>1. Pending = rawBuf \o hdr /\ Pending' = rawBuf \o (hdr \o chunk)
      BY <1>1, <1>2, <2>1 DEF Pending
    <3>2. (rawBuf \o hdr) \o chunk = rawBuf \o (hdr \o chunk)
      BY <1>0, ChunkAtEnd
    <3> QED
      BY <3>1, <3>2
  <2>2. CASE pc = "body"
    <3>1. raw' # <<>>
      BY <1>2, <2>2 DEF HeaderLen
    <3>2. Pending = rawBuf \o raw /\ Pending' = rawBuf \o (raw \o chunk)
      BY <1>1, <1>2, <2>2, <3>1 DEF Pending
    <3>3. (rawBuf \o raw) \o chunk = rawBuf \o (raw \o chunk)
      BY <1>0, ChunkAtEnd
    <3> QED
      BY <3>2, <3>3
  <2> QED
    BY <2>1, <2>2
<1>5. (forwarded \o Pending) \o chunk = forwarded \o (Pending \o chunk)
  <2>1. StreamInv
    BY DEF IInv
  <2>2. Pending \in Seq(Byte)
    BY <2>1, PendingType
  <2> QED
    BY <1>0, <2>2, ChunkAtEnd
<1>6. Wire' = Wire
  BY <1>1 DEF Wire
<1>7. Verbatim'
  BY <1>1, <1>4, <1>5, <1>6 DEF IInv, Verbatim
<1> QED
  BY <1>3, <1>7 DEF IInv

(* The invariant holds before the first byte (NewReader).                  *)
LEMMA IInvInit == Init => IInv
<1> SUFFICES ASSUME Init PROVE IInv
  OBVIOUS
<1>1. StreamInv
  BY ReaderAssumption DEF Init, StreamInv
<1>2. SubSeq(Wire, 1, 0) = <<>>
  BY SubSeqEmpty
<1>3. forwarded \o Pending = <<>>
  BY DEF Init, Pending
<1> QED
  BY <1>1, <1>2, <1>3 DEF Init, IInv, Verbatim, Consumed

(* Every step of ReadPacket and of the connection keeps it.                *)
LEMMA IInvStep == IInv /\ [Next]_vars => IInv'
<1> SUFFICES ASSUME IInv, [Next]_vars PROVE IInv'
  OBVIOUS
<1>0. hdr \in Seq(Byte) /\ raw \in Seq(Byte) /\ rawBuf \in Seq(Byte) /\ forwarded \in Seq(Byte)
      /\ offset \in Nat /\ taken \in Nat /\ Len(prefix) \in Nat /\ Len(stream) \in Nat
  BY DEF IInv, StreamInv
<1>1. CASE ReadPacket
  <2>1. StreamInv'
    BY <1>1 DEF ReadPacket, connVars, IInv, StreamInv
  <2>2. Pending' = Pending
    BY <1>1 DEF ReadPacket, Pending, IInv, StreamInv
  <2> QED
    BY <1>1, <2>1, <2>2 DEF ReadPacket, connVars, IInv, Verbatim, Wire, Consumed
<1>2. CASE ReadPrefix
  <2> DEFINE left == Len(prefix) - offset
             n == IF Want < left THEN Want ELSE left
  <2>1. pc \in {"header", "body"} /\ Want > 0 /\ offset < Len(prefix)
        /\ Fill(SubSeq(prefix, offset + 1, offset + n))
        /\ offset' = offset + n /\ taken' = taken
    BY <1>2 DEF ReadPrefix
  <2>2. Want \in Int
    BY <2>1, WantType DEF IInv
  <2>3. n \in Nat /\ n > 0 /\ offset + n <= Len(prefix)
    BY <1>0, <2>1, <2>2
  <2>4. taken = 0
    BY <1>0, <2>1 DEF IInv, StreamInv
  <2> HIDE DEF n
  <2>5. /\ SubSeq(prefix, offset + 1, offset + n) \in Seq(Byte)
        /\ SubSeq(Wire, 1, Consumed) \o SubSeq(prefix, offset + 1, offset + n)
           = SubSeq(Wire, 1, Consumed + n)
    BY <2>3, <2>4, NextBytes DEF IInv
  <2>6. Consumed' = Consumed + n
    BY <1>0, <2>1, <2>3 DEF Consumed
  <2>7. offset' \in 0 .. Len(prefix) /\ taken' \in 0 .. Len(stream) /\ ~(taken' > 0)
    BY <1>0, <2>1, <2>3, <2>4
  <2> QED
    BY <2>1, <2>3, <2>5, <2>6, <2>7, FillStep
<1>3. ASSUME NEW n \in 1 .. MaxPayloadLen + HeaderLen, ReadConn(n) PROVE IInv'
  <2>1. pc \in {"header", "body"} /\ offset >= Len(prefix) /\ taken + n <= Len(stream)
        /\ Fill(SubSeq(stream, taken + 1, taken + n))
        /\ taken' = taken + n /\ offset' = offset
    BY <1>3 DEF ReadConn
  <2>2. n \in Nat /\ n > 0
    OBVIOUS
  <2>3. offset = Len(prefix)
    BY <1>0, <2>1 DEF IInv, StreamInv
  <2>4. /\ SubSeq(stream, taken + 1, taken + n) \in Seq(Byte)
        /\ SubSeq(Wire, 1, Consumed) \o SubSeq(stream, taken + 1, taken + n)
           = SubSeq(Wire, 1, Consumed + n)
    BY <2>1, <2>2, <2>3, NextBytes DEF IInv
  <2>5. Consumed' = Consumed + n
    BY <1>0, <2>1, <2>2 DEF Consumed
  <2>6. offset' \in 0 .. Len(prefix) /\ taken' \in 0 .. Len(stream) /\ offset' = Len(prefix)
    BY <1>0, <2>1, <2>2, <2>3
  <2> QED
    BY <2>1, <2>2, <2>4, <2>5, <2>6, FillStep
<1>4. ASSUME NEW kind, pc \in {"header", "body"}, Fail(kind) PROVE IInv'
  <2>1. StreamInv'
    BY <1>4 DEF Fail, connVars, IInv, StreamInv
  <2>2. Pending' = Pending
    BY <1>4 DEF Fail, Pending, IInv, StreamInv, HeaderLen
  <2> QED
    BY <1>4, <2>1, <2>2 DEF Fail, connVars, IInv, Verbatim, Wire, Consumed
<1>5. CASE HeaderDone
  <2>1. raw' = hdr /\ Len(hdr) = HeaderLen
    BY <1>0, <1>5 DEF HeaderDone, Want, HeaderLen
  <2>2. StreamInv'
    BY <1>5, <2>1 DEF HeaderDone, connVars, IInv, StreamInv, HeaderLen
  <2>3. Pending' = Pending
    BY <1>5, <2>1 DEF HeaderDone, Pending, HeaderLen
  <2> QED
    BY <1>5, <2>2, <2>3 DEF HeaderDone, connVars, IInv, Verbatim, Wire, Consumed
<1>6. CASE FragmentDone
  <2>1. pc = "body" /\ raw # <<>> /\ rawBuf' = rawBuf \o raw /\ raw' = <<>> /\ hdr' = <<>>
        /\ pc' = "header" /\ UNCHANGED <<prefix, stream, offset, taken, forwarded>>
    BY <1>6 DEF FragmentDone, connVars, IInv, StreamInv, HeaderLen
  <2>2. rawBuf' \in Seq(Byte)
    BY <1>0, <2>1, ConcatProperties
  <2>3. StreamInv'
    BY <2>1, <2>2 DEF IInv, StreamInv
  <2>4. Pending' = Pending
    BY <2>1, <2>2, ConcatEmptySeq DEF Pending
  <2> QED
    BY <2>1, <2>3, <2>4 DEF IInv, Verbatim, Wire, Consumed
<1>7. CASE PacketDone
  <2>1. pc = "body" /\ raw # <<>> /\ forwarded' = forwarded \o (rawBuf \o raw)
        /\ raw' = <<>> /\ hdr' = <<>> /\ rawBuf' = <<>>
        /\ pc' = "idle" /\ UNCHANGED <<prefix, stream, offset, taken>>
    BY <1>7 DEF PacketDone, connVars, IInv, StreamInv, HeaderLen
  <2>2. forwarded' \in Seq(Byte)
    BY <1>0, <2>1, ConcatProperties
  <2>3. StreamInv'
    BY <2>1, <2>2 DEF IInv, StreamInv
  <2>4. Pending = rawBuf \o raw /\ Pending' = <<>>
    BY <2>1 DEF Pending
  <2>5. forwarded' \o Pending' = forwarded \o Pending
    BY <2>1, <2>2, <2>4, ConcatEmptySeq
  <2> QED
    BY <2>1, <2>3, <2>5 DEF IInv, Verbatim, Wire, Consumed
<1>8. CASE UNCHANGED vars
  BY <1>8 DEF vars, IInv, StreamInv, Verbatim, Pending, Wire, Consumed
<1> QED
  BY <1>1, <1>2, <1>3, <1>4, <1>5, <1>6, <1>7, <1>8
     DEF Next, ReadEnd, ReadBroken, Closed

(* The length a header announces is at most MaxPayloadLen (readFragment).  *)
LEMMA LengthBound ==
  ASSUME NEW h \in Seq(Byte), Len(h) >= HeaderLen
  PROVE  LengthOf(h) \in 0 .. MaxPayloadLen
<1>1. Base \in Nat /\ Base > 1
  BY ReaderAssumption
<1>2. h[1] \in Byte /\ h[2] \in Byte /\ h[3] \in Byte
  BY DEF HeaderLen
<1>3. /\ h[1] \in Nat /\ h[2] \in Nat /\ h[3] \in Nat
      /\ h[1] <= Base - 1 /\ h[2] <= Base - 1 /\ h[3] <= Base - 1 /\ Base - 1 \in Nat
  BY <1>1, <1>2 DEF Byte
<1>4. Base * Base \in Nat
  BY <1>1
<1>5. Base * h[2] <= Base * (Base - 1) /\ Base * h[2] \in Nat
  BY <1>1, <1>3, Mul
<1>6. (Base * Base) * h[3] <= (Base * Base) * (Base - 1) /\ (Base * Base) * h[3] \in Nat
  BY <1>3, <1>4, Mul
<1>7. Base * (Base - 1) = Base * Base - Base
  BY <1>1
<1>8. (Base * Base) * (Base - 1) = (Base * Base) * Base - Base * Base
  BY <1>1
<1>9. (Base * Base) * Base \in Nat
  BY <1>1, <1>4
<1> DEFINE x == Base * h[2]
           y == (Base * Base) * h[3]
           s == Base * Base
           t == (Base * Base) * Base
<1>10. x \in Nat /\ y \in Nat /\ s \in Nat /\ t \in Nat /\ x <= s - Base /\ y <= t - s
  BY <1>4, <1>5, <1>6, <1>7, <1>8, <1>9
<1>11. LengthOf(h) = h[1] + x + y
  BY DEF LengthOf
<1>12. MaxPayloadLen = t - 1
  BY DEF MaxPayloadLen
<1> HIDE DEF x, y, s, t
<1> QED
  BY <1>1, <1>3, <1>10, <1>11, <1>12

(* The bytes that follow a header do not change the length it announces.   *)
LEMMA LengthKept ==
  ASSUME NEW h \in Seq(Byte), Len(h) >= HeaderLen, NEW t \in Seq(Byte)
  PROVE  LengthOf(h \o t) = LengthOf(h)
<1>1. \A i \in 1 .. Len(h) + Len(t) : (h \o t)[i] = IF i <= Len(h) THEN h[i] ELSE t[i - Len(h)]
  BY ConcatProperties
<1>2. Len(h) \in Nat /\ Len(t) \in Nat
  BY LenProperties
<1>3. (h \o t)[1] = h[1] /\ (h \o t)[2] = h[2] /\ (h \o t)[3] = h[3]
  BY <1>1, <1>2 DEF HeaderLen
<1> QED
  BY <1>3 DEF LengthOf

(* The types the steps below use (the locals of readFragment).             *)
LEMMA Types ==
  ASSUME TypeOK
  PROVE  /\ prefix \in Seq(Byte) /\ stream \in Seq(Byte) /\ hdr \in Seq(Byte) /\ raw \in Seq(Byte)
         /\ rawBuf \in Seq(Byte) /\ payloadBuf \in Seq(Byte) /\ forwarded \in Seq(Byte)
         /\ packets \in Seq(Packet)
         /\ Len(hdr) \in Nat /\ Len(raw) \in Nat /\ Len(hdr) <= HeaderLen
         /\ pc = "body" => Len(raw) >= HeaderLen
<1>1. /\ prefix \in Seq(Byte) /\ stream \in Seq(Byte) /\ hdr \in Seq(Byte) /\ raw \in Seq(Byte)
      /\ rawBuf \in Seq(Byte) /\ payloadBuf \in Seq(Byte) /\ forwarded \in Seq(Byte)
      /\ packets \in Seq(Packet)
      /\ Len(hdr) <= HeaderLen /\ (pc = "body" => Len(raw) >= HeaderLen)
  BY Zenon DEF TypeOK
<1> QED
  BY <1>1, LenProperties

(* A Read that returns at most what is wanted keeps the types and the      *)
(* bounds of the buffers (io.ReadFull in readFragment).                    *)
LEMMA FillTypes ==
  ASSUME TypeOK, BodyInv, pc \in {"header", "body"},
         NEW chunk \in Seq(Byte), Len(chunk) <= Want, Fill(chunk),
         offset' \in 0 .. Len(prefix), taken' \in 0 .. Len(stream)
  PROVE  TypeOK' /\ BodyInv'
<1>0. /\ hdr \in Seq(Byte) /\ raw \in Seq(Byte) /\ Len(hdr) \in Nat /\ Len(raw) \in Nat
      /\ (pc = "body" => Len(raw) >= HeaderLen) /\ Len(hdr) <= HeaderLen /\ Len(chunk) \in Nat
  BY Types, LenProperties
<1>1. UNCHANGED <<prefix, stream, pc, rawBuf, payloadBuf, packets, forwarded, err>>
  BY DEF Fill, connVars
<1>2. CASE pc = "header"
  <2>1. hdr' = hdr \o chunk /\ raw' = raw /\ Len(chunk) <= HeaderLen - Len(hdr)
    BY <1>2 DEF Fill, Want
  <2>2. hdr' \in Seq(Byte) /\ Len(hdr') = Len(hdr) + Len(chunk)
    BY <1>0, <2>1, ConcatProperties
  <2>3. Len(hdr') <= HeaderLen
    BY <1>0, <2>1, <2>2 DEF HeaderLen
  <2>4. TypeOK'
    BY <1>1, <1>2, <2>1, <2>2, <2>3, Zenon DEF TypeOK
  <2> QED
    BY <1>1, <1>2, <2>4 DEF BodyInv
<1>3. CASE pc = "body"
  <2>1. hdr' = hdr /\ raw' = raw \o chunk /\ Len(chunk) <= HeaderLen + LengthOf(raw) - Len(raw)
    BY <1>3 DEF Fill, Want
  <2>2. raw' \in Seq(Byte) /\ Len(raw') = Len(raw) + Len(chunk)
    BY <1>0, <2>1, ConcatProperties
  <2>3. LengthOf(raw) \in 0 .. MaxPayloadLen /\ LengthOf(raw') = LengthOf(raw)
    BY <1>0, <1>3, <2>1, LengthBound, LengthKept
  <2>4. MaxPayloadLen \in Int
    <3>1. Base * Base \in Nat
      BY ReaderAssumption
    <3>2. (Base * Base) * Base \in Nat
      BY <3>1, ReaderAssumption
    <3> QED
      BY <3>2 DEF MaxPayloadLen
  <2>5. /\ Len(raw') <= HeaderLen + LengthOf(raw') /\ Len(raw') >= HeaderLen
        /\ Len(raw') <= HeaderLen + MaxPayloadLen
    BY <1>0, <1>3, <2>1, <2>2, <2>3, <2>4 DEF HeaderLen
  <2>6. TypeOK'
    BY <1>1, <2>1, <2>2, <2>5, Zenon DEF TypeOK
  <2> QED
    BY <2>5, <2>6 DEF BodyInv
<1> QED
  BY <1>2, <1>3

(* The length of what a Read returns.                                      *)
LEMMA ChunkLength ==
  ASSUME NEW s \in Seq(Byte), NEW from \in Nat, NEW n \in Nat, from + n <= Len(s)
  PROVE  SubSeq(s, from + 1, from + n) \in Seq(Byte) /\ Len(SubSeq(s, from + 1, from + n)) = n
<1>1. \A i \in 1 .. Len(s) : s[i] \in Byte
  BY ElementOfSeq
<1>2. \A i \in from + 1 .. from + n : s[i] \in Byte
  BY <1>1, LenProperties
<1>3. from + 1 \in Int /\ from + n \in Int /\ (from + 1 <= from + n <=> n > 0)
  OBVIOUS
<1> QED
  BY <1>2, <1>3, SubSeqProperties

(* Every step keeps the types, and returns the bare EOF only in the right  *)
(* place (ReadPacket, readFragment).                                       *)
LEMMA TypeStep ==
  ASSUME IInv, TypeOK, BodyInv, [Next]_vars
  PROVE  TypeOK' /\ BodyInv'
<1>0. /\ prefix \in Seq(Byte) /\ stream \in Seq(Byte) /\ hdr \in Seq(Byte) /\ raw \in Seq(Byte)
      /\ rawBuf \in Seq(Byte) /\ payloadBuf \in Seq(Byte) /\ forwarded \in Seq(Byte)
      /\ packets \in Seq(Packet)
      /\ Len(hdr) \in Nat /\ Len(raw) \in Nat /\ Len(hdr) <= HeaderLen
      /\ pc = "body" => Len(raw) >= HeaderLen
  BY Types
<1>a. offset \in 0 .. Len(prefix) /\ taken \in 0 .. Len(stream)
  BY Zenon DEF TypeOK
<1>b. Len(prefix) \in Nat /\ Len(stream) \in Nat /\ offset \in Nat /\ taken \in Nat
  BY <1>0, <1>a, LenProperties
<1>c. /\ <<>> \in Seq(Byte) /\ Len(<<>>) = 0 /\ MaxPayloadLen \in Nat /\ HeaderLen = 4
      /\ Len(<<>>) <= HeaderLen /\ Len(<<>>) <= HeaderLen + MaxPayloadLen
      /\ HeaderLen <= HeaderLen + MaxPayloadLen
  <2>1. Base * Base \in Nat /\ Base * Base > 0
    BY ReaderAssumption
  <2>2. (Base * Base) * Base \in Nat /\ (Base * Base) * Base > 0
    BY <2>1, ReaderAssumption
  <2>3. MaxPayloadLen \in Nat
    BY <2>2 DEF MaxPayloadLen
  <2>4. <<>> \in Seq(Byte) /\ Len(<<>>) = 0
    BY EmptySeq
  <2> QED
    BY <2>3, <2>4 DEF HeaderLen
<1>1. CASE ReadPacket
  <2>1. TypeOK'
    BY <1>1, <1>c, Zenon DEF ReadPacket, connVars, TypeOK
  <2> QED
    BY <1>1, <2>1 DEF ReadPacket, BodyInv
<1>2. CASE ReadPrefix
  <2> DEFINE left == Len(prefix) - offset
             n == IF Want < left THEN Want ELSE left
  <2>1. pc \in {"header", "body"} /\ Want > 0 /\ offset < Len(prefix)
        /\ Fill(SubSeq(prefix, offset + 1, offset + n))
        /\ offset' = offset + n /\ taken' = taken
    BY <1>2 DEF ReadPrefix
  <2>2. Want \in Int
    BY <2>1, WantType DEF IInv
  <2>3. n \in Nat /\ n <= Want /\ offset + n <= Len(prefix)
    BY <1>b, <2>1, <2>2
  <2> HIDE DEF n
  <2>4. SubSeq(prefix, offset + 1, offset + n) \in Seq(Byte)
        /\ Len(SubSeq(prefix, offset + 1, offset + n)) <= Want
    BY <1>0, <1>b, <2>3, ChunkLength
  <2>5. offset' \in 0 .. Len(prefix) /\ taken' \in 0 .. Len(stream)
    BY <1>a, <1>b, <2>1, <2>3
  <2> QED
    BY <2>1, <2>4, <2>5, FillTypes
<1>3. ASSUME NEW n \in 1 .. MaxPayloadLen + HeaderLen, ReadConn(n) PROVE TypeOK' /\ BodyInv'
  <2>1. pc \in {"header", "body"} /\ n <= Want /\ taken + n <= Len(stream)
        /\ Fill(SubSeq(stream, taken + 1, taken + n))
        /\ taken' = taken + n /\ offset' = offset
    <3>1. n \in 1 .. Want
      BY <1>3 DEF ReadConn
    <3>2. pc \in {"header", "body"}
      BY <1>3 DEF ReadConn
    <3>3. Want \in Int
      BY <3>2, WantType DEF IInv
    <3> QED
      BY <1>3, <3>1, <3>3 DEF ReadConn
  <2>2. n \in Nat
    OBVIOUS
  <2>3. SubSeq(stream, taken + 1, taken + n) \in Seq(Byte)
        /\ Len(SubSeq(stream, taken + 1, taken + n)) <= Want
    BY <1>0, <1>b, <2>1, <2>2, ChunkLength
  <2>4. offset' \in 0 .. Len(prefix) /\ taken' \in 0 .. Len(stream)
    BY <1>a, <1>b, <2>1, <2>2
  <2> QED
    BY <2>1, <2>3, <2>4, FillTypes
<1>4. ASSUME NEW kind \in {"EOF", "ErrUnexpectedEOF", "broken"}, Fail(kind) PROVE TypeOK' /\ BodyInv'
  <2>1. err' \in [kind : {"nil", "EOF", "ErrUnexpectedEOF", "broken"}, wrapped : BOOLEAN]
    BY <1>4 DEF Fail
  <2>2. pc' = "failed" /\ UNCHANGED <<prefix, stream, offset, taken, hdr, raw, rawBuf, payloadBuf, packets, forwarded>>
    BY <1>4 DEF Fail, connVars
  <2>3. TypeOK'
    BY <2>1, <2>2, Zenon DEF TypeOK
  <2> QED
    BY <2>2, <2>3 DEF BodyInv
<1>5. CASE HeaderDone
  <2>1. raw' = hdr /\ pc' = "body" /\ Len(hdr) = HeaderLen
        /\ UNCHANGED <<prefix, stream, offset, taken, hdr, rawBuf, payloadBuf, packets, forwarded, err>>
    BY <1>0, <1>5 DEF HeaderDone, connVars, Want, HeaderLen
  <2>2. Len(raw') >= HeaderLen /\ Len(raw') <= HeaderLen + MaxPayloadLen /\ raw' \in Seq(Byte)
    BY <1>0, <1>c, <2>1
  <2>3. TypeOK'
    BY <2>1, <2>2, Zenon DEF TypeOK
  <2>4. LengthOf(raw') \in 0 .. MaxPayloadLen
    BY <2>2, LengthBound
  <2>5. Len(raw') <= HeaderLen + LengthOf(raw')
    BY <1>0, <1>c, <2>1, <2>4
  <2> QED
    BY <2>3, <2>5 DEF BodyInv
<1>d. pc = "body" => BodyOf(raw) \in Seq(Byte) /\ SeqOf(raw) \in Byte
  <2> SUFFICES ASSUME pc = "body" PROVE BodyOf(raw) \in Seq(Byte) /\ SeqOf(raw) \in Byte
    OBVIOUS
  <2>1. \A i \in 1 .. Len(raw) : raw[i] \in Byte
    BY <1>0, ElementOfSeq
  <2>2. \A i \in HeaderLen + 1 .. Len(raw) : raw[i] \in Byte
    BY <1>0, <1>c, <2>1
  <2>3. BodyOf(raw) \in Seq(Byte)
    BY <1>0, <1>c, <2>2, SubSeqProperties DEF BodyOf
  <2>4. 4 \in 1 .. Len(raw)
    BY <1>0, <1>c
  <2> QED
    BY <2>1, <2>3, <2>4 DEF SeqOf
<1>6. CASE FragmentDone
  <2>1. /\ pc = "body" /\ rawBuf' = rawBuf \o raw /\ payloadBuf' = payloadBuf \o BodyOf(raw)
        /\ raw' = <<>> /\ hdr' = <<>> /\ pc' = "header"
        /\ UNCHANGED <<prefix, stream, offset, taken, packets, forwarded, err>>
    BY <1>6 DEF FragmentDone, connVars
  <2>2. rawBuf' \in Seq(Byte) /\ payloadBuf' \in Seq(Byte)
    BY <1>0, <1>d, <2>1, ConcatProperties
  <2>3. TypeOK'
    BY <1>c, <2>1, <2>2, Zenon DEF TypeOK
  <2> QED
    BY <2>1, <2>3 DEF BodyInv
<1>7. CASE PacketDone
  <2> DEFINE p == [seq |-> SeqOf(raw), payload |-> payloadBuf \o BodyOf(raw), raw |-> rawBuf \o raw]
  <2>1. /\ pc = "body" /\ packets' = Append(packets, p) /\ forwarded' = forwarded \o (rawBuf \o raw)
        /\ raw' = <<>> /\ hdr' = <<>> /\ rawBuf' = <<>> /\ payloadBuf' = <<>> /\ pc' = "idle"
        /\ UNCHANGED <<prefix, stream, offset, taken, err>>
    BY <1>7 DEF PacketDone, connVars
  <2>2. rawBuf \o raw \in Seq(Byte) /\ payloadBuf \o BodyOf(raw) \in Seq(Byte)
    BY <1>0, <1>d, <2>1, ConcatProperties
  <2>3. forwarded' \in Seq(Byte)
    BY <1>0, <2>1, <2>2, ConcatProperties
  <2>4. p \in Packet
    BY <1>d, <2>1, <2>2 DEF Packet
  <2> HIDE DEF p
  <2>5. packets' \in Seq(Packet)
    BY <1>0, <2>1, <2>4, AppendProperties
  <2>6. TypeOK'
    BY <1>c, <2>1, <2>3, <2>5, Zenon DEF TypeOK
  <2> QED
    BY <2>1, <2>6 DEF BodyInv
<1>8. CASE UNCHANGED vars
  <2>1. TypeOK'
    BY <1>8, Zenon DEF vars, TypeOK
  <2> QED
    BY <1>8, <2>1 DEF vars, BodyInv
<1> QED
  BY <1>1, <1>2, <1>3, <1>4, <1>5, <1>6, <1>7, <1>8 DEF Next, ReadEnd, ReadBroken, Closed

(* A ReadFull that fails reports a bare EOF exactly when nothing of a      *)
(* packet was read (ReadPacket, readFragment).                             *)
LEMMA EndStep ==
  ASSUME IInv, CleanEnd, [Next]_vars
  PROVE  CleanEnd'
<1>0. /\ hdr \in Seq(Byte) /\ raw \in Seq(Byte) /\ rawBuf \in Seq(Byte)
      /\ pc = "header" => raw = <<>>
      /\ pc = "body" => Len(raw) >= HeaderLen
  BY DEF IInv, StreamInv
<1>1. CASE ReadEnd
  <2> DEFINE kind == IF GotSome THEN "ErrUnexpectedEOF" ELSE "EOF"
  <2>1. /\ pc \in {"header", "body"} /\ err' = [kind |-> kind, wrapped |-> pc = "body" \/ rawBuf # <<>>]
        /\ pc' = "failed" /\ UNCHANGED <<hdr, raw, rawBuf>>
    BY <1>1 DEF ReadEnd, Fail
  <2>2. CASE pc = "header"
    <3>1. GotSome <=> hdr # <<>>
      BY <2>2 DEF GotSome
    <3>2. raw' = <<>>
      BY <1>0, <2>1, <2>2
    <3>3. Pending' = rawBuf \o hdr
      BY <2>1, <3>2 DEF Pending
    <3>4. rawBuf \o hdr = <<>> <=> rawBuf = <<>> /\ hdr = <<>>
      BY <1>0, ConcatProperties, EmptySeq, LenProperties
    <3> QED
      BY <2>1, <2>2, <3>1, <3>3, <3>4 DEF CleanEnd
  <2>3. CASE pc = "body"
    <3>1. raw # <<>>
      BY <1>0, <2>3 DEF HeaderLen
    <3>2. Pending' = rawBuf \o raw
      BY <2>1, <3>1 DEF Pending
    <3>3. rawBuf \o raw # <<>>
      BY <1>0, <3>1, ConcatProperties, EmptySeq, LenProperties
    <3> QED
      BY <2>1, <2>3, <3>2, <3>3 DEF CleanEnd
  <2> QED
    BY <2>1, <2>2, <2>3
<1>2. CASE ReadBroken
  BY <1>2 DEF ReadBroken, Fail, CleanEnd
<1>3. CASE UNCHANGED vars
  BY <1>3 DEF vars, CleanEnd, Pending
<1>4. ASSUME ReadPacket \/ ReadPrefix \/ (\E n \in 1 .. MaxPayloadLen + HeaderLen : ReadConn(n))
             \/ HeaderDone \/ FragmentDone \/ PacketDone
      PROVE  CleanEnd'
  <2>1. pc' # "failed"
    BY <1>4 DEF ReadPacket, ReadPrefix, ReadConn, Fill, HeaderDone, FragmentDone, PacketDone
  <2> QED
    BY <2>1 DEF CleanEnd
<1> QED
  BY <1>1, <1>2, <1>3, <1>4 DEF Next, Closed

(* What ReadPacket returns is exactly what it consumed, byte for byte, and *)
(* between two calls nothing is kept back (ReadPacket, PrefixedConn.Read). *)
THEOREM ReaderIsVerbatim == Spec => []Verbatim
<1>1. IInv => Verbatim
  BY DEF IInv
<1> QED
  BY <1>1, IInvInit, IInvStep, PTL DEF Spec

(* The reader keeps its state well formed, each buffer within the size of  *)
(* a fragment, and the packets it returns are packets (ReadPacket).        *)
THEOREM TypeCorrect == Spec => []TypeOK
<1>1. Init => TypeOK /\ BodyInv
  <2> SUFFICES ASSUME Init PROVE TypeOK /\ BodyInv
    OBVIOUS
  <2>1. prefix \in Seq(Byte) /\ stream \in Seq(Byte)
    BY ReaderAssumption DEF Init
  <2>2. 0 \in 0 .. Len(prefix) /\ 0 \in 0 .. Len(stream)
    BY <2>1, LenProperties
  <2>3. <<>> \in Seq(Byte) /\ <<>> \in Seq(Packet)
    BY EmptySeq
  <2>4. Len(<<>>) <= HeaderLen /\ Len(<<>>) <= HeaderLen + MaxPayloadLen
    <3>1. Base * Base \in Nat /\ Base * Base > 0
      BY ReaderAssumption
    <3>2. (Base * Base) * Base \in Nat /\ (Base * Base) * Base > 0
      BY <3>1, ReaderAssumption
    <3> QED
      BY <3>2, EmptySeq DEF HeaderLen, MaxPayloadLen
  <2>5. NoErr \in [kind : {"nil", "EOF", "ErrUnexpectedEOF", "broken"}, wrapped : BOOLEAN]
    BY DEF NoErr
  <2> QED
    BY <2>1, <2>2, <2>3, <2>4, <2>5, Zenon DEF Init, TypeOK, BodyInv
<1>2. IInv /\ TypeOK /\ BodyInv /\ [Next]_vars => TypeOK' /\ BodyInv'
  BY TypeStep
<1> QED
  BY <1>1, <1>2, IInvInit, IInvStep, PTL DEF Spec

(* The bare EOF that callers take for a closed connection is returned      *)
(* exactly between two logical packets (ReadPacket, readFragment).         *)
THEOREM EndIsClean == Spec => []CleanEnd
<1>1. Init => CleanEnd
  BY DEF Init, CleanEnd
<1>2. IInv /\ CleanEnd /\ [Next]_vars => CleanEnd'
  BY EndStep
<1> QED
  BY <1>1, <1>2, IInvInit, IInvStep, PTL DEF Spec

(* A full fragment is not empty (MaxPayloadLen).                           *)
LEMMA MaxPositive == MaxPayloadLen \in Nat /\ MaxPayloadLen > 0 /\ HeaderLen = 4
<1>1. Base \in Nat /\ Base >= 2
  BY ReaderAssumption
<1>2. Base * Base \in Nat /\ Base * Base >= 2
  BY <1>1
<1>3. (Base * Base) * Base \in Nat /\ (Base * Base) * Base >= 2
  BY <1>1, <1>2
<1> QED
  BY <1>3 DEF MaxPayloadLen, HeaderLen

(* What a header announces inside a longer byte string (readFragment).     *)
LEMMA HeaderAt ==
  ASSUME NEW s \in Seq(Byte), NEW a \in Nat, a + HeaderLen <= Len(s)
  PROVE  /\ LengthOf(SubSeq(s, a + 1, a + HeaderLen)) = s[a + 1] + Base * s[a + 2] + Base * Base * s[a + 3]
         /\ SeqOf(SubSeq(s, a + 1, a + HeaderLen)) = s[a + 4]
<1> DEFINE h == SubSeq(s, a + 1, a + 4)
<1>1. Len(s) \in Nat
  BY LenProperties
<1>2. \A i \in 1 .. 4 : h[i] = s[a + i]
  <2>1. \A i \in a + 1 .. a + 4 : s[i] \in Byte
    BY <1>1, ElementOfSeq DEF HeaderLen
  <2>2. a + 1 \in Int /\ a + 4 \in Int /\ a + 1 <= a + 4
    OBVIOUS
  <2>3. \A i \in 1 .. (a + 4) - (a + 1) + 1 : h[i] = s[(a + 1) + i - 1]
    BY <2>1, <2>2, SubSeqProperties
  <2> HIDE DEF h
  <2>4. ASSUME NEW i \in 1 .. 4 PROVE h[i] = s[a + i]
    <3>1. i \in 1 .. (a + 4) - (a + 1) + 1 /\ (a + 1) + i - 1 = a + i
      OBVIOUS
    <3> QED
      BY <2>3, <3>1
  <2> QED
    BY <2>4
<1> HIDE DEF h
<1>3. h[1] = s[a + 1] /\ h[2] = s[a + 2] /\ h[3] = s[a + 3] /\ h[4] = s[a + 4]
  BY <1>2
<1> QED
  BY <1>3 DEF h, LengthOf, SeqOf, HeaderLen

(* The header of fragment j of a packet, and a packet of k full fragments  *)
(* and one of l bytes.                                                     *)
HeaderOf(r, j) ==
  SubSeq(r, j * (HeaderLen + MaxPayloadLen) + 1, j * (HeaderLen + MaxPayloadLen) + HeaderLen)
Joined(p, r, k, l) ==
  /\ Len(p) = k * MaxPayloadLen + l
  /\ Len(r) = k * (HeaderLen + MaxPayloadLen) + HeaderLen + l
  /\ \A j \in 0 .. k : LengthOf(HeaderOf(r, j)) = IF j < k THEN MaxPayloadLen ELSE l
  /\ \A i \in 1 .. Len(p) : p[i] = r[i + ((i - 1) \div MaxPayloadLen + 1) * HeaderLen]

(* The fragment that was read is appended to k full ones (ReadPacket).     *)
LEMMA OneMore ==
  ASSUME NEW k \in Nat, FullFragments(k), rawBuf \in Seq(Byte), payloadBuf \in Seq(Byte),
         raw \in Seq(Byte), LengthOf(raw) \in 0 .. MaxPayloadLen,
         Len(raw) = HeaderLen + LengthOf(raw)
  PROVE  /\ Joined(payloadBuf \o BodyOf(raw), rawBuf \o raw, k, LengthOf(raw))
         /\ SeqOf(HeaderOf(rawBuf \o raw, k)) = SeqOf(raw)
<1> DEFINE l == LengthOf(raw)
           r == rawBuf \o raw
           p == payloadBuf \o BodyOf(raw)
<1> DEFINE M == MaxPayloadLen
           F == HeaderLen + MaxPayloadLen
           Start(j) == j * F
           Header(s, j) == SubSeq(s, Start(j) + 1, Start(j) + HeaderLen)
           Place(i) == i + ((i - 1) \div M + 1) * HeaderLen
           body == BodyOf(raw)
<1>0. /\ M \in Nat /\ M > 0 /\ HeaderLen = 4 /\ F = 4 + M /\ F \in Nat /\ l \in Nat /\ l <= M
  BY MaxPositive
<1>1. /\ Len(payloadBuf) = k * M /\ Len(rawBuf) = Start(k)
      /\ \A j \in 0 .. k - 1 : LengthOf(Header(rawBuf, j)) = M
      /\ \A i \in 1 .. Len(payloadBuf) : payloadBuf[i] = rawBuf[Place(i)]
  BY DEF FullFragments
<1>l. Len(raw) = 4 + l
  BY <1>0
<1> HIDE DEF l
<1>2. body \in Seq(Byte) /\ Len(body) = l /\ \A i \in 1 .. l : body[i] = raw[i + 4]
  <2>1. Len(raw) = 4 + l
    BY <1>l
  <2>2. \A i \in 5 .. Len(raw) : raw[i] \in Byte
    BY <1>0, <2>1, ElementOfSeq
  <2>3. 5 \in Int /\ Len(raw) \in Int
    BY <1>0, <2>1
  <2>4. /\ SubSeq(raw, 5, Len(raw)) \in Seq(Byte)
        /\ Len(SubSeq(raw, 5, Len(raw))) = IF 5 <= Len(raw) THEN Len(raw) - 5 + 1 ELSE 0
        /\ \A i \in 1 .. Len(raw) - 5 + 1 : SubSeq(raw, 5, Len(raw))[i] = raw[5 + i - 1]
    BY <2>2, <2>3, SubSeqProperties
  <2>5. body = SubSeq(raw, 5, Len(raw))
    BY <1>0 DEF BodyOf
  <2> HIDE DEF body
  <2>6. Len(body) = l
    BY <1>0, <2>1, <2>4, <2>5
  <2>7. ASSUME NEW i \in 1 .. l PROVE body[i] = raw[i + 4]
    <3>1. i \in 1 .. Len(raw) - 5 + 1 /\ 5 + i - 1 = i + 4
      BY <1>0, <2>1
    <3> QED
      BY <2>4, <2>5, <3>1
  <2> QED
    BY <2>4, <2>5, <2>6, <2>7
<1> DEFINE m == k * M
           f == Start(k)
<1>3. m \in Nat /\ f \in Nat /\ f = m + k * 4
  <2> HIDE DEF M, F
  <2>1. k * (4 + M) = k * 4 + k * M
    BY <1>0, Distributes
  <2>2. k * F = k * 4 + k * M
    BY <1>0, <2>1
  <2>3. k * M \in Nat /\ k * F \in Nat
    BY <1>0, Distributes
  <2> HIDE DEF m
  <2>4. f = k * 4 + m /\ m \in Nat /\ f \in Nat
    BY <2>2, <2>3 DEF m
  <2> HIDE DEF f
  <2> QED
    BY <2>4
<1>a. Len(payloadBuf) = m /\ Len(rawBuf) = f
  BY <1>1
<1> HIDE DEF M, F, Start, Header, Place, body, m, f, r, p
<1>4. /\ p \in Seq(Byte) /\ Len(p) = m + l
      /\ \A i \in 1 .. m + l : p[i] = IF i <= m THEN payloadBuf[i] ELSE body[i - m]
  <2>1. p = payloadBuf \o body
    BY DEF body, p
  <2> QED
    BY <1>2, <1>a, <2>1, ConcatProperties
<1>5. /\ r \in Seq(Byte) /\ Len(r) = f + (4 + l)
      /\ \A i \in 1 .. f + (4 + l) : r[i] = IF i <= f THEN rawBuf[i] ELSE raw[i - f]
  <2>1. Len(raw) = 4 + l
    BY <1>l
  <2>2. /\ rawBuf \o raw \in Seq(Byte) /\ Len(rawBuf \o raw) = Len(rawBuf) + Len(raw)
        /\ \A i \in 1 .. Len(rawBuf) + Len(raw) :
             (rawBuf \o raw)[i] = IF i <= Len(rawBuf) THEN rawBuf[i] ELSE raw[i - Len(rawBuf)]
    BY ConcatProperties
  <2> QED
    BY <1>a, <2>1, <2>2, Zenon DEF r
<1>b. ASSUME NEW a \in 1 .. f PROVE r[a] = rawBuf[a]
  <2>1. a \in 1 .. f + (4 + l) /\ a <= f
    BY <1>0, <1>3
  <2> QED
    BY <1>5, <2>1
<1>c. ASSUME NEW a \in 1 .. 4 + l PROVE r[f + a] = raw[a]
  <2>1. f + a \in 1 .. f + (4 + l) /\ ~(f + a <= f) /\ (f + a) - f = a
    BY <1>0, <1>3
  <2> QED
    BY <1>5, <2>1
<1>6. ASSUME NEW j \in 0 .. k PROVE LengthOf(Header(r, j)) = IF j < k THEN M ELSE l
  <2>1. Start(j) \in Nat
    BY <1>0, Distributes DEF Start
  <2>2. CASE j < k
    <3>1. Start(j) + 4 <= f
      <4>0. j + 1 \in Nat /\ j + 1 <= k
        BY <2>2
      <4>1. F * (j + 1) <= F * k
        BY <1>0, <4>0, Mul
      <4>2. (j + 1) * F = j * F + 1 * F /\ F * (j + 1) = (j + 1) * F /\ F * k = k * F
        BY <1>0, Distributes
      <4>3. 1 * F = F /\ j * F \in Nat /\ k * F \in Nat
        BY <1>0, Distributes
      <4> DEFINE x == j * F
                 y == k * F
      <4>4. x \in Nat /\ y \in Nat /\ x + F <= y
        BY <4>1, <4>2, <4>3
      <4> HIDE DEF x, y
      <4>5. x + 4 <= y
        BY <1>0, <4>4
      <4> QED
        BY <4>5 DEF x, y, f, Start
    <3>2. /\ Start(j) + HeaderLen <= Len(rawBuf) /\ Start(j) + HeaderLen <= Len(r)
      BY <1>0, <1>a, <1>3, <1>5, <2>1, <3>1
    <3>3. /\ r[Start(j) + 1] = rawBuf[Start(j) + 1] /\ r[Start(j) + 2] = rawBuf[Start(j) + 2]
          /\ r[Start(j) + 3] = rawBuf[Start(j) + 3]
      <4>1. Start(j) + 1 \in 1 .. f /\ Start(j) + 2 \in 1 .. f /\ Start(j) + 3 \in 1 .. f
        BY <1>3, <2>1, <3>1
      <4> QED
        BY <1>b, <4>1
    <3>4. LengthOf(Header(r, j)) = LengthOf(Header(rawBuf, j))
      BY <1>5, <2>1, <3>2, <3>3, HeaderAt DEF Header
    <3>5. j \in 0 .. k - 1
      BY <2>2
    <3> QED
      BY <1>1, <2>2, <3>4, <3>5
  <2>3. CASE j = k
    <3>1. f + HeaderLen <= Len(r)
      BY <1>0, <1>3, <1>5
    <3>2. /\ r[f + 1] = raw[1] /\ r[f + 2] = raw[2] /\ r[f + 3] = raw[3]
      <4>1. 1 \in 1 .. 4 + l /\ 2 \in 1 .. 4 + l /\ 3 \in 1 .. 4 + l
        BY <1>0
      <4> QED
        BY <1>c, <4>1
    <3>3. LengthOf(Header(r, k)) = LengthOf(raw)
      BY <1>3, <1>5, <3>1, <3>2, HeaderAt DEF Header, f, LengthOf
    <3> QED
      BY <2>3, <3>3 DEF l
  <2> QED
    BY <2>2, <2>3
<1>7. SeqOf(Header(r, k)) = SeqOf(raw)
  <2>1. f + HeaderLen <= Len(r) /\ 4 \in 1 .. 4 + l
    BY <1>0, <1>3, <1>5
  <2>2. r[f + 4] = raw[4]
    BY <1>c, <2>1
  <2> QED
    BY <1>3, <1>5, <2>1, <2>2, HeaderAt DEF Header, f, SeqOf
<1>8. ASSUME NEW i \in 1 .. Len(p) PROVE p[i] = r[Place(i)]
  <2>0. i \in 1 .. m + l /\ i - 1 \in Nat
    BY <1>4
  <2>1. CASE i <= m
    <3>1. PICK q \in Nat, e \in 0 .. M - 1 : i - 1 = q * M + e /\ (i - 1) \div M = q
      BY <1>0, <2>0, DivSplit
    <3>2. q + 1 <= k
      <4>1. SUFFICES ASSUME k <= q PROVE FALSE
        BY <3>1
      <4>2. M * k <= M * q
        BY <1>0, <4>1, Mul
      <4>3. M * k = k * M /\ M * q = q * M /\ q * M \in Nat
        BY <1>0, Distributes
      <4> DEFINE x == q * M
      <4>4. m <= x /\ x \in Nat /\ i - 1 = x + e
        BY <3>1, <4>2, <4>3 DEF m
      <4> HIDE DEF x
      <4> QED
        BY <1>3, <2>0, <2>1, <3>1, <4>4
    <3>3. Place(i) = i + (q + 1) * 4
      BY <1>0, <3>1 DEF Place
    <3>4. Place(i) \in 1 .. f
      BY <1>3, <2>0, <2>1, <3>2, <3>3
    <3>5. r[Place(i)] = rawBuf[Place(i)]
      BY <1>b, <3>4
    <3>6. p[i] = payloadBuf[i] /\ i \in 1 .. Len(payloadBuf)
      BY <1>a, <1>3, <1>4, <2>0, <2>1
    <3> QED
      BY <1>1, <3>5, <3>6
  <2>2. CASE i > m
    <3>1. (i - 1) \div M = k
      <4> DEFINE e == i - 1 - m
      <4>1. e \in Nat /\ e < M /\ i - 1 = m + e
        BY <1>0, <1>3, <2>0, <2>2
      <4> HIDE DEF e
      <4> QED
        BY <1>0, <4>1, DivUnique DEF m
    <3>2. Place(i) = i + (k + 1) * 4
      BY <1>0, <3>1 DEF Place
    <3>3. /\ Place(i) \in 1 .. f + (4 + l) /\ Place(i) > f
          /\ Place(i) - f = (i - m) + 4 /\ i - m \in 1 .. l
      BY <1>0, <1>3, <2>0, <2>2, <3>2
    <3>4. r[Place(i)] = raw[(i - m) + 4]
      <4>1. (i - m) + 4 \in 1 .. 4 + l /\ Place(i) = f + ((i - m) + 4)
        BY <1>0, <1>3, <2>0, <2>2, <3>2
      <4> QED
        BY <1>c, <4>1
    <3>5. p[i] = body[i - m]
      BY <1>3, <1>4, <2>0, <2>2
    <3> QED
      BY <1>2, <3>3, <3>4, <3>5
  <2>3. i <= m \/ i > m
    BY <1>3, <2>0
  <2> QED
    BY <2>1, <2>2, <2>3
<1>9. Len(r) = k * (HeaderLen + MaxPayloadLen) + HeaderLen + l
  <2>1. Len(r) = f + 4 + l
    BY <1>0, <1>3, <1>5
  <2> QED
    BY <1>0, <2>1 DEF f, Start, F
<1> QED
  <2>1. Joined(p, r, k, l)
    BY <1>4, <1>6, <1>8, <1>9 DEF M, F, Start, Header, Place, m, Joined, HeaderOf
  <2>2. SeqOf(HeaderOf(r, k)) = SeqOf(raw)
    BY <1>7 DEF Start, F, Header, HeaderOf
  <2> QED
    BY <2>1, <2>2 DEF p, r, l

(* A fragment is complete: its length is the announced one (readFragment). *)
LEMMA FragmentLength ==
  ASSUME TypeOK, pc = "body", Want = 0
  PROVE  /\ rawBuf \in Seq(Byte) /\ payloadBuf \in Seq(Byte) /\ raw \in Seq(Byte)
         /\ LengthOf(raw) \in 0 .. MaxPayloadLen /\ Len(raw) = HeaderLen + LengthOf(raw)
<1>1. /\ rawBuf \in Seq(Byte) /\ payloadBuf \in Seq(Byte) /\ raw \in Seq(Byte)
      /\ Len(raw) >= HeaderLen /\ Len(raw) \in Nat
  BY Types
<1>2. LengthOf(raw) \in 0 .. MaxPayloadLen
  BY <1>1, LengthBound
<1>3. HeaderLen + LengthOf(raw) - Len(raw) = 0
  BY DEF Want
<1> QED
  BY <1>1, <1>2, <1>3, MaxPositive

(* The buffers hold full fragments, and what ReadPacket makes of them and  *)
(* a shorter one is the wire form of its payload.                          *)
LEMMA ReassembledStep ==
  ASSUME TypeOK, FragmentsInv, Reassembled, [Next]_vars
  PROVE  FragmentsInv' /\ Reassembled'
<1>1. CASE UNCHANGED <<rawBuf, payloadBuf, packets>>
  <2>1. FragmentsInv'
    BY <1>1 DEF FragmentsInv, FullFragments
  <2> QED
    BY <1>1, <2>1 DEF Reassembled
<1>2. ASSUME rawBuf' = <<>>, payloadBuf' = <<>> PROVE FragmentsInv'
  <2>1. Len(<<>>) = 0 /\ 0 * MaxPayloadLen = 0 /\ 0 * (HeaderLen + MaxPayloadLen) = 0
    BY MaxPositive
  <2>2. FullFragments(0)'
    BY <1>2, <2>1 DEF FullFragments
  <2> QED
    BY <2>2 DEF FragmentsInv
<1>3. CASE ReadPacket
  BY <1>2, <1>3 DEF ReadPacket, Reassembled
<1>4. CASE FragmentDone
  <2>1. /\ pc = "body" /\ Want = 0 /\ LengthOf(raw) = MaxPayloadLen
        /\ rawBuf' = rawBuf \o raw /\ payloadBuf' = payloadBuf \o BodyOf(raw)
        /\ packets' = packets
    BY <1>4 DEF FragmentDone
  <2>2. PICK k \in Nat : FullFragments(k)
    BY DEF FragmentsInv
  <2>3. /\ rawBuf \in Seq(Byte) /\ payloadBuf \in Seq(Byte) /\ raw \in Seq(Byte)
        /\ MaxPayloadLen \in 0 .. MaxPayloadLen /\ Len(raw) = HeaderLen + MaxPayloadLen
    BY <2>1, FragmentLength
  <2>a. Joined(payloadBuf', rawBuf', k, MaxPayloadLen)
    BY <2>1, <2>2, <2>3, OneMore
  <2> DEFINE Header(j) == HeaderOf(rawBuf', j)
  <2>4. /\ Len(payloadBuf') = k * MaxPayloadLen + MaxPayloadLen
        /\ Len(rawBuf') = k * (HeaderLen + MaxPayloadLen) + HeaderLen + MaxPayloadLen
        /\ \A j \in 0 .. k : LengthOf(Header(j)) = IF j < k THEN MaxPayloadLen ELSE MaxPayloadLen
        /\ \A i \in 1 .. Len(payloadBuf') :
             payloadBuf'[i] = rawBuf'[i + ((i - 1) \div MaxPayloadLen + 1) * HeaderLen]
    BY <2>a DEF Joined
  <2>5. /\ Len(payloadBuf') = (k + 1) * MaxPayloadLen
        /\ Len(rawBuf') = (k + 1) * (HeaderLen + MaxPayloadLen)
    <3>1. \A a, b \in Nat : a * b + b = (a + 1) * b
      BY Distributes
    <3>2. HeaderLen + MaxPayloadLen \in Nat /\ MaxPayloadLen \in Nat /\ HeaderLen \in Nat
          /\ k * (HeaderLen + MaxPayloadLen) \in Nat
      BY MaxPositive
    <3>3. k * (HeaderLen + MaxPayloadLen) + (HeaderLen + MaxPayloadLen)
          = (k + 1) * (HeaderLen + MaxPayloadLen)
      BY <3>1, <3>2
    <3>4. \A a, b, c \in Nat : a + b + c = a + (b + c)
      OBVIOUS
    <3>5. Len(rawBuf') = k * (HeaderLen + MaxPayloadLen) + (HeaderLen + MaxPayloadLen)
      BY <2>4, <3>2, <3>4
    <3> QED
      BY <2>4, <3>1, <3>2, <3>3, <3>5
  <2>6. \A j \in 0 .. (k + 1) - 1 : LengthOf(Header(j)) = MaxPayloadLen
    <3> HIDE DEF Header
    <3> QED
      BY <2>4
  <2>7. FullFragments(k + 1)'
    BY <2>4, <2>5, <2>6 DEF FullFragments, HeaderOf
  <2>8. FragmentsInv'
    BY <2>7 DEF FragmentsInv
  <2> QED
    BY <2>1, <2>8 DEF Reassembled
<1>5. CASE PacketDone
  <2> DEFINE p == [seq |-> SeqOf(raw), payload |-> payloadBuf \o BodyOf(raw), raw |-> rawBuf \o raw]
             l == LengthOf(raw)
             n == Len(p.payload) \div MaxPayloadLen
             Header(j) == HeaderOf(p.raw, j)
  <2>1. /\ pc = "body" /\ Want = 0 /\ l # MaxPayloadLen
        /\ packets' = Append(packets, p) /\ rawBuf' = <<>> /\ payloadBuf' = <<>>
    BY <1>5 DEF PacketDone
  <2>2. PICK k \in Nat : FullFragments(k)
    BY DEF FragmentsInv
  <2>3. /\ rawBuf \in Seq(Byte) /\ payloadBuf \in Seq(Byte) /\ raw \in Seq(Byte)
        /\ l \in 0 .. MaxPayloadLen /\ Len(raw) = HeaderLen + l
    BY <2>1, FragmentLength
  <2>4. p.seq = SeqOf(raw) /\ p.payload = payloadBuf \o BodyOf(raw) /\ p.raw = rawBuf \o raw
    OBVIOUS
  <2> HIDE DEF p
  <2>5. /\ Len(p.payload) = k * MaxPayloadLen + l
        /\ Len(p.raw) = k * (HeaderLen + MaxPayloadLen) + HeaderLen + l
        /\ \A j \in 0 .. k : LengthOf(Header(j)) = IF j < k THEN MaxPayloadLen ELSE l
        /\ \A i \in 1 .. Len(p.payload) :
             p.payload[i] = p.raw[i + ((i - 1) \div MaxPayloadLen + 1) * HeaderLen]
        /\ SeqOf(Header(k)) = SeqOf(raw)
    <3>1. /\ Joined(payloadBuf \o BodyOf(raw), rawBuf \o raw, k, l)
          /\ SeqOf(HeaderOf(rawBuf \o raw, k)) = SeqOf(raw)
      BY <2>2, <2>3, OneMore
    <3>2. Joined(p.payload, p.raw, k, l) /\ SeqOf(HeaderOf(p.raw, k)) = SeqOf(raw)
      BY <2>4, <3>1
    <3> QED
      BY <3>2 DEF Joined
  <2>6. n = k /\ Len(p.payload) % MaxPayloadLen = l
    <3>1. l \in Nat /\ l < MaxPayloadLen /\ MaxPayloadLen \in Nat /\ MaxPayloadLen > 0
      BY <2>1, <2>3, MaxPositive
    <3> HIDE DEF l
    <3> QED
      BY <2>5, <3>1, DivUnique
  <2>7. Len(p.raw) = Len(p.payload) + (n + 1) * HeaderLen
    <3>1. MaxPayloadLen \in Nat /\ HeaderLen = 4 /\ l \in Nat
      BY <2>3, MaxPositive
    <3>2. k * (HeaderLen + MaxPayloadLen) = k * HeaderLen + k * MaxPayloadLen
          /\ k * MaxPayloadLen \in Nat
      BY <3>1, Distributes
    <3> HIDE DEF l, n
    <3>3. \A a, b \in Nat : (k * 4 + a) + 4 + b = (a + b) + (k + 1) * 4
      OBVIOUS
    <3> QED
      BY <2>5, <2>6, <3>1, <3>2, <3>3
  <2>8. IsWireForm(p)
    <3> HIDE DEF l, Header
    <3>1. \A j \in 0 .. n :
            LengthOf(Header(j)) = IF j < n THEN MaxPayloadLen ELSE Len(p.payload) % MaxPayloadLen
      BY <2>5, <2>6
    <3>2. p.seq = SeqOf(Header(n))
      BY <2>4, <2>5, <2>6
    <3> QED
      BY <2>5, <2>7, <3>1, <3>2 DEF IsWireForm, Header, HeaderOf
  <2>9. Reassembled'
    <3>1. packets \in Seq(Packet)
      BY Types
    <3>2. /\ DOMAIN packets = 1 .. Len(packets) /\ Len(packets) \in Nat
          /\ DOMAIN packets' = 1 .. Len(packets) + 1
          /\ packets'[Len(packets) + 1] = p
          /\ \A i \in 1 .. Len(packets) : packets'[i] = packets[i]
      BY <2>1, <3>1, AppendProperties, LenProperties
    <3>3. ASSUME NEW i \in DOMAIN packets' PROVE IsWireForm(packets'[i])
      <4>1. i \in DOMAIN packets \/ i = Len(packets) + 1
        BY <3>2
      <4> QED
        BY <2>8, <3>2, <4>1 DEF Reassembled
    <3> QED
      BY <3>3 DEF Reassembled
  <2> QED
    BY <1>2, <2>1, <2>9
<1> QED
  BY <1>1, <1>3, <1>4, <1>5
     DEF Next, vars, ReadPrefix, ReadConn, Fill, ReadEnd, ReadBroken, Fail, HeaderDone, Closed

(* Every packet ReadPacket returns is the reassembly of its own Raw, for   *)
(* every number of fragments.                                              *)
THEOREM PacketsAreReassembled == Spec => []Reassembled
<1>1. Init => FragmentsInv /\ Reassembled
  <2> SUFFICES ASSUME Init PROVE FragmentsInv /\ Reassembled
    OBVIOUS
  <2>1. rawBuf = <<>> /\ payloadBuf = <<>> /\ packets = <<>>
    BY DEF Init
  <2>2. Len(<<>>) = 0 /\ 0 * MaxPayloadLen = 0 /\ 0 * (HeaderLen + MaxPayloadLen) = 0
    BY MaxPositive
  <2>3. FullFragments(0)
    BY <2>1, <2>2 DEF FullFragments
  <2> QED
    BY <2>1, <2>3 DEF FragmentsInv, Reassembled
<1>2. TypeOK /\ FragmentsInv /\ Reassembled /\ [Next]_vars => FragmentsInv' /\ Reassembled'
  BY ReassembledStep
<1> QED
  BY <1>1, <1>2, TypeCorrect, PTL DEF Spec
=============================================================================
