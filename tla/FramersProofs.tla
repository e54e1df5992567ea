--------------------------- MODULE FramersProofs ---------------------------
(***************************************************************************)
(* Proofs that the PostgreSQL and MongoDB readers frame every stream right *)
(* and alter none, for every byte size, every limit, every stream and      *)
(* every way the connection cuts it.                                       *)
(***************************************************************************)
EXTENDS Framers, SequenceTheorems, TLAPS

(* The numbers of the tables (the constants of the three readers).         *)
LEMMA Sizes ==
  ASSUME NEW r \in Readers
  PROVE  /\ HeaderLen[r] \in Nat /\ HeaderLen[r] >= 4 /\ (r = "message" => HeaderLen[r] = 5)
         /\ Uncounted[r] \in Nat /\ MinLen[r] \in Nat /\ MaxLen[r] \in Int
         /\ HeaderLen[r] = Uncounted[r] + MinLen[r]
         /\ MinLen[r] <= MaxLen[r]
<1>1. Word \in Int
  <2>1. Base * Base \in Int
    BY FramersAssumption
  <2>2. (Base * Base) * Base \in Int
    BY <2>1, FramersAssumption
  <2> QED
    BY <2>2, FramersAssumption DEF Word
<1>2. Word \div 2 \in Int
  BY <1>1
<1>3. /\ MaxMessage \in Int /\ MaxMessage >= 4
      /\ MaxMongo \in Int /\ MaxMongo >= 4 + MongoRest
      /\ MaxStartup \in Int /\ MaxStartup >= 4 /\ MongoRest \in Nat
  BY <1>1, <1>2, FramersAssumption
<1> QED
  BY <1>3 DEF Readers, HeaderLen, Uncounted, MinLen, MaxLen

(* A number of four bytes is an integer (binary.BigEndian, LittleEndian).  *)
LEMMA NumberType ==
  ASSUME NEW a \in Byte, NEW b \in Byte, NEW c \in Byte, NEW d \in Byte
  PROVE  ((a * Base + b) * Base + c) * Base + d \in Int
<1>0. Base \in Int /\ a \in Int /\ b \in Int /\ c \in Int /\ d \in Int
  BY FramersAssumption DEF Byte
<1>1. a * Base + b \in Int
  BY <1>0
<1>2. (a * Base + b) * Base + c \in Int
  BY <1>0, <1>1
<1> QED
  BY <1>0, <1>2

(* The length a header announces is an integer, and the bytes that follow  *)
(* do not change it (msgLen in the three readers).                         *)
LEMMA LengthOfHeader ==
  ASSUME NEW r \in Readers, NEW h \in Seq(Byte), Len(h) >= HeaderLen[r], NEW t \in Seq(Byte)
  PROVE  MsgLen(r, h) \in Int /\ MsgLen(r, h \o t) = MsgLen(r, h)
<1>1. Len(h) \in Nat /\ Len(h) >= 4 /\ (r = "message" => Len(h) >= 5)
  BY Sizes
<1>2. h \o t \in Seq(Byte) /\ Len(h \o t) >= Len(h)
      /\ \A i \in 1 .. Len(h) : (h \o t)[i] = h[i]
  BY <1>1, ConcatProperties
<1>3. Word \in Int
  <2>1. Base * Base \in Int
    BY FramersAssumption
  <2>2. (Base * Base) * Base \in Int
    BY <2>1, FramersAssumption
  <2> QED
    BY <2>2, FramersAssumption DEF Word
<1>4. h[1] \in Byte /\ h[2] \in Byte /\ h[3] \in Byte /\ h[4] \in Byte
  BY <1>1
<1>5. CASE r = "startup"
  <2>1. BigEndian(h \o t) = BigEndian(h)
    BY <1>1, <1>2 DEF BigEndian
  <2>2. BigEndian(h) \in Int
    BY <1>4, NumberType DEF BigEndian
  <2> QED
    BY <1>5, <2>1, <2>2 DEF MsgLen
<1>6. CASE r = "message"
  <2>1. /\ h # <<>> /\ Tail(h) \in Seq(Byte) /\ Len(Tail(h)) >= 4
        /\ \A i \in 1 .. 4 : Tail(h)[i] = h[i + 1] /\ Tail(h \o t)[i] = (h \o t)[i + 1]
    BY <1>1, <1>2, <1>6
  <2>2. BigEndian(Tail(h \o t)) = BigEndian(Tail(h))
    BY <1>1, <1>2, <1>6, <2>1 DEF BigEndian
  <2>3. BigEndian(Tail(h)) \in Int
    <3>1. Tail(h)[1] \in Byte /\ Tail(h)[2] \in Byte /\ Tail(h)[3] \in Byte /\ Tail(h)[4] \in Byte
      BY <2>1
    <3> QED
      BY <3>1, NumberType DEF BigEndian
  <2> QED
    BY <1>3, <1>6, <2>2, <2>3 DEF MsgLen, Int32
<1>7. CASE r = "mongo"
  <2>1. LittleEndian(h \o t) = LittleEndian(h)
    BY <1>1, <1>2 DEF LittleEndian
  <2>2. LittleEndian(h) \in Int
    BY <1>4, NumberType DEF LittleEndian
  <2> QED
    BY <1>3, <1>7, <2>1, <2>2 DEF MsgLen, Int32
<1> QED
  BY <1>5, <1>6, <1>7 DEF Readers

(* A startup message of the length it announces is an SSLRequest exactly   *)
(* when it announces eight bytes and its last four are the code.           *)
LEMMA SSLRequestIs ==
  ASSUME NEW m \in Seq(Byte), Len(m) = BigEndian(m)
  PROVE  IsSSLRequest(m) <=> SSLRequested([reader |-> "startup", raw |-> m])
<1>1. CASE Len(m) = 8
  <2>1. /\ SubSeq(m, 5, 8) \in Seq(Byte) /\ Len(SubSeq(m, 5, 8)) = 4
        /\ \A i \in 1 .. 4 : SubSeq(m, 5, 8)[i] = m[4 + i]
    <3>1. \A i \in 1 .. Len(m) : m[i] \in Byte
      BY ElementOfSeq
    <3>2. \A i \in 5 .. 8 : m[i] \in Byte
      BY <1>1, <3>1
    <3> QED
      BY <3>2, SubSeqProperties
  <2>2. SSLCode \in Seq(Byte) /\ Len(SSLCode) = 4
    <3>1. SSLCode \in [1 .. 4 -> Byte]
      BY FramersAssumption
    <3>2. \E n \in Nat : SSLCode \in [1 .. n -> Byte]
      BY <3>1
    <3>3. SSLCode \in Seq(Byte)
      BY <3>2, SeqDef
    <3> QED
      BY <3>1, <3>3
  <2>3. SubSeq(m, 5, 8) = SSLCode <=> \A i \in 1 .. 4 : SubSeq(m, 5, 8)[i] = SSLCode[i]
    BY <2>1, <2>2, SeqEqual
  <2> QED
    BY <1>1, <2>1, <2>3 DEF IsSSLRequest, SSLRequested
<1>2. CASE Len(m) # 8
  BY <1>2 DEF IsSSLRequest, SSLRequested
<1> QED
  BY <1>1, <1>2

(* The types of the variables the steps below use, with their lengths      *)
(* (the locals of the three readers).                                      *)
LEMMA Types ==
  ASSUME TypeOK
  PROVE  /\ proto \in {"postgres", "mongodb"} /\ phase \in Readers
         /\ stream \in Seq(Byte) /\ raw \in Seq(Byte) /\ forwarded \in Seq(Byte)
         /\ taken \in Nat /\ taken <= Len(stream) /\ Len(stream) \in Nat /\ Len(raw) \in Nat
<1>1. /\ proto \in {"postgres", "mongodb"} /\ phase \in Readers /\ taken \in 0 .. Len(stream)
      /\ stream \in Seq(Byte) /\ raw \in Seq(Byte) /\ forwarded \in Seq(Byte)
  BY Zenon DEF TypeOK
<1>2. Len(stream) \in Nat /\ Len(raw) \in Nat
  BY <1>1, LenProperties
<1> QED
  BY <1>1, <1>2

(* What follows the messages returned is the message in progress and the   *)
(* bytes not read yet (Raw of the three readers).                          *)
LEMMA RestIs ==
  ASSUME TypeOK, Verbatim
  PROVE  /\ SubSeq(stream, taken + 1, Len(stream)) \in Seq(Byte)
         /\ Rest = raw \o SubSeq(stream, taken + 1, Len(stream))
<1> DEFINE unread == SubSeq(stream, taken + 1, Len(stream))
<1>1. /\ stream \in Seq(Byte) /\ raw \in Seq(Byte) /\ forwarded \in Seq(Byte)
      /\ taken \in Nat /\ taken <= Len(stream) /\ Len(stream) \in Nat
      /\ Len(raw) \in Nat /\ Len(forwarded) \in Nat
  BY Types, LenProperties
<1>2. unread \in Seq(Byte)
  <2>1. \A k \in taken + 1 .. Len(stream) : stream[k] \in Byte
    BY <1>1, ElementOfSeq
  <2> QED
    BY <1>1, <2>1, SubSeqProperties
<1>3. stream = SubSeq(stream, 1, taken) \o unread
  <2>1. 1 \in 1 .. Len(stream) + 1 /\ taken \in 1 - 1 .. Len(stream) /\ Len(stream) \in taken .. Len(stream)
    BY <1>1
  <2>2. SubSeq(stream, 1, taken) \o unread = SubSeq(stream, 1, Len(stream))
    BY <1>1, <2>1, ConcatAdjacentSubSeq
  <2> QED
    BY <1>1, <2>2, SubSeqFull
<1> DEFINE rest == raw \o unread
<1> HIDE DEF unread
<1>4. rest \in Seq(Byte) /\ Len(rest) \in Nat
  BY <1>1, <1>2, ConcatProperties, LenProperties
<1>5. stream = forwarded \o rest
  <2>1. (forwarded \o raw) \o unread = forwarded \o (raw \o unread)
    BY <1>1, <1>2, ConcatAssociative
  <2>2. forwarded \o raw = SubSeq(stream, 1, taken)
    BY DEF Verbatim
  <2> QED
    BY <1>3, <2>1, <2>2 DEF rest
<1> HIDE DEF rest
<1>6. SubSeq(forwarded \o rest, Len(forwarded) + 1, Len(forwarded \o rest)) = rest
  <2>1. Len(forwarded \o rest) = Len(forwarded) + Len(rest)
    BY <1>1, <1>4, ConcatProperties
  <2>2. CASE Len(rest) = 0
    <3>1. rest = <<>>
      BY <1>4, <2>2, EmptySeq
    <3> QED
      BY <1>1, <2>1, <2>2, <3>1, SubSeqEmpty
  <2>3. CASE Len(rest) > 0
    <3>1. /\ Len(forwarded) + 1 \in Len(forwarded) + 1 .. Len(forwarded) + Len(rest)
          /\ Len(forwarded) + Len(rest) \in Len(forwarded) + 1 .. Len(forwarded) + Len(rest)
      BY <1>1, <1>4, <2>3
    <3>2. SubSeq(forwarded \o rest, Len(forwarded) + 1, Len(forwarded) + Len(rest))
            = SubSeq(rest, Len(forwarded) + 1 - Len(forwarded), Len(forwarded) + Len(rest) - Len(forwarded))
      BY <1>1, <1>4, <3>1, SubSeqOfConcat2
    <3>3. Len(forwarded) + 1 - Len(forwarded) = 1 /\ Len(forwarded) + Len(rest) - Len(forwarded) = Len(rest)
      BY <1>1, <1>4
    <3> QED
      BY <1>4, <2>1, <3>2, <3>3, SubSeqFull
  <2> QED
    BY <1>4, <2>2, <2>3
<1>7. Rest = rest
  BY <1>5, <1>6 DEF Rest
<1> QED
  BY <1>2, <1>7 DEF unread, rest

(* The invariant holds before the first call (ReadStartupBytes,            *)
(* ReadPacket).                                                            *)
LEMMA IInvInit == Init => IInv
<1> SUFFICES ASSUME Init PROVE IInv
  OBVIOUS
<1>1. proto \in {"postgres", "mongodb"} /\ stream \in Seq(Byte) /\ phase \in Readers
  BY FramersAssumption DEF Init, Readers
<1>2. TypeOK
  BY <1>1, Sizes DEF Init, TypeOK
<1>3. Verbatim
  <2>1. SubSeq(stream, 1, 0) = <<>>
    BY SubSeqEmpty
  <2> QED
    BY <2>1 DEF Init, Verbatim
<1>4. WellFramed /\ AllReturned /\ BufferInv
  BY DEF Init, WellFramed, AllReturned, BufferInv
<1>5. PhaseInv
  BY <1>1 DEF Init, PhaseInv
<1> QED
  BY <1>2, <1>3, <1>4, <1>5 DEF IInv

(* A Read of io.ReadFull keeps it.                                         *)
LEMMA ReadStep ==
  ASSUME IInv, NEW n \in Nat \ {0}, Read(n)
  PROVE  IInv'
<1> DEFINE chunk == SubSeq(stream, taken + 1, taken + n)
<1>1. /\ stream \in Seq(Byte) /\ phase \in Readers /\ raw \in Seq(Byte) /\ forwarded \in Seq(Byte)
      /\ taken \in Nat /\ taken <= Len(stream) /\ Len(stream) \in Nat /\ Len(raw) \in Nat
  BY Types DEF IInv
<1>2. /\ pc \in {"header", "body"} /\ n <= Want /\ taken + n <= Len(stream)
      /\ raw' = raw \o chunk /\ taken' = taken + n
      /\ UNCHANGED <<proto, phase, stream, pc, messages, forwarded, err>>
  BY DEF Read
<1>3. chunk \in Seq(Byte) /\ Len(chunk) = n
  <2>1. \A i \in 1 .. Len(stream) : stream[i] \in Byte
    BY <1>1, ElementOfSeq
  <2>2. \A i \in taken + 1 .. taken + n : stream[i] \in Byte
    BY <1>1, <1>2, <2>1
  <2>3. taken + 1 \in Int /\ taken + n \in Int /\ taken + 1 <= taken + n
    BY <1>1
  <2> QED
    BY <1>1, <2>2, <2>3, SubSeqProperties
<1>4. SubSeq(stream, 1, taken) \o chunk = SubSeq(stream, 1, taken + n)
  <2>1. 1 \in 1 .. Len(stream) + 1 /\ taken \in 1 - 1 .. Len(stream) /\ taken + n \in taken .. Len(stream)
    BY <1>1, <1>2
  <2> QED
    BY <1>1, <2>1, ConcatAdjacentSubSeq
<1> HIDE DEF chunk
<1>5. raw' \in Seq(Byte) /\ Len(raw') = Len(raw) + n
  BY <1>1, <1>2, <1>3, ConcatProperties
<1>6. pc = "body" => /\ MsgLen(phase, raw) \in Int /\ MsgLen(phase, raw') = MsgLen(phase, raw)
                     /\ Len(raw) >= HeaderLen[phase]
  BY <1>1, <1>2, <1>3, LengthOfHeader DEF IInv, BufferInv
<1>7. /\ HeaderLen[phase] \in Nat /\ Uncounted[phase] \in Nat /\ MaxLen[phase] \in Int
      /\ MinLen[phase] \in Nat
      /\ HeaderLen[phase] = Uncounted[phase] + MinLen[phase] /\ MinLen[phase] <= MaxLen[phase]
  BY <1>1, Sizes
<1>8. /\ pc = "header" => Len(raw') <= HeaderLen[phase]
      /\ pc = "body" => Len(raw') <= Uncounted[phase] + MsgLen(phase, raw)
  BY <1>1, <1>2, <1>5, <1>6, <1>7 DEF Want
<1>9. BufferInv'
  BY <1>1, <1>2, <1>5, <1>6, <1>7, <1>8 DEF IInv, BufferInv
<1>10. Len(raw') <= Uncounted[phase] + MaxLen[phase]
  BY <1>1, <1>2, <1>5, <1>6, <1>7, <1>8 DEF IInv, BufferInv, Invalid
<1>11. TypeOK'
  <2>1. taken' \in 0 .. Len(stream')
    BY <1>1, <1>2
  <2>2. Len(raw') <= Uncounted[phase'] + MaxLen[phase']
    BY <1>2, <1>10
  <2> QED
    BY <1>2, <1>5, <2>1, <2>2, Zenon DEF IInv, TypeOK
<1>12. Verbatim'
  <2>1. (forwarded \o raw) \o chunk = forwarded \o (raw \o chunk)
    BY <1>1, <1>3, ConcatAssociative
  <2> QED
    BY <1>2, <1>4, <2>1 DEF IInv, Verbatim
<1>13. WellFramed' /\ PhaseInv'
  BY <1>2 DEF IInv, WellFramed, PhaseInv
<1>14. AllReturned'
  BY <1>2 DEF IInv, BufferInv, AllReturned
<1> QED
  BY <1>9, <1>11, <1>12, <1>13, <1>14 DEF IInv

(* Two facts on lengths (both ReadPackets).                                *)
LEMMA Arithmetic ==
  /\ \A len \in Nat : len + 1 \in Int /\ len \in Int /\ len < len + 1
  /\ \A a, b, c \in Nat : a >= b => a + c >= b
OBVIOUS

(* So does a return with an error: at the end of the stream less than a    *)
(* message is left, and a refused length is outside the limits.            *)
LEMMA FailStep ==
  ASSUME IInv, NEW e \in {"EOF", "ErrUnexpectedEOF", "broken", "invalid length"}, Fail(e),
         e \in {"EOF", "ErrUnexpectedEOF"} =>
           /\ taken = Len(stream)
           /\ Len(raw) < HeaderLen[phase] \/ Len(raw) < Uncounted[phase] + MsgLen(phase, raw),
         e = "invalid length" => Len(raw) >= HeaderLen[phase] /\ Invalid(phase, MsgLen(phase, raw))
  PROVE  IInv'
<1>1. TypeOK' /\ Verbatim' /\ BufferInv'
  BY DEF Fail, IInv, TypeOK, Verbatim, BufferInv
<1>2. WellFramed' /\ PhaseInv'
  BY DEF Fail, IInv, WellFramed, PhaseInv
<1> DEFINE unread == SubSeq(stream, taken + 1, Len(stream))
<1>3. /\ stream \in Seq(Byte) /\ raw \in Seq(Byte) /\ Len(stream) \in Nat /\ phase \in Readers
      /\ Len(raw) \in Nat
  BY Types DEF IInv
<1>4. unread \in Seq(Byte) /\ Rest = raw \o unread
  BY RestIs DEF IInv
<1>5. ASSUME e \in {"EOF", "ErrUnexpectedEOF"}
      PROVE  Len(Rest) < HeaderLen[phase] \/ Len(Rest) < Uncounted[phase] + MsgLen(phase, Rest)
  <2>1. unread = <<>>
    <3>1. taken = Len(stream)
      BY <1>5
    <3> HIDE DEF unread
    <3>2. taken + 1 \in Int /\ Len(stream) \in Int /\ Len(stream) < taken + 1
      <4>1. Len(stream) \in Nat
        BY <1>3
      <4> QED
        BY <3>1, <4>1, Arithmetic, Zenon
    <3>3. SubSeq(stream, taken + 1, Len(stream)) = <<>>
      BY <3>2, SubSeqEmpty
    <3> QED
      BY <3>3, Zenon DEF unread
  <2>2. Rest = raw
    BY <1>3, <1>4, <2>1, ConcatEmptySeq
  <2> QED
    BY <1>5, <2>2
<1>6. ASSUME e = "invalid length"
      PROVE  Len(Rest) >= HeaderLen[phase] /\ Invalid(phase, MsgLen(phase, Rest))
  <2> HIDE DEF unread
  <2>0. Len(raw) >= HeaderLen[phase] /\ Invalid(phase, MsgLen(phase, raw))
    BY <1>6
  <2>1. MsgLen(phase, Rest) = MsgLen(phase, raw)
    BY <1>3, <1>4, <2>0, LengthOfHeader
  <2>2. Len(Rest) = Len(raw) + Len(unread) /\ Len(unread) \in Nat
    BY <1>3, <1>4, ConcatProperties, LenProperties
  <2>3. HeaderLen[phase] \in Nat
    BY <1>3, Sizes
  <2>4. Len(Rest) >= HeaderLen[phase]
    <3>1. Len(raw) >= HeaderLen[phase] /\ Len(raw) \in Nat
      BY <1>3, <2>0, Zenon
    <3> QED
      BY <2>2, <2>3, <3>1, Arithmetic, Zenon
  <2> QED
    BY <2>0, <2>1, <2>4, Zenon
<1>7. AllReturned'
  <2>1. err' = e /\ UNCHANGED <<phase, stream, forwarded>>
    BY DEF Fail
  <2>2. Rest' = Rest
    BY <2>1 DEF Rest
  <2> QED
    BY <1>5, <1>6, <2>1, <2>2 DEF AllReturned
<1> QED
  BY <1>1, <1>2, <1>7 DEF IInv

(* And the return of a message, with the choice of the next reader.        *)
LEMMA ReturnStep ==
  ASSUME IInv, BodyDone
  PROVE  IInv'
<1> DEFINE m == [reader |-> phase, raw |-> raw]
<1>1. /\ proto \in {"postgres", "mongodb"} /\ phase \in Readers
      /\ raw \in Seq(Byte) /\ Len(raw) \in Nat /\ forwarded \in Seq(Byte)
  BY Types DEF IInv
<1>2. /\ pc = "body" /\ pc' = "idle" /\ messages' = Append(messages, m)
      /\ forwarded' = forwarded \o raw /\ raw' = <<>> /\ phase' = NextPhase
      /\ UNCHANGED <<proto, stream, taken, err>>
  BY DEF BodyDone
<1>3. /\ Len(raw) >= HeaderLen[phase] /\ MsgLen(phase, raw) \in Int
      /\ ~Invalid(phase, MsgLen(phase, raw))
  BY <1>1, <1>2, LengthOfHeader DEF IInv, BufferInv
<1>4. /\ HeaderLen[phase] \in Nat /\ Uncounted[phase] \in Nat /\ MaxLen[phase] \in Int
      /\ MinLen[phase] \in Nat /\ HeaderLen[phase] = Uncounted[phase] + MinLen[phase]
  BY <1>1, Sizes
<1>5. Len(raw) = Uncounted[phase] + MsgLen(phase, raw)
  BY <1>1, <1>2, <1>3, <1>4 DEF BodyDone, Want
<1>6. Len(raw) \in HeaderLen[phase] .. Uncounted[phase] + MaxLen[phase]
  BY <1>1, <1>3, <1>4, <1>5 DEF Invalid
<1>7. phase' \in Readers
  BY <1>1, <1>2 DEF NextPhase, Readers
<1> DEFINE Record == [reader : Readers, raw : Seq(Byte)]
<1>8. /\ m \in Record /\ Len(messages) \in Nat /\ messages \in Seq(Record)
      /\ messages' \in Seq(Record) /\ messages' # <<>>
      /\ Len(messages') = Len(messages) + 1
      /\ \A k \in 1 .. Len(messages) : messages'[k] = messages[k]
      /\ messages'[Len(messages) + 1] = m
  <2>1. messages \in Seq(Record)
    BY Zenon DEF IInv, TypeOK
  <2>2. m \in Record
    BY <1>1
  <2> HIDE DEF m, Record
  <2> QED
    BY <1>2, <2>1, <2>2, AppendProperties, LenProperties
<1> HIDE DEF m
<1>9. TypeOK'
  <2>1. forwarded' \in Seq(Byte)
    BY <1>1, <1>2, ConcatProperties
  <2>2. 0 <= Uncounted[phase'] + MaxLen[phase']
    BY <1>7, Sizes
  <2>3. raw' \in Seq(Byte) /\ Len(raw') <= Uncounted[phase'] + MaxLen[phase']
    BY <1>2, <2>2, EmptySeq
  <2> QED
    BY <1>2, <1>7, <1>8, <2>1, <2>3, Zenon DEF IInv, TypeOK
<1> HIDE DEF Record
<1>10. Verbatim'
  <2>1. (forwarded \o raw) \o <<>> = forwarded \o raw
    BY <1>1, ConcatProperties, ConcatEmptySeq
  <2> QED
    BY <1>2, <2>1 DEF IInv, Verbatim
<1>11. proto = "postgres" =>
         (phase = "startup" <=> Len(messages) = 0 \/ SSLRequested(messages[Len(messages)]))
  BY <1>1 DEF IInv, PhaseInv
<1>12. WellFramed'
  <2> SUFFICES ASSUME NEW k \in DOMAIN messages'
               PROVE  /\ Len(messages'[k].raw) = Uncounted[messages'[k].reader]
                                                 + MsgLen(messages'[k].reader, messages'[k].raw)
                      /\ Len(messages'[k].raw) \in HeaderLen[messages'[k].reader]
                                                   .. Uncounted[messages'[k].reader] + MaxLen[messages'[k].reader]
                      /\ proto = "postgres" =>
                           (messages'[k].reader = "startup" <=> k = 1 \/ SSLRequested(messages'[k - 1]))
    BY <1>2 DEF WellFramed, SSLRequested
  <2>1. CASE k \in 1 .. Len(messages)
    <3>1. messages'[k] = messages[k] /\ (k # 1 => messages'[k - 1] = messages[k - 1])
      BY <1>8, <2>1
    <3> QED
      BY <1>1, <2>1, <3>1 DEF IInv, WellFramed
  <2>2. CASE k = Len(messages) + 1
    <3>1. messages'[k] = m /\ (k # 1 => messages'[k - 1] = messages[Len(messages)])
      BY <1>8, <2>2
    <3>2. m.reader = phase /\ m.raw = raw
      BY DEF m
    <3>3. k = 1 <=> Len(messages) = 0
      BY <1>8, <2>2
    <3> QED
      BY <1>5, <1>6, <1>11, <3>1, <3>2, <3>3
  <2> QED
    BY <1>8, <2>1, <2>2
<1>13. PhaseInv'
  <2>1. CASE proto = "mongodb"
    BY <1>2, <2>1 DEF IInv, PhaseInv, NextPhase
  <2>2. CASE proto = "postgres" /\ phase = "startup"
    <3>1. Len(raw) = BigEndian(raw)
      BY <1>1, <1>3, <1>5, <2>2 DEF Uncounted, MsgLen
    <3>2. IsSSLRequest(raw) <=> SSLRequested(m)
      BY <1>1, <2>2, <3>1, SSLRequestIs DEF m
    <3>3. phase' = "startup" <=> SSLRequested(messages'[Len(messages')])
      BY <1>2, <1>8, <2>2, <3>2 DEF NextPhase
    <3> QED
      BY <1>2, <1>8, <2>2, <3>3 DEF PhaseInv, NextPhase
  <2>3. CASE proto = "postgres" /\ phase = "message"
    <3>1. ~SSLRequested(m)
      BY <2>3 DEF SSLRequested, m
    <3> QED
      BY <1>2, <1>8, <2>3, <3>1 DEF PhaseInv, NextPhase
  <2> QED
    BY <1>1, <2>1, <2>2, <2>3 DEF IInv, PhaseInv
<1>14. AllReturned' /\ BufferInv'
  BY <1>2 DEF IInv, BufferInv, AllReturned
<1> QED
  BY <1>9, <1>10, <1>12, <1>13, <1>14 DEF IInv

(* Every step of a reader and of the connection keeps the invariant.       *)
LEMMA IInvStep == IInv /\ [Next]_vars => IInv'
<1> SUFFICES ASSUME IInv, [Next]_vars PROVE IInv'
  OBVIOUS
<1>0. phase \in Readers /\ raw \in Seq(Byte) /\ Len(raw) \in Nat
  BY Types DEF IInv
<1>1. CASE Call
  <2>1. TypeOK' /\ Verbatim' /\ AllReturned'
    BY <1>1 DEF Call, IInv, TypeOK, Verbatim, AllReturned, Rest
  <2>2. WellFramed' /\ PhaseInv'
    BY <1>1 DEF Call, IInv, WellFramed, PhaseInv
  <2>3. BufferInv'
    <3>1. HeaderLen[phase] \in Nat /\ Len(<<>>) = 0
      BY <1>0, Sizes
    <3> QED
      BY <1>1, <3>1 DEF Call, IInv, BufferInv
  <2> QED
    BY <2>1, <2>2, <2>3 DEF IInv
<1>2. ASSUME NEW n \in 1 .. Word, Read(n) PROVE IInv'
  <2>1. n \in Nat \ {0}
    BY <1>2
  <2> QED
    BY <1>2, <2>1, ReadStep
<1>3. CASE ReadEnd
  <2> DEFINE e == IF raw = <<>> \/ (pc = "body" /\ Len(raw) = HeaderLen[phase])
                  THEN "EOF" ELSE "ErrUnexpectedEOF"
  <2>1. Fail(e)
    BY <1>3 DEF ReadEnd
  <2>2. e \in {"EOF", "ErrUnexpectedEOF"}
    OBVIOUS
  <2>3. taken = Len(stream) /\ pc \in {"header", "body"} /\ Want > 0
    BY <1>3 DEF ReadEnd
  <2>4. Len(raw) < HeaderLen[phase] \/ Len(raw) < Uncounted[phase] + MsgLen(phase, raw)
    <3>1. HeaderLen[phase] \in Nat /\ Uncounted[phase] \in Nat
      BY <1>0, Sizes
    <3>2. CASE pc = "header"
      BY <1>0, <2>3, <3>1, <3>2 DEF Want
    <3>3. CASE pc = "body"
      <4>1. Len(raw) >= HeaderLen[phase]
        BY <3>3 DEF IInv, BufferInv
      <4>2. MsgLen(phase, raw) \in Int
        BY <1>0, <4>1, LengthOfHeader
      <4> QED
        BY <1>0, <2>3, <3>1, <3>3, <4>2 DEF Want
    <3> QED
      BY <2>3, <3>2, <3>3
  <2> HIDE DEF e
  <2>5. e # "invalid length"
    BY <2>2
  <2> QED
    BY <2>1, <2>2, <2>3, <2>4, <2>5, FailStep
<1>4. CASE ReadBroken
  BY <1>4, FailStep DEF ReadBroken
<1>5. CASE HeaderDone
  <2>0. pc = "header" /\ Len(raw) = HeaderLen[phase]
    <3>1. pc = "header" /\ HeaderLen[phase] - Len(raw) = 0
      BY <1>5 DEF HeaderDone, Want
    <3>2. HeaderLen[phase] \in Nat
      BY <1>0, Sizes
    <3> QED
      BY <1>0, <3>1, <3>2
  <2>1. CASE Invalid(phase, MsgLen(phase, raw)) /\ Fail("invalid length")
    <3>1. Len(raw) >= HeaderLen[phase]
      BY <1>0, <2>0
    <3>2. Invalid(phase, MsgLen(phase, raw)) /\ Fail("invalid length")
      BY <2>1, Zenon
    <3> QED
      BY <3>1, <3>2, FailStep
  <2>2. CASE /\ ~Invalid(phase, MsgLen(phase, raw)) /\ pc' = "body"
             /\ UNCHANGED <<proto, phase, stream, taken, raw, messages, forwarded, err>>
    <3>1. Len(raw) = HeaderLen[phase] /\ pc = "header"
      BY <2>0
    <3>2. MsgLen(phase, raw) \in Int
      BY <1>0, <3>1, Sizes, LengthOfHeader
    <3>3. BufferInv'
      BY <1>0, <2>2, <3>1, <3>2, Sizes DEF IInv, BufferInv, Invalid
    <3>4. TypeOK' /\ Verbatim' /\ AllReturned'
      BY <2>2 DEF IInv, TypeOK, Verbatim, AllReturned, Rest
    <3>5. WellFramed' /\ PhaseInv'
      BY <2>2 DEF IInv, WellFramed, PhaseInv
    <3> QED
      BY <3>3, <3>4, <3>5 DEF IInv
  <2> QED
    BY <1>5, <2>1, <2>2 DEF HeaderDone
<1>6. CASE BodyDone
  BY <1>6, ReturnStep
<1>7. CASE UNCHANGED vars
  BY <1>7 DEF vars, IInv, TypeOK, Verbatim, WellFramed, AllReturned, Rest, BufferInv, PhaseInv
<1> QED
  BY <1>1, <1>2, <1>3, <1>4, <1>5, <1>6, <1>7 DEF Next, Closed

(* The readers keep their state well formed, the buffer within the limits  *)
(* of the protocol (ReadStartupBytes and both ReadPackets).                *)
THEOREM TypeCorrect == Spec => []TypeOK
<1>1. IInv => TypeOK
  BY DEF IInv
<1> QED
  BY <1>1, IInvInit, IInvStep, PTL DEF Spec

(* What the readers return is exactly what they consumed, byte for byte.   *)
THEOREM FramersAreVerbatim == Spec => []Verbatim
<1>1. IInv => Verbatim
  BY DEF IInv
<1> QED
  BY <1>1, IInvInit, IInvStep, PTL DEF Spec

(* Every message has the length it announces, within the limits, and       *)
(* startup messages are read exactly at the start and after an SSLRequest  *)
(* (ReadStartupBytes, IsSSLRequest and both ReadPackets).                  *)
THEOREM MessagesAreWellFramed == Spec => []WellFramed
<1>1. IInv => WellFramed
  BY DEF IInv
<1> QED
  BY <1>1, IInvInit, IInvStep, PTL DEF Spec

(* At the end of the stream every whole message of it has been returned,   *)
(* one without a body included, and a length is refused only outside the   *)
(* limits (ReadStartupBytes and both ReadPackets).                         *)
THEOREM NothingIsLost == Spec => []AllReturned
<1>1. IInv => AllReturned
  BY DEF IInv
<1> QED
  BY <1>1, IInvInit, IInvStep, PTL DEF Spec
=============================================================================
