---------------------------- MODULE PacketReader ----------------------------
(***************************************************************************)
(* The MySQL packet reader (src/protocol/mysql/packet.go) on top of a      *)
(* connection that replays a prefix (src/tlsutil/tlsutil.go).  One action  *)
(* per call of Read made by io.ReadFull, which the connection may answer   *)
(* with any number of bytes, with the end of the stream or with an error.  *)
(*                                                                         *)
(* A byte has Base values instead of 256.  A header is four bytes: three   *)
(* digits of the payload length, least significant first, and the sequence *)
(* number.                                                                 *)
(***************************************************************************)
EXTENDS Naturals, Sequences

CONSTANTS
  Base,      \* number of byte values
  Prefixes,  \* byte strings PrefixedConn may replay
  Streams    \* byte strings the peer may send before it closes

Byte == 0 .. Base - 1

ASSUME ReaderAssumption ==
  /\ Base \in Nat /\ Base > 1
  /\ Prefixes \subseteq Seq(Byte)
  /\ Streams \subseteq Seq(Byte)

HeaderLen == 4
MaxPayloadLen == Base * Base * Base - 1

VARIABLES
  prefix,     \* PrefixedConn.Prefix
  offset,     \* PrefixedConn.offset
  stream,     \* everything the peer sends on the underlying connection
  taken,      \* how much of it has been read
  pc,         \* idle, or in one of the two ReadFull calls, or failed
  hdr,        \* pr.hdr, as far as it is filled
  raw,        \* raw of the current fragment, as far as it is filled
  rawBuf,     \* rawBuf: earlier fragments of the logical packet
  payloadBuf, \* payloadBuf
  packets,    \* packets returned so far
  forwarded,  \* the concatenation of their Raw: what a proxy sends on
  err         \* the error returned, if any

connVars == <<prefix, stream>>
vars == <<prefix, offset, stream, taken, pc, hdr, raw, rawBuf, payloadBuf, packets,
          forwarded, err>>

NoErr == [kind |-> "nil", wrapped |-> FALSE]

(* The payload length a full header announces.                             *)
LengthOf(h) == h[1] + Base * h[2] + Base * Base * h[3]
SeqOf(h) == h[4]
BodyOf(fragment) == SubSeq(fragment, HeaderLen + 1, Len(fragment))

(* Bytes the current ReadFull still wants.                                 *)
Want ==
  IF pc = "header" THEN HeaderLen - Len(hdr)
  ELSE HeaderLen + LengthOf(raw) - Len(raw)
-----------------------------------------------------------------------------
Init ==
  /\ prefix \in Prefixes
  /\ stream \in Streams
  /\ offset = 0 /\ taken = 0
  /\ pc = "idle"
  /\ hdr = <<>> /\ raw = <<>> /\ rawBuf = <<>> /\ payloadBuf = <<>>
  /\ packets = <<>> /\ forwarded = <<>>
  /\ err = NoErr

(* ReadPacket is called; nothing is buffered from the call before.         *)
ReadPacket ==
  /\ pc = "idle"
  /\ pc' = "header"
  /\ hdr' = <<>> /\ raw' = <<>> /\ rawBuf' = <<>> /\ payloadBuf' = <<>>
  /\ UNCHANGED <<connVars, offset, taken, packets, forwarded, err>>

(* The bytes a Read returned go to the header or to the body.              *)
Fill(chunk) ==
  /\ \/ pc = "header" /\ hdr' = hdr \o chunk /\ raw' = raw
     \/ pc = "body" /\ raw' = raw \o chunk /\ hdr' = hdr
  /\ UNCHANGED <<connVars, pc, rawBuf, payloadBuf, packets, forwarded, err>>

(* Faulty variant: the offset is not advanced, the prefix comes again.     *)
ReadPrefixAgain ==
  LET left == Len(prefix) - offset
      n == IF Want < left THEN Want ELSE left
  IN  /\ pc \in {"header", "body"} /\ Want > 0
      /\ offset < Len(prefix)
      /\ Fill(SubSeq(prefix, offset + 1, offset + n))
      /\ UNCHANGED <<offset, taken>>

(* PrefixedConn.Read while it replays the prefix.                          *)
ReadPrefix ==
  LET left == Len(prefix) - offset
      n == IF Want < left THEN Want ELSE left
  IN  /\ pc \in {"header", "body"} /\ Want > 0
      /\ offset < Len(prefix)
      /\ Fill(SubSeq(prefix, offset + 1, offset + n))
      /\ offset' = offset + n
      /\ taken' = taken

(* Faulty variant: a read takes more than the packet needs.                *)
ReadConnGreedy(n) ==
  /\ pc \in {"header", "body"} /\ n \in 1 .. Want + 1
  /\ offset >= Len(prefix)
  /\ taken + n <= Len(stream)
  /\ Fill(SubSeq(stream, taken + 1, taken + n))
  /\ taken' = taken + n
  /\ offset' = offset

(* PrefixedConn.Read after that: the connection returns some bytes.        *)
ReadConn(n) ==
  /\ pc \in {"header", "body"} /\ n \in 1 .. Want
  /\ offset >= Len(prefix)
  /\ taken + n <= Len(stream)
  /\ Fill(SubSeq(stream, taken + 1, taken + n))
  /\ taken' = taken + n
  /\ offset' = offset

(* A ReadFull fails.  ReadFull turns the end of the stream after some      *)
(* bytes into ErrUnexpectedEOF, and after none leaves it EOF.  The error   *)
(* is wrapped in the body and in a continuation.                           *)
Fail(kind) ==
  /\ pc' = "failed"
  /\ err' = [kind |-> kind, wrapped |-> pc = "body" \/ rawBuf # <<>>]
  /\ UNCHANGED <<connVars, offset, taken, hdr, raw, rawBuf, payloadBuf, packets, forwarded>>

GotSome == IF pc = "header" THEN hdr # <<>> ELSE Len(raw) > HeaderLen

(* Faulty variant: the end of the stream is always reported as EOF.        *)
ReadEndPlain ==
  /\ pc \in {"header", "body"} /\ Want > 0
  /\ offset >= Len(prefix) /\ taken = Len(stream)
  /\ pc' = "failed"
  /\ err' = [kind |-> "EOF", wrapped |-> FALSE]
  /\ UNCHANGED <<connVars, offset, taken, hdr, raw, rawBuf, payloadBuf, packets, forwarded>>

ReadEnd ==
  /\ pc \in {"header", "body"} /\ Want > 0
  /\ offset >= Len(prefix) /\ taken = Len(stream)
  /\ Fail(IF GotSome THEN "ErrUnexpectedEOF" ELSE "EOF")

(* The connection breaks.                                                  *)
ReadBroken ==
  /\ pc \in {"header", "body"} /\ Want > 0
  /\ offset >= Len(prefix)
  /\ Fail("broken")

(* The header is complete: raw starts with a copy of it.                   *)
HeaderDone ==
  /\ pc = "header" /\ Want = 0
  /\ raw' = hdr
  /\ pc' = "body"
  /\ UNCHANGED <<connVars, offset, taken, hdr, rawBuf, payloadBuf, packets, forwarded, err>>

(* Faulty variant: the whole fragment is taken for its payload.            *)
FragmentDoneWithHeader ==
  /\ pc = "body" /\ Want = 0
  /\ LengthOf(raw) = MaxPayloadLen
  /\ rawBuf' = rawBuf \o raw
  /\ payloadBuf' = payloadBuf \o raw
  /\ raw' = <<>> /\ hdr' = <<>>
  /\ pc' = "header"
  /\ UNCHANGED <<connVars, offset, taken, packets, forwarded, err>>

(* The fragment is complete and the logical packet goes on.                *)
FragmentDone ==
  /\ pc = "body" /\ Want = 0
  /\ LengthOf(raw) = MaxPayloadLen
  /\ rawBuf' = rawBuf \o raw
  /\ payloadBuf' = payloadBuf \o BodyOf(raw)
  /\ raw' = <<>> /\ hdr' = <<>>
  /\ pc' = "header"
  /\ UNCHANGED <<connVars, offset, taken, packets, forwarded, err>>

(* The last fragment is complete: ReadPacket returns.                      *)
PacketDone ==
  /\ pc = "body" /\ Want = 0
  /\ LengthOf(raw) # MaxPayloadLen
  /\ packets' = Append(packets, [seq |-> SeqOf(raw), payload |-> payloadBuf \o BodyOf(raw),
                                 raw |-> rawBuf \o raw])
  /\ forwarded' = forwarded \o (rawBuf \o raw)
  /\ pc' = "idle"
  /\ hdr' = <<>> /\ raw' = <<>> /\ rawBuf' = <<>> /\ payloadBuf' = <<>>
  /\ UNCHANGED <<connVars, offset, taken, err>>

(* The caller gives up after an error; the connection is closed.           *)
Closed == pc = "failed" /\ UNCHANGED vars

Next ==
  \/ ReadPacket
  \/ ReadPrefix
  \/ \E n \in 1 .. MaxPayloadLen + HeaderLen : ReadConn(n)
  \/ ReadEnd
  \/ ReadBroken
  \/ HeaderDone
  \/ FragmentDone
  \/ PacketDone
  \/ Closed

Spec == Init /\ [][Next]_vars
-----------------------------------------------------------------------------
Packet == [seq : Byte, payload : Seq(Byte), raw : Seq(Byte)]

(* What the whole stream holds and how much of it has been consumed.       *)
Wire == prefix \o stream
Consumed == offset + taken

(* The bytes of the packet being read.                                     *)
Pending == rawBuf \o (IF pc = "header" \/ raw = <<>> THEN hdr ELSE raw)

(* Type invariant of the reader and the connection.                        *)
TypeOK ==
  /\ prefix \in Seq(Byte) /\ stream \in Seq(Byte)
  /\ offset \in 0 .. Len(prefix)
  /\ taken \in 0 .. Len(stream)
  /\ pc \in {"idle", "header", "body", "failed"}
  /\ hdr \in Seq(Byte) /\ Len(hdr) <= HeaderLen
  /\ raw \in Seq(Byte) /\ Len(raw) <= HeaderLen + MaxPayloadLen
  /\ pc = "body" => Len(raw) >= HeaderLen
  /\ rawBuf \in Seq(Byte) /\ payloadBuf \in Seq(Byte)
  /\ packets \in Seq(Packet)
  /\ forwarded \in Seq(Byte)
  /\ err \in [kind : {"nil", "EOF", "ErrUnexpectedEOF", "broken"}, wrapped : BOOLEAN]

(* The Raw bytes returned so far and the packet in progress are exactly    *)
(* the bytes consumed from the connection, prefix included, in order:      *)
(* forwarding Raw never alters the stream, and between two calls nothing   *)
(* is buffered, so that a caller may go on with a plain copy (ReadPacket,  *)
(* PrefixedConn.Read).                                                     *)
Verbatim == forwarded \o Pending = SubSeq(Wire, 1, Consumed)

(* The strengthening that makes Verbatim inductive: the underlying         *)
(* connection is read only after the whole prefix, the buffers are empty   *)
(* between two calls, and raw begins with its header.                      *)
StreamInv ==
  /\ {prefix, stream, hdr, raw, rawBuf, forwarded} \subseteq Seq(Byte)
  /\ offset \in 0 .. Len(prefix)
  /\ taken \in 0 .. Len(stream)
  /\ taken > 0 => offset = Len(prefix)
  /\ pc \in {"idle", "header", "body", "failed"}
  /\ pc = "idle" => hdr = <<>> /\ raw = <<>> /\ rawBuf = <<>>
  /\ pc = "header" => raw = <<>>
  /\ pc = "body" => Len(raw) >= HeaderLen

IInv == StreamInv /\ Verbatim

(* TypeOK is inductive together with this: a body never gets longer than   *)
(* its header announces.                                                   *)
BodyInv == pc = "body" => Len(raw) <= HeaderLen + LengthOf(raw)

(* Raw is the wire form of Payload: all fragments but the last are full,   *)
(* the last one is shorter and possibly empty, each body is announced by   *)
(* its header, and Seq is that of the last header (ReadPacket).            *)
IsWireForm(p) ==
  LET n == Len(p.payload) \div MaxPayloadLen
      Start(k) == k * (HeaderLen + MaxPayloadLen)
      Header(k) == SubSeq(p.raw, Start(k) + 1, Start(k) + HeaderLen)
  IN  /\ Len(p.raw) = Len(p.payload) + (n + 1) * HeaderLen
      /\ \A k \in 0 .. n :
           LengthOf(Header(k)) = IF k < n THEN MaxPayloadLen ELSE Len(p.payload) % MaxPayloadLen
      /\ \A i \in 1 .. Len(p.payload) :
           p.payload[i] = p.raw[i + ((i - 1) \div MaxPayloadLen + 1) * HeaderLen]
      /\ p.seq = SeqOf(Header(n))

(* Every packet ReadPacket returns is the reassembly of its own Raw.       *)
Reassembled == \A k \in DOMAIN packets : IsWireForm(packets[k])

(* The strengthening that makes Reassembled inductive: between two         *)
(* fragments the buffers hold k full fragments and their payloads.         *)
FullFragments(k) ==
  LET Start(j) == j * (HeaderLen + MaxPayloadLen)
  IN  /\ Len(payloadBuf) = k * MaxPayloadLen
      /\ Len(rawBuf) = k * (HeaderLen + MaxPayloadLen)
      /\ \A j \in 0 .. k - 1 :
           LengthOf(SubSeq(rawBuf, Start(j) + 1, Start(j) + HeaderLen)) = MaxPayloadLen
      /\ \A i \in 1 .. Len(payloadBuf) :
           payloadBuf[i] = rawBuf[i + ((i - 1) \div MaxPayloadLen + 1) * HeaderLen]

FragmentsInv == \E k \in Nat : FullFragments(k)

(* The bare io.EOF that callers take for a closed connection is returned   *)
(* exactly when the stream ends between two logical packets (ReadPacket).  *)
CleanEnd ==
  pc = "failed" /\ err.kind # "broken" =>
    (err = [kind |-> "EOF", wrapped |-> FALSE] <=> Pending = <<>>)

(* "A truncated packet surfaces as io.ErrUnexpectedEOF": a stream that     *)
(* ends inside a logical packet is never reported as EOF (ReadPacket).     *)
TruncationIsUnexpected ==
  pc = "failed" /\ err.kind # "broken" /\ Pending # <<>> => err.kind = "ErrUnexpectedEOF"
=============================================================================
