------------------------------ MODULE Framers ------------------------------
(***************************************************************************)
(* The length-prefixed readers: ReadStartupBytes and ReadPacket of         *)
(* PostgreSQL (src/protocol/postgres/packet.go) and ReadPacket of MongoDB  *)
(* (src/protocol/mongodb/packet.go), on a connection that delivers its     *)
(* bytes in pieces of any size, ends anywhere or breaks.  A PostgreSQL     *)
(* connection starts with startup messages (an SSLRequest is followed by   *)
(* another one) and goes on with typed messages.                           *)
(*                                                                         *)
(* A byte has Base values and a length is four bytes.  The twelve bytes of *)
(* a MongoDB header that follow the length are cut to MongoRest.           *)
(***************************************************************************)
EXTENDS Integers, Sequences

CONSTANTS
  Base,        \* number of byte values
  MongoRest,   \* header bytes after MongoDB's length (12)
  MaxMessage,  \* largest PostgreSQL length accepted (256 MiB)
  MaxStartup,  \* largest startup length accepted (10000)
  MaxMongo,    \* largest MongoDB length accepted (48 MiB)
  SSLCode,     \* the four bytes of the SSLRequest code
  Streams      \* pairs of a protocol and what the peer sends before it closes

Byte == 0 .. Base - 1
Word == Base * Base * Base * Base   \* 2^32

ASSUME FramersAssumption ==
  /\ Base \in Nat /\ Base > 1 /\ Base % 2 = 0
  /\ MongoRest \in Nat
  /\ {MaxMessage, MaxMongo} \subseteq 4 .. (Word \div 2 - 1)
  /\ MaxMongo >= 4 + MongoRest
  /\ MaxStartup \in 4 .. Word - 1
  /\ SSLCode \in [1 .. 4 -> Byte]
  /\ Streams \subseteq {"postgres", "mongodb"} \X Seq(Byte)

VARIABLES
  proto,      \* the protocol of the connection
  phase,      \* which reader the next call uses
  stream,     \* everything the peer sends
  taken,      \* how much of it has been read
  pc,         \* idle, or in one of the two ReadFull calls, or failed
  raw,        \* the header, then the message, as far as it is filled
  messages,   \* messages returned so far
  forwarded,  \* the concatenation of their Raw
  err         \* the error returned, if any

vars == <<proto, phase, stream, taken, pc, raw, messages, forwarded, err>>

BigEndian(d) == ((d[1] * Base + d[2]) * Base + d[3]) * Base + d[4]
LittleEndian(d) == ((d[4] * Base + d[3]) * Base + d[2]) * Base + d[1]

(* The conversion of a uint32 to int32.                                    *)
Int32(n) == IF n >= Word \div 2 THEN n - Word ELSE n

(* Per reader: header size, bytes ahead of the length that it leaves out,  *)
(* the length a header announces, and its limits.                          *)
HeaderLen == [startup |-> 4, message |-> 5, mongo |-> 4 + MongoRest]
Uncounted == [startup |-> 0, message |-> 1, mongo |-> 0]
MsgLen(reader, h) ==
  CASE reader = "startup" -> BigEndian(h)
    [] reader = "message" -> Int32(BigEndian(Tail(h)))
    [] reader = "mongo" -> Int32(LittleEndian(h))
MinLen == [startup |-> 4, message |-> 4, mongo |-> 4 + MongoRest]
MaxLen == [startup |-> MaxStartup, message |-> MaxMessage, mongo |-> MaxMongo]

(* Faulty variant: no upper limit.                                         *)
InvalidUnlimited(reader, len) == len < MinLen[reader]

Invalid(reader, len) == len < MinLen[reader] \/ len > MaxLen[reader]

(* Faulty variant: the code is not compared.                               *)
IsSSLRequestByLength(m) == Len(m) = 8

IsSSLRequest(m) == Len(m) = 8 /\ \A i \in 1 .. 4 : m[4 + i] = SSLCode[i]

(* Bytes the current ReadFull still wants.                                 *)
Want ==
  IF pc = "header" THEN HeaderLen[phase] - Len(raw)
  ELSE Uncounted[phase] + MsgLen(phase, raw) - Len(raw)
-----------------------------------------------------------------------------
Init ==
  /\ \E s \in Streams : proto = s[1] /\ stream = s[2]
  /\ phase = IF proto = "postgres" THEN "startup" ELSE "mongo"
  /\ taken = 0
  /\ pc = "idle"
  /\ raw = <<>> /\ messages = <<>> /\ forwarded = <<>>
  /\ err = "nil"

(* The reader of the phase is called.                                      *)
Call ==
  /\ pc = "idle"
  /\ pc' = "header"
  /\ UNCHANGED <<proto, phase, stream, taken, raw, messages, forwarded, err>>

(* One Read of io.ReadFull returns n bytes.                                *)
Read(n) ==
  /\ pc \in {"header", "body"} /\ n \in 1 .. Want
  /\ taken + n <= Len(stream)
  /\ raw' = raw \o SubSeq(stream, taken + 1, taken + n)
  /\ taken' = taken + n
  /\ UNCHANGED <<proto, phase, stream, pc, messages, forwarded, err>>

Fail(e) ==
  /\ pc' = "failed"
  /\ err' = e
  /\ UNCHANGED <<proto, phase, stream, taken, raw, messages, forwarded>>

(* Faulty variant: a body is read even when it is empty.                   *)
ReadEndEmptyBody ==
  /\ pc \in {"header", "body"} /\ (pc = "header" => Want > 0)
  /\ taken = Len(stream)
  /\ Fail(IF raw = <<>> \/ (pc = "body" /\ Len(raw) = HeaderLen[phase])
          THEN "EOF" ELSE "ErrUnexpectedEOF")

(* The stream ends: ErrUnexpectedEOF if this ReadFull got some bytes.      *)
ReadEnd ==
  /\ pc \in {"header", "body"} /\ Want > 0
  /\ taken = Len(stream)
  /\ Fail(IF raw = <<>> \/ (pc = "body" /\ Len(raw) = HeaderLen[phase])
          THEN "EOF" ELSE "ErrUnexpectedEOF")

(* The connection breaks.                                                  *)
ReadBroken ==
  /\ pc \in {"header", "body"} /\ Want > 0
  /\ Fail("broken")

(* The header is complete: the length is refused, or the body is read.     *)
HeaderDone ==
  /\ pc = "header" /\ Want = 0
  /\ \/ Invalid(phase, MsgLen(phase, raw)) /\ Fail("invalid length")
     \/ /\ ~Invalid(phase, MsgLen(phase, raw))
        /\ pc' = "body"
        /\ UNCHANGED <<proto, phase, stream, taken, raw, messages, forwarded, err>>

(* Where the caller goes on: startup messages end with the first that is   *)
(* not an SSLRequest.                                                      *)
NextPhase == IF phase = "startup" /\ ~IsSSLRequest(raw) THEN "message" ELSE phase

(* Faulty variant: the payload is cut off Raw.                             *)
BodyDoneHeaderOnly ==
  /\ pc = "body" /\ Want = 0
  /\ messages' = Append(messages, [reader |-> phase, raw |-> raw])
  /\ forwarded' = forwarded \o SubSeq(raw, 1, HeaderLen[phase])
  /\ raw' = <<>>
  /\ pc' = "idle"
  /\ phase' = NextPhase
  /\ UNCHANGED <<proto, stream, taken, err>>

(* The message is complete and returned.                                   *)
BodyDone ==
  /\ pc = "body" /\ Want = 0
  /\ messages' = Append(messages, [reader |-> phase, raw |-> raw])
  /\ forwarded' = forwarded \o raw
  /\ raw' = <<>>
  /\ pc' = "idle"
  /\ phase' = NextPhase
  /\ UNCHANGED <<proto, stream, taken, err>>

(* After an error the connection is closed.                                *)
Closed == pc = "failed" /\ UNCHANGED vars

Next ==
  \/ Call
  \/ \E n \in 1 .. Word : Read(n)
  \/ ReadEnd
  \/ ReadBroken
  \/ HeaderDone
  \/ BodyDone
  \/ Closed

Spec == Init /\ [][Next]_vars
-----------------------------------------------------------------------------
Readers == {"startup", "message", "mongo"}

(* Type invariant of the readers.                                          *)
TypeOK ==
  /\ proto \in {"postgres", "mongodb"} /\ stream \in Seq(Byte)
  /\ phase \in Readers
  /\ taken \in 0 .. Len(stream)
  /\ pc \in {"idle", "header", "body", "failed"}
  /\ raw \in Seq(Byte) /\ Len(raw) <= Uncounted[phase] + MaxLen[phase]
  /\ messages \in Seq([reader : Readers, raw : Seq(Byte)])
  /\ forwarded \in Seq(Byte)
  /\ err \in {"nil", "EOF", "ErrUnexpectedEOF", "broken", "invalid length"}

(* The Raw bytes returned and the message in progress are exactly the      *)
(* bytes consumed, in order: no reader takes a byte of the next message or *)
(* drops one (ReadStartupBytes and both ReadPackets).                      *)
Verbatim == forwarded \o raw = SubSeq(stream, 1, taken)

SSLRequested(m) ==
  m.reader = "startup" /\ BigEndian(m.raw) = 8 /\ SubSeq(m.raw, 5, 8) = SSLCode

(* Every message has the length its own header announces, at least its     *)
(* header and at most the limit; a startup message is read exactly at the  *)
(* start of a PostgreSQL connection and after an SSLRequest, a typed one   *)
(* everywhere else (ReadStartupBytes, IsSSLRequest, both ReadPackets).     *)
WellFramed ==
  \A k \in DOMAIN messages :
    LET m == messages[k]
    IN  /\ Len(m.raw) = Uncounted[m.reader] + MsgLen(m.reader, m.raw)
        /\ Len(m.raw) \in HeaderLen[m.reader] .. Uncounted[m.reader] + MaxLen[m.reader]
        /\ proto = "postgres" =>
             (m.reader = "startup" <=> k = 1 \/ SSLRequested(messages[k - 1]))

(* When a reader gives up, nothing it should have returned is lost: at the *)
(* end of the stream, EOF or not, what follows the messages returned is    *)
(* less than one more message, so that a last message without a body, such *)
(* as Terminate, was returned; and a length is refused only when it is     *)
(* outside the limits (payloadLen > 0, msgLen > 4, msgLen > 16).           *)
Rest == SubSeq(stream, Len(forwarded) + 1, Len(stream))
AllReturned ==
  /\ err \in {"EOF", "ErrUnexpectedEOF"} =>
       \/ Len(Rest) < HeaderLen[phase]
       \/ Len(Rest) < Uncounted[phase] + MsgLen(phase, Rest)
  /\ err = "invalid length" =>
       Len(Rest) >= HeaderLen[phase] /\ Invalid(phase, MsgLen(phase, Rest))
-----------------------------------------------------------------------------
(* What makes the four inductive: how much of a message is read in each    *)
(* state of a call, with an accepted length once the body is read ...      *)
BufferInv ==
  /\ pc = "idle" => raw = <<>>
  /\ pc = "header" => Len(raw) <= HeaderLen[phase]
  /\ pc = "body" => /\ Len(raw) >= HeaderLen[phase]
                    /\ ~Invalid(phase, MsgLen(phase, raw))
                    /\ Len(raw) <= Uncounted[phase] + MsgLen(phase, raw)
  /\ err # "nil" => pc = "failed"

(* ... and which reader is next, from the last message.                    *)
PhaseInv ==
  IF proto = "mongodb" THEN phase = "mongo"
  ELSE /\ phase \in {"startup", "message"}
       /\ phase = "startup" <=> (messages = <<>> \/ SSLRequested(messages[Len(messages)]))

IInv == TypeOK /\ Verbatim /\ WellFramed /\ AllReturned /\ BufferInv /\ PhaseInv
=============================================================================
