---------------------------- MODULE MySQLCommand ----------------------------
(***************************************************************************)
(* The MySQL parsers of src/protocol/mysql: the client's handshake         *)
(* response (handshake.go, capabilities.go), COM_QUERY (command.go), and   *)
(* the error packet a refused query is answered with (error.go).  A byte   *)
(* has Base values, so that an int has Base^8 and wraps; the first byte of *)
(* a length-encoded integer is counted from Base.  Indices start at 1.     *)
(***************************************************************************)
EXTENDS Bytes

CONSTANTS
  Bit,      \* place of each capability flag in the bitmap, by name
  Panic     \* a slice expression out of range

ASSUME CommandAssumption ==
  /\ Nothing # Panic
  /\ \A x \in {Nothing, Panic} :
       /\ x \notin Int /\ x \notin [value : Nat, n : Nat]
       /\ x \notin [caps : Nat, user : Seq(Byte), database : Seq(Byte)]

ComQuery == 3

(* Capabilities.Has, for a flag of one bit.                                *)
Has(caps, flag) == (caps \div 2 ^ Bit[flag]) % 2 = 1

ClientCapabilitiesFromHandshakeResponse(p) ==
  IF Len(p) < 4 THEN Nothing ELSE Little(p, 1, 4, Base)

(* A prefix and a number of the given size.                                *)
LenEnc(p, bytes) ==
  IF Len(p) < bytes + 1 THEN Nothing ELSE [value |-> Little(p, 2, bytes, Base), n |-> bytes + 1]

(* readLenEncInt.                                                          *)
ReadLenEncInt(p) ==
  IF p = <<>> THEN Nothing
  ELSE CASE p[1] < Base - 5 -> [value |-> p[1], n |-> 1]
         [] p[1] = Base - 4 -> LenEnc(p, 2)
         [] p[1] = Base - 3 -> LenEnc(p, 3)
         [] p[1] = Base - 2 -> LenEnc(p, 8)
         [] OTHER -> Nothing

(* The bytes from off on: p[off:].                                         *)
From(p, off) == SubSeq(p, off, Len(p))

(* Faulty variant: the parameters are taken for the query.                 *)
SkipAttributesAlways(p) ==
  LET count == ReadLenEncInt(p)
      sets == ReadLenEncInt(From(p, count.n + 1))
  IN  IF count = Nothing THEN Nothing
      ELSE IF sets = Nothing THEN Nothing ELSE From(p, count.n + sets.n + 1)

(* The text after a block of no parameters.                                *)
SkipAttributes(p) ==
  LET count == ReadLenEncInt(p)
      sets == ReadLenEncInt(From(p, count.n + 1))
  IN  IF count = Nothing THEN Nothing
      ELSE IF sets = Nothing \/ count.value > 0 THEN Nothing ELSE From(p, count.n + sets.n + 1)

ExtractQuery(p, queryAttrs) ==
  IF p = <<>> THEN Nothing
  ELSE CASE p[1] # ComQuery -> Nothing
         [] queryAttrs -> SkipAttributes(Tail(p))
         [] OTHER -> Tail(p)
-----------------------------------------------------------------------------
(* The integer in two's complement with the bits of u, of n possible ones. *)
Signed(u, n) == ((u + n \div 2) % n) - n \div 2

(* Faulty variant: the length is converted to int32.                       *)
WrapNarrow(u) == Signed(u, Word)

(* Conversion to int and addition of ints.                                 *)
Wrap(u) == Signed(u, Word * Word)

(* Faulty variant: the byte that holds the length is not skipped.          *)
PastSecureShort(p, off) == IF off > Len(p) THEN Nothing ELSE off + p[off]

(* Where the part after the authentication data starts, for each of its    *)
(* three forms.                                                            *)
PastSecure(p, off) == IF off > Len(p) THEN Nothing ELSE off + 1 + p[off]

PastLenEnc(p, off) ==
  LET len == ReadLenEncInt(From(p, off))
  IN  IF len = Nothing THEN Nothing ELSE Wrap(off - 1 + len.n + len.value) + 1

PastAuth(p, off, caps) ==
  IF Has(caps, "lenenc") THEN PastLenEnc(p, off)
  ELSE IF Has(caps, "secure") THEN PastSecure(p, off)
  ELSE IF NulFrom(p, off) > Len(p) THEN Len(p) + 1 ELSE NulFrom(p, off) + 1

(* Faulty variant: the terminator is taken for a part of the name.         *)
UserOfWithNul(p) == SubSeq(p, 33, NulFrom(p, 33))

UserOf(p) == SubSeq(p, 33, NulFrom(p, 33) - 1)

Identity(caps, user, database) == [caps |-> caps, user |-> user, database |-> database]

ParseHandshakeResponse(p) ==
  LET caps == ClientCapabilitiesFromHandshakeResponse(p)
      userEnd == NulFrom(p, 33)
      off == PastAuth(p, userEnd + 1, caps)
  IN  IF Len(p) < 32 THEN Nothing
      ELSE IF Len(p) = 32 THEN Identity(caps, <<>>, <<>>)   \* an SSL request
      ELSE IF userEnd > Len(p) THEN Nothing
      ELSE IF off = Nothing THEN Nothing
      ELSE IF ~Has(caps, "db") \/ off > Len(p) THEN Identity(caps, UserOf(p), <<>>)
      ELSE IF off < 1 THEN Panic
      ELSE Identity(caps, UserOf(p), SubSeq(p, off, NulFrom(p, off) - 1))
-----------------------------------------------------------------------------
(* The header of four bytes and the payload.                               *)
PacketOf(seq, payload) == PutLittle(Len(payload), 3, Base) \o <<seq>> \o payload

(* BuildErrorPacket: marker, code, '#', a state padded or cut to 5 bytes,  *)
(* message.                                                                *)
BuildErrorPacket(seq, code, sqlState, message) ==
  PacketOf(seq, <<Base - 1>> \o PutLittle(code, 2, Base) \o <<1>>
                \o SubSeq(sqlState \o Zeros(5), 1, 5) \o message)
=============================================================================
