-------------------------- MODULE PostgresMessages --------------------------
(***************************************************************************)
(* The PostgreSQL parsers of texts (src/protocol/postgres/query.go) and    *)
(* the two packets a refused query is answered with (packet.go).  A message *)
(* type is a letter.                                                       *)
(***************************************************************************)
EXTENDS Bytes

ASSUME MessagesAssumption ==
  Nothing \notin [text : Seq(Byte), next : Nat] \cup (Seq(Byte) \X Seq(Byte))

(* Faulty variant: a string that is not terminated is accepted.            *)
CStringOpen(p, off) ==
  LET end == NulFrom(p, off) IN [text |-> SubSeq(p, off, end - 1), next |-> end + 1]

(* cstring.                                                                *)
CString(p, off) ==
  LET end == NulFrom(p, off)
  IN  IF end > Len(p) THEN Nothing
      ELSE [text |-> SubSeq(p, off, end - 1), next |-> end + 1]

(* The two strings ParseParse and ParseBind start with.                    *)
TwoStrings(p) ==
  LET first == CString(p, 1)
      second == CString(p, first.next)
  IN  IF first = Nothing THEN Nothing
      ELSE IF second = Nothing THEN Nothing ELSE <<first.text, second.text>>

ParseParse(k) == IF k.type # "P" THEN Nothing ELSE TwoStrings(k.payload)
ParseBind(k) == IF k.type # "B" THEN Nothing ELSE TwoStrings(k.payload)
ParseExecute(k) ==
  LET portal == CString(k.payload, 1)
  IN  IF k.type # "E" \/ portal = Nothing THEN Nothing ELSE portal.text

(* Faulty variant: the terminator of the name is not skipped.              *)
TextStartAtName(p) == NulFrom(p, 1)

(* Where the text of a Parse message starts: after the statement's name.   *)
TextStart(p) == NulFrom(p, 1) + 1

ExtractSQL(k) ==
  LET p == k.payload
      start == TextStart(p)
      end == NulFrom(p, start)
  IN  CASE k.type = "Q" /\ p # <<>> ->
             IF p[Len(p)] = 0 THEN SubSeq(p, 1, Len(p) - 1) ELSE p
        [] k.type = "P" /\ start <= Len(p) /\ end # start -> SubSeq(p, start, end - 1)
        [] OTHER -> Nothing

ReadyForQueryStatus(k) ==
  IF k.type # "Z" \/ k.payload = <<>> THEN Nothing ELSE k.payload[Len(k.payload)]

(* Big-endian numbers; lengths of fields are signed.                       *)
Uint16(p, off) == p[off] * Base + p[off + 1]
Uint32(p, off) == Uint16(p, off) * Base * Base + Uint16(p, off + 2)
Int32(p, off) ==
  LET u == Uint32(p, off) IN IF u >= Word \div 2 THEN u - Word ELSE u
PutUint32(u) ==
  <<(u \div (Base * Base * Base)) % Base, (u \div (Base * Base)) % Base, (u \div Base) % Base, u % Base>>

ErrorLength(message) == 4 + 7 + 7 + 2 + Len(message) + 1

(* BuildErrorResponse: the fields S, C and M, each a code and a string,    *)
(* and a terminator.  Letters and digits of the fixed fields are 1.        *)
BuildErrorResponse(message) ==
  [type |-> "E", length |-> PutUint32(ErrorLength(message)),
   payload |-> <<1, 1, 1, 1, 1, 1, 0>> \o <<1, 1, 1, 1, 1, 1, 0>> \o <<1>> \o message \o <<0, 0>>]

(* ReadyForQueryIdle; the status I is 1.                                   *)
ReadyForQueryIdle == [type |-> "Z", length |-> PutUint32(5), payload |-> <<1>>]
=============================================================================
