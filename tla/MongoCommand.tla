---------------------------- MODULE MongoCommand ----------------------------
(***************************************************************************)
(* MongoDB commands: the walk over the elements of a BSON document         *)
(* (src/protocol/mongodb/bson.go), the command of an OP_MSG or OP_QUERY    *)
(* message, the text it is matched by, and the answer to a refused one     *)
(* (opmsg.go).  A byte has Base values; names are byte strings, shorter    *)
(* than in the code where only their equality counts.  Indices start at 1. *)
(***************************************************************************)
EXTENDS Bytes

CONSTANT
  Name      \* the byte string of each name the code spells out

U32(p, off) == Little(p, off, 4, Base)
-----------------------------------------------------------------------------
(* Element types by the code's numbers, except MinKey, 0xFF there, and     *)
(* MaxKey, 0x7F.                                                           *)
String == 2
Document == 3
Array == 4
Binary == 5
Regex == 11
MinKey == Base - 1
MaxKey == Base \div 2 - 1

(* Double, ObjectID, bool, datetime, null, int32, timestamp, int64 and     *)
(* decimal take as many bytes as their type says.                          *)
FixedLen ==
  [typ \in {1, 7, 8, 9, 10, 16, 17, 18, 19, MinKey, MaxKey} |->
     CASE typ \in {1, 9, 17, 18} -> 8 [] typ = 7 -> 12 [] typ = 8 -> 1 [] typ = 16 -> 4
       [] typ = 19 -> 16 [] OTHER -> 0]

(* Faulty variant: the subtype of a binary value is not skipped.           *)
PrefixLenNoSubtype ==
  [typ \in {String, Document, Array, Binary} |-> IF typ \in {String, Binary} THEN 4 ELSE 0]

(* What is not counted by the length a value starts with.                  *)
PrefixLen ==
  [typ \in {String, Document, Array, Binary} |->
     CASE typ = String -> 4 [] typ = Binary -> 5 [] OTHER -> 0]

(* skipBSONValue.                                                          *)
SkipBSONValue(data, off, typ) ==
  CASE typ \in DOMAIN FixedLen -> FixedLen[typ]
    [] typ \in DOMAIN PrefixLen ->
         IF off + 3 > Len(data) THEN -1 ELSE PrefixLen[typ] + U32(data, off)
    [] typ = Regex -> NulFrom(data, NulFrom(data, off) + 1) + 1 - off
    [] OTHER -> -1

(* The text of the string value at off, or Nothing.                        *)
StringAt(data, off) ==
  IF off + 3 > Len(data) THEN Nothing
  ELSE LET strLen == U32(data, off)
       IN  IF strLen = 0 \/ off + 3 + strLen > Len(data) THEN Nothing
           ELSE SubSeq(data, off + 4, off + 2 + strLen)

Sized(data) == Len(data) >= 5 /\ U32(data, 1) \in 5 .. Len(data)

(* The element at a place: the end of its key, the text of its string      *)
(* value, where the next one starts, and whether it is the last.           *)
KeyEnd(data, at) == NulFrom(data, at + 1)
TextOf(data, at) == IF data[at] = String THEN StringAt(data, KeyEnd(data, at) + 1) ELSE Nothing
Advance(data, at) == SkipBSONValue(data, KeyEnd(data, at) + 1, data[at])
NextAt(data, at) == KeyEnd(data, at) + 1 + Advance(data, at)
Ends(data, at) ==
  \/ at > Min({U32(data, 1) - 1, Len(data)})
  \/ data[at] = 0 \/ KeyEnd(data, at) > Len(data) \/ Advance(data, at) < 0

(* The fields with that of the element at a place, unless a later one has  *)
(* its key.                                                                *)
WithField(fields, data, at) ==
  LET key == SubSeq(data, at + 1, KeyEnd(data, at) - 1)
  IN  IF TextOf(data, at) = Nothing THEN fields
      ELSE [k \in DOMAIN fields \cup {key} |->
              IF k \in DOMAIN fields THEN fields[k] ELSE TextOf(data, at)]

(* ParseTopLevel: the string fields of a document.  FieldsFrom is the rest *)
(* of the loop at an element.                                              *)
FieldsFrom(data) ==
  LET from[at \in Nat] == IF Ends(data, at) THEN <<>> ELSE WithField(from[NextAt(data, at)], data, at)
  IN  from
ParseTopLevel(data) == IF Sized(data) THEN FieldsFrom(data)[5] ELSE <<>>

(* FirstKeyValue: the first element, whatever its type.                    *)
FirstKeyValue(data) ==
  IF ~Sized(data) THEN <<<<>>, <<>>>>
  ELSE IF data[5] = 0 \/ KeyEnd(data, 5) > Len(data) THEN <<<<>>, <<>>>>
  ELSE <<SubSeq(data, 6, KeyEnd(data, 5) - 1), IF TextOf(data, 5) = Nothing THEN <<>> ELSE TextOf(data, 5)>>

Found(data, op) == IF HasWord(data, op) THEN <<op>> ELSE <<>>
ScanDangerousOps(data) ==
  Found(data, Name["$where"]) \o Found(data, Name["$function"]) \o Found(data, Name["$accumulator"])
HasEmptyFilter(data) == HasWord(data, <<5, 0, 0, 0, 0>>)
-----------------------------------------------------------------------------
Database(fields) == IF Name["$db"] \in DOMAIN fields THEN fields[Name["$db"]] ELSE <<>>

(* buildInfo.                                                              *)
BuildInfo(data) ==
  LET first == FirstKeyValue(data)
  IN  [command |-> first[1], collection |-> first[2], database |-> Database(ParseTopLevel(data)),
       ops |-> ScanDangerousOps(data),
       emptyFilter |-> first[1] \in {Name["delete"], Name["update"]} /\ HasEmptyFilter(data)]

(* parseOpMsg: document sequences are skipped up to the body.              *)
IsBody(p, off) ==
  off + 4 <= Len(p) /\ p[off] = 0 /\ U32(p, off + 1) >= 5 /\ off + U32(p, off + 1) <= Len(p)
IsSequence(p, off) == off + 4 <= Len(p) /\ p[off] = 1 /\ U32(p, off + 1) >= 4
Body(p, off) == BuildInfo(SubSeq(p, off + 1, off + U32(p, off + 1)))
Section(p) ==
  LET at[off \in Nat] == IF IsSequence(p, off) THEN at[off + 1 + U32(p, off + 1)]
                         ELSE IF IsBody(p, off) THEN Body(p, off) ELSE Nothing
  IN  at
ParseOpMsg(p) == IF Len(p) < 5 THEN Nothing ELSE Section(p)[5]

(* parseOpQuery: flags, the collection's name, two numbers, the document.  *)
ParseOpQuery(p) ==
  LET nul == NulFrom(p, 5)
  IN  IF Len(p) < 9 \/ nul + 9 > Len(p) THEN Nothing ELSE BuildInfo(SubSeq(p, nul + 9, Len(p)))

IsClientMessage(pkt) == pkt.responseTo = 0

ExtractCommand(pkt) ==
  IF ~IsClientMessage(pkt) THEN Nothing
  ELSE CASE pkt.opCode = "OpMsg" -> ParseOpMsg(pkt.payload)
         [] pkt.opCode = "OpQuery" -> ParseOpQuery(pkt.payload)
         [] OTHER -> Nothing

(* ToRuleString: the labelled parts of the text, in order.                 *)
ToRuleString(c) ==
  LET Part(label, text) == IF text = <<>> THEN <<>> ELSE <<<<label, text>>>>
  IN  <<<<"CMD", c.command>>>> \o Part("DB", c.database) \o Part("COLL", c.collection)
        \o [k \in DOMAIN c.ops |-> <<"HAS", c.ops[k]>>]
        \o IF c.emptyFilter THEN <<<<"EMPTY_FILTER", <<>>>>>> ELSE <<>>
-----------------------------------------------------------------------------
(* Faulty variant: the terminator of the message is not counted.           *)
ErrorSizeShort(message) == 4 + 12 + (1 + 7 + 4 + Len(message)) + 10 + 1

ErrorSize(message) == 4 + 12 + (1 + 7 + 4 + Len(message) + 1) + 10 + 1

(* buildErrorBSON: the fields ok, errmsg and code, their names spelled out *)
(* because their lengths are added up by hand.                             *)
BuildErrorBSON(message) ==
  PutLittle(ErrorSize(message), 4, Base)
    \o <<1>> \o Name["ok"] \o <<0>> \o Zeros(8)
    \o <<String>> \o Name["errmsg"] \o <<0>> \o PutLittle(Len(message) + 1, 4, Base) \o message \o <<0>>
    \o <<16>> \o Name["code"] \o <<0>> \o PutLittle(2, 4, Base) \o <<0>>

(* BuildBlockResponse: flags and kind are 0.                               *)
BuildBlockResponse(responseTo, message) ==
  LET doc == BuildErrorBSON(message)
  IN  [messageLength |-> 16 + 4 + 1 + Len(doc), requestID |-> 0, responseTo |-> responseTo,
       opCode |-> "OpMsg", payload |-> Zeros(5) \o doc]
=============================================================================
