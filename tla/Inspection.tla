----------------------------- MODULE Inspection -----------------------------
(***************************************************************************)
(* What becomes of one client packet: the parsers of MySQL, PostgreSQL and *)
(* MongoDB give its text, the default rules of the protocol decide it, and *)
(* a blocked one is answered with an error.  A MySQL connection first logs *)
(* in: the capabilities of its handshake response say how its queries are  *)
(* read.  Clients, and the agent that calls the library, are external; a   *)
(* login and a MongoDB message may arrive damaged.                         *)
(***************************************************************************)
EXTENDS SequencesExt, MySQLCommand, PostgresMessages, DefaultRules

CONSTANTS
  MongoBase,        \* number of byte values of MongoDB messages
  Name,             \* see MongoCommand
  Words,            \* the words each SQL pattern looks for, by rule
  Logins,           \* MySQL clients: flags, their bitmap caps, user, auth, database
  OddLengths,       \* length-encoded lengths that do not fit a login
  SqlTexts,         \* SQL texts
  Messages,         \* MongoDB messages: elements, opCode, sequences, responseTo
  Garbage,          \* bytes that replace another in a damaged message
  ErrorText,        \* what a client is told
  NilRegexp         \* the nil *regexp.Regexp

Mongo == INSTANCE MongoCommand WITH Base <- MongoBase

VARIABLES
  proto,    \* the protocol
  login,    \* history: the MySQL client, Nothing for the other protocols
  wire,     \* the payload that was handled last
  whole,    \* history: it arrived as it was sent
  who,      \* what ParseHandshakeResponse made of the login
  intent,   \* history: the command the client means
  text,     \* what the rules are matched against
  verdict,  \* the decision
  answer,   \* the error sent to the client, Nothing when the packet is forwarded
  stage     \* what the connection waits for

inspectVars == <<proto, login, wire, whole, who, intent, text, verdict, answer, stage>>
-----------------------------------------------------------------------------
(* How a MySQL client encodes its login and its queries.                   *)
LenEncOf(size) ==
  IF size < Base - 5 THEN <<size>> ELSE <<Base - 4>> \o PutLittle(size, 2, Base)

LoginHead(l) == PutLittle(l.caps, 4, Base) \o Zeros(28) \o l.user \o <<0>>
AuthBytes(l, length) ==
  IF "lenenc" \in l.flags THEN length \o l.auth
  ELSE IF "secure" \in l.flags THEN <<Len(l.auth)>> \o l.auth ELSE l.auth \o <<0>>
DatabaseBytes(l) == IF "db" \in l.flags THEN l.database \o <<0>> ELSE <<>>

LoginBytes(l, length) == LoginHead(l) \o AuthBytes(l, length) \o DatabaseBytes(l)
LoginSent(l) == LoginBytes(l, LenEncOf(Len(l.auth)))

(* The attributes are their count, that of their sets and their encoding.  *)
QueryBytes(t, params, attrs) ==
  (IF ~attrs THEN <<ComQuery>>
   ELSE IF params = 0 THEN <<ComQuery, 0, 1>> ELSE <<ComQuery, params, 1, 0, 1>>) \o t

(* How a MongoDB client encodes a document and a message.                  *)
DocBytes(elems) ==
  LET elements == FlattenSeq([k \in DOMAIN elems |->
                <<elems[k].type>> \o elems[k].key \o <<0>> \o elems[k].val])
  IN  Mongo!PutLittle(Len(elements) + 5, 4, MongoBase) \o elements \o <<0>>

SequenceBytes(s) == <<1>> \o Mongo!PutLittle(4 + Len(s), 4, MongoBase) \o s

MessageBytes(m) ==
  IF m.opCode = "OpQuery"
  THEN Mongo!Zeros(4) \o m.collection \o Mongo!Zeros(9) \o DocBytes(m.elems)
  ELSE Mongo!Zeros(4) \o FlattenSeq([k \in DOMAIN m.sequences |-> SequenceBytes(m.sequences[k])])
         \o <<0>> \o DocBytes(m.elems)

Cuts(p) == {SubSeq(p, 1, c) : c \in 0 .. Len(p)}

Flags == {"db", "secure", "lenenc", "attrs", "ssl", "compress"}

(* Names and texts hold no NUL; neither does authentication data without a *)
(* length.  What has one fits it; a login fits an int, an error a packet.  *)
ASSUME InspectionAssumption ==
  /\ Base >= 8
  /\ MongoBase \in Nat /\ MongoBase >= 64 /\ MongoBase % 2 = 0
  /\ \A l \in Logins :
       /\ l.caps \in 0 .. Word - 1
       /\ \A f \in Flags : f \in l.flags <=> Has(l.caps, f)
       /\ {l.user, l.auth, l.database} \subseteq Seq(Byte)
       /\ NulFree(l.user) /\ NulFree(l.database)
       /\ NulFree(l.auth) \/ "secure" \in l.flags \/ "lenenc" \in l.flags
       /\ "lenenc" \in l.flags => Len(l.auth) < Base * Base
       /\ "secure" \in l.flags => "lenenc" \in l.flags \/ Len(l.auth) < Base
       /\ Len(LoginSent(l)) < (Word * Word) \div 2
  /\ OddLengths \subseteq Seq(Byte)
  /\ SqlTexts \subseteq Seq(Byte) \ {<<>>} /\ \A t \in SqlTexts : NulFree(t)
  /\ Nothing \notin [sql : Seq(Byte), params : Nat]
  /\ ErrorText \in Seq(Byte) /\ NulFree(ErrorText)
  /\ Len(ErrorText) + 9 < Base * Base * Base /\ Len(ErrorText) + 40 < Mongo!Word
  /\ Garbage \subseteq 0 .. MongoBase - 1
  /\ \A m \in Messages : MessageBytes(m) \in Seq(0 .. MongoBase - 1)
  /\ {"ok", "errmsg", "code"} \subseteq DOMAIN Name
  /\ \A m \in DOMAIN Name : Name[m] \in Seq(0 .. MongoBase - 1) /\ NulFree(Name[m])
  /\ Len(Name["ok"]) = 2 /\ Len(Name["errmsg"]) = 6 /\ Len(Name["code"]) = 4
-----------------------------------------------------------------------------
InspectInit ==
  /\ \/ proto = "mysql" /\ login \in Logins /\ stage = "login"
     \/ proto \in {"postgres", "mongodb"} /\ login = Nothing /\ stage = "command"
  /\ wire = <<>> /\ whole = TRUE /\ who = Nothing /\ intent = Nothing
  /\ text = Nothing /\ verdict = Nothing /\ answer = Nothing

(* The handshake response: whole, cut, or with a length that does not fit. *)
(* The server refuses all but the first; after an SSL request or under     *)
(* compression there is nothing to be read.                                *)
Login ==
  /\ stage = "login"
  /\ \E p \in Cuts(LoginSent(login)) \cup {LoginBytes(login, o) : o \in OddLengths} :
       /\ wire' = p
       /\ whole' = (p = LoginSent(login))
       /\ who' = ParseHandshakeResponse(p)
       /\ stage' = IF whole' /\ {"ssl", "compress"} \cap login.flags = {} THEN "command" ELSE "over"
  /\ UNCHANGED <<proto, login, intent, text, verdict, answer>>

(* A packet reaches its parser; without a text it is forwarded.            *)
Parsed(p, meant, t) ==
  /\ wire' = p /\ intent' = meant /\ text' = t
  /\ stage' = IF t = Nothing THEN "over" ELSE "decide"
  /\ UNCHANGED <<proto, login, who, verdict, answer>>

MySQLQuery ==
  /\ stage = "command" /\ proto = "mysql"
  /\ \E t \in SqlTexts, params \in 0 .. 1 :
       LET p == QueryBytes(t, params, "attrs" \in login.flags)
       IN  Parsed(p, [sql |-> t, params |-> params], ExtractQuery(p, Has(who.caps, "attrs")))
  /\ whole' = TRUE

PostgresQuery ==
  /\ stage = "command" /\ proto = "postgres"
  /\ \E t \in SqlTexts, type \in {"Q", "P"} :
       LET p == IF type = "Q" THEN t \o <<0>> ELSE <<1, 0>> \o t \o <<0, 0, 0>>
       IN  Parsed(p, [sql |-> t, params |-> 0], ExtractSQL([type |-> type, payload |-> p]))
  /\ whole' = TRUE

RuleText(info) == IF info = Nothing THEN Nothing ELSE Mongo!ToRuleString(info)

MongoMessage ==
  /\ stage = "command" /\ proto = "mongodb"
  /\ \E m \in Messages :
       LET sent == MessageBytes(m)
       IN  \E p \in Cuts(sent) \cup {[sent EXCEPT ![k] = b] : k \in DOMAIN sent, b \in Garbage} :
             /\ Parsed(p, m, RuleText(Mongo!ExtractCommand(
                               [responseTo |-> m.responseTo, opCode |-> m.opCode, payload |-> p])))
             /\ whole' = (p = sent)
-----------------------------------------------------------------------------
RulesFor(protocol) == CASE protocol = "mysql" -> DefaultRules
                        [] protocol = "postgres" -> DefaultPostgresRules
                        [] protocol = "mongodb" -> DefaultMongoDBRules

(* What MatchString says of a text.                                        *)
MatchString(protocol, pattern, t) ==
  IF protocol # "mongodb" THEN \E w \in Words[pattern] : HasWord(t, w)
  ELSE LET p == MongoPattern(pattern)
       IN  \E k \in DOMAIN t :
             t[k][1] = p[1] /\ (p[1] = "EMPTY_FILTER" \/ \E m \in p[2] : t[k][2] = Name[m])

PatternsOf(rules) == {rules[k].pattern : k \in DOMAIN rules}

Protocols == {"mysql", "postgres", "mongodb"}

ASSUME RegexpAssumption == \A protocol \in Protocols : NilRegexp \notin PatternsOf(RulesFor(protocol))

Engine(accepts) ==
  INSTANCE Rules WITH
    Sql <- UNION Range(accepts), Names <- {<<>>}, CaseFold <- [name \in {<<>>} |-> name],
    RuleNames <- DOMAIN accepts, Patterns <- DOMAIN accepts, Accepts <- accepts,
    Actions <- {"allow", "ignore", "alert", "block"}, Nil <- NilRegexp

(* Engine.Evaluate with rules that name no user or database.               *)
Evaluate(rules, protocol, t) ==
  LET accepts == [p \in PatternsOf(rules) |-> {x \in {t} : MatchString(protocol, p, x)}]
  IN  Engine(accepts)!FirstMatch(rules, [sql |-> t, user |-> <<>>, database |-> <<>>])

Decide ==
  /\ stage = "decide"
  /\ verdict' = Evaluate(RulesFor(proto), proto, text)
  /\ stage' = "answer"
  /\ UNCHANGED <<proto, login, wire, whole, who, intent, text, answer>>

(* The error for a blocked packet; the MySQL command has sequence number   *)
(* 0 and the MongoDB request the identifier 7.                             *)
Answer ==
  /\ stage = "answer" /\ stage' = "over"
  /\ answer' = IF verdict.action # "block" THEN Nothing
               ELSE CASE proto = "mysql" -> BuildErrorPacket(1, 9, <<4, 2, 0, 0, 0>>, ErrorText)
                      [] proto = "postgres" -> BuildErrorResponse(ErrorText)
                      [] proto = "mongodb" -> Mongo!BuildBlockResponse(7, ErrorText)
  /\ UNCHANGED <<proto, login, wire, whole, who, intent, text, verdict>>

Over == stage = "over" /\ UNCHANGED inspectVars

InspectNext == Login \/ MySQLQuery \/ PostgresQuery \/ MongoMessage \/ Decide \/ Answer \/ Over

InspectSpec == InspectInit /\ [][InspectNext]_inspectVars
-----------------------------------------------------------------------------
(* Type invariant of the connection: an identity is made of strings        *)
(* without NUL, a text of the bytes or labelled parts of its protocol.     *)
InspectTypeOK ==
  /\ proto \in Protocols /\ whole \in BOOLEAN
  /\ stage \in {"login", "command", "decide", "answer", "over"}
  /\ \/ who \in {Nothing, Panic}
     \/ /\ who.caps \in 0 .. Word - 1
        /\ NulFree(who.user) /\ NulFree(who.database)
        /\ who.user \in Seq(Byte) /\ who.database \in Seq(Byte)
  /\ text = Nothing \/ (IF proto = "mongodb"
                        THEN \A k \in DOMAIN text : text[k][1] \in {"CMD", "DB", "COLL", "HAS", "EMPTY_FILTER"}
                        ELSE text \in Seq(Byte))
  /\ verdict = Nothing \/ verdict \in [action : {"allow", "alert", "block"},
                                      rule : PatternsOf(RulesFor(proto)) \cup {"default-allow"}]
  /\ answer # Nothing => verdict.action = "block"

AfterLogin == proto = "mysql" /\ stage # "login" /\ intent = Nothing

(* ParseHandshakeResponse finds the user and the database the client sent, *)
(* behind authentication data of all three forms and of lengths with and   *)
(* without a prefix; an SSL request gives its capabilities and no names.   *)
(* A damaged login that is accepted all the same gives no other user or    *)
(* capabilities, and one that is cut no bytes but the client's for its     *)
(* database.                                                               *)
LoginDecoded ==
  LET database == IF "db" \in login.flags THEN login.database ELSE <<>>
  IN  AfterLogin =>
        /\ whole => who = Identity(login.caps, login.user, database)
        /\ Len(wire) < 32 => who = Nothing
        /\ Len(wire) = 32 /\ "ssl" \in login.flags => who = Identity(login.caps, <<>>, <<>>)
        /\ Len(wire) > 32 /\ who \notin {Nothing, Panic} =>
             /\ who.caps = login.caps /\ who.user = login.user
             /\ wire \in Cuts(LoginSent(login)) => who.database \in Cuts(database)

(* "ok=false on truncated or malformed input": a login that is longer than *)
(* an SSL request and cut before its end is refused.  The code accepts one *)
(* cut behind the user's name, with the beginning of its database if that  *)
(* is where it is cut.                                                     *)
TruncatedRefused ==
  AfterLogin /\ Len(wire) > 32 /\ wire \in Cuts(LoginSent(login)) \ {LoginSent(login)} =>
    who = Nothing

(* ParseHandshakeResponse indexes outside the payload only when the        *)
(* announced length does not fit an int once the offset is added to it and *)
(* a database is to be read behind it.                                     *)
OnlyWrapPanics ==
  AfterLogin /\ who = Panic =>
    /\ {"lenenc", "db"} \subseteq login.flags
    /\ ReadLenEncInt(From(wire, 34 + Len(login.user))).value
          >= (Word * Word) \div 2 - Len(wire)

(* "ok=false on truncated or malformed input": whatever length a login     *)
(* announces, ParseHandshakeResponse returns.                              *)
LoginReturns == AfterLogin => who # Panic

(* The text that is checked is the one the client sent: ExtractQuery       *)
(* leaves out the attribute block exactly when the login announced it, and *)
(* gives no text rather than a wrong one when it holds parameters;         *)
(* ExtractSQL finds it in both messages.                                   *)
TextIsMeant ==
  intent # Nothing /\ proto # "mongodb" =>
    text = IF intent.params > 0 /\ proto = "mysql" /\ "attrs" \in login.flags
           THEN Nothing ELSE intent.sql

(* With the default rules of its protocol an SQL text is blocked when what *)
(* the client sent is something a block rule is about, whatever alerts it  *)
(* gives rise to as well, and only then.                                   *)
BlockRules(rules) == {k \in DOMAIN rules : rules[k].action = "block"}
SqlCaught ==
  verdict # Nothing /\ proto # "mongodb" =>
    LET rules == RulesFor(proto)
    IN  verdict.action = "block"
          <=> \E k \in BlockRules(rules) : MatchString(proto, rules[k].pattern, intent.sql)

(* What a MongoDB message means, from the elements it was built from.      *)
Operators == {Name[n] : n \in {"$where", "$function", "$accumulator"}}
UsedOps(m) == Operators \cap UNION {m.elems[k].words : k \in DOMAIN m.elems}
MassCommand(m) == m.elems # <<>> /\ m.elems[1].key \in {Name["delete"], Name["update"]}
MassOperation(m) == MassCommand(m) /\ \E k \in DOMAIN m.elems : m.elems[k].empty

MeantParts(m) ==
  LET named == {k \in DOMAIN m.elems : m.elems[k].key = Name["$db"] /\ m.elems[k].text # Nothing}
      Part(label, t) == IF t \in {Nothing, <<>>} THEN {} ELSE {<<label, t>>}
  IN  IF m.elems = <<>> THEN {<<"CMD", <<>>>>}
      ELSE {<<"CMD", m.elems[1].key>>} \cup Part("COLL", m.elems[1].text)
             \cup {<<"HAS", op>> : op \in UsedOps(m)}
             \cup (IF named = {} THEN {} ELSE Part("DB", m.elems[Max(named)].text))

MongoDecoded ==
  LET found == {text[k] : k \in DOMAIN text} \ {<<"EMPTY_FILTER", <<>>>>}
  IN  intent # Nothing /\ proto = "mongodb" =>
        IF intent.responseTo # 0 \/ intent.opCode \notin {"OpMsg", "OpQuery"} THEN text = Nothing
        ELSE /\ whole => /\ text # Nothing /\ found = MeantParts(intent)
                         /\ MassOperation(intent) => text[Len(text)][1] = "EMPTY_FILTER"
             /\ intent.opCode = "OpMsg" /\ Len(wire) < Len(MessageBytes(intent)) => text = Nothing

(* What a MongoDB command does that a block rule is about.                 *)
Harmful(m) ==
  \/ UsedOps(m) # {}
  \/ MassOperation(m)
  \/ m.elems # <<>> /\ \E r \in ToSet(MongoBlocked) :
       MongoPattern(r)[1] = "CMD" /\ \E c \in MongoPattern(r)[2] : m.elems[1].key = Name[c]
MongoCaught ==
  verdict # Nothing /\ proto = "mongodb" /\ whole =>
    \/ Harmful(intent) <=> verdict.action = "block"
    \/ ~Harmful(intent) /\ MassCommand(intent)

(* ExtractCommand gives the command, the collection, the database and the  *)
(* operators the client put into the document, behind elements of every    *)
(* type and document sequences of every kind, the database only from the   *)
(* top level; an empty filter in the body is seen; replies and messages    *)
(* cut in their OP_MSG body give nothing.  With the default rules a        *)
(* command is blocked when a block rule is about what its document was     *)
(* built from, and only then; but a delete or an update is searched for    *)
(* the bytes of an empty document, which may be others.                    *)
MongoInspected == MongoDecoded /\ MongoCaught

(* The answer to a blocked command is a packet its client can read: the    *)
(* lengths it announces are its own, it answers the request, and the       *)
(* message is found in it, with PostgreSQL as the last of exactly three    *)
(* fields and followed by the idle status (BuildErrorPacket,               *)
(* BuildErrorResponse, ReadyForQueryIdle, BuildBlockResponse).             *)
MySQLReadable(a) ==
  /\ Little(a, 1, 3, Base) = Len(a) - 4 /\ a[4] = 1
  /\ a[5] = Base - 1 /\ SubSeq(a, 14, Len(a)) = ErrorText
PostgresReadable(a) ==
  LET s == CString(a.payload, 1)
      c == CString(a.payload, s.next)
      m == CString(a.payload, c.next)
  IN  /\ \A k \in {a, ReadyForQueryIdle} : Uint32(k.length, 1) = 4 + Len(k.payload)
      /\ m.text = <<1>> \o ErrorText
      /\ m.next = Len(a.payload) /\ a.payload[m.next] = 0
      /\ ReadyForQueryStatus(ReadyForQueryIdle) = 1
MongoReadable(a) ==
  LET doc == SubSeq(a.payload, 6, Len(a.payload))
  IN  /\ a.messageLength = 16 + Len(a.payload)
      /\ Mongo!U32(doc, 1) = Len(doc)
      /\ Mongo!FirstKeyValue(doc)[1] = Name["ok"]
      /\ Mongo!ParseTopLevel(doc) = [k \in {Name["errmsg"]} |-> ErrorText]
      /\ a.responseTo = 7 /\ Mongo!ExtractCommand(a) = Nothing
Answered ==
  answer # Nothing =>
    /\ proto = "mysql" => MySQLReadable(answer)
    /\ proto = "postgres" => PostgresReadable(answer)
    /\ proto = "mongodb" => MongoReadable(answer)

(* What a connection knows at each stage, and the inductive invariant.     *)
StageInv ==
  /\ proto = "mysql" => login \in Logins
  /\ stage = "login" => proto = "mysql"
  /\ stage = "command" => whole
  /\ stage \in {"login", "command"} => intent = Nothing
  /\ stage \in {"login", "command", "decide"} => verdict = Nothing /\ answer = Nothing
  /\ stage = "decide" => text # Nothing /\ (proto # "mongodb" => intent # Nothing)

InspectInv ==
  InspectTypeOK /\ StageInv /\ LoginDecoded /\ OnlyWrapPanics /\ TextIsMeant /\ SqlCaught /\ Answered
=============================================================================
