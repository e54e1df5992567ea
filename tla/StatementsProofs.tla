-------------------------- MODULE StatementsProofs --------------------------
(***************************************************************************)
(* Proofs about the registry of prepared statements, for every set of      *)
(* texts and identifiers and any number of commands in flight: what was    *)
(* checked is what runs, and the registry follows the server.              *)
(***************************************************************************)
EXTENDS Statements, SequenceTheorems, TLAPS

(***************************************************************************)
(* What the extractors return for the payloads of the protocol.            *)
(***************************************************************************)

(* The four bytes of an identifier are read back in their order (the       *)
(* LittleEndian.Uint32 of all three extractors).                           *)
LEMMA IdDecoded ==
  ASSUME NEW id \in Ids
  PROVE  /\ IdBytes(id) \in Seq(Byte) /\ Len(IdBytes(id)) = 4
         /\ IdBytes(id)[1] + 256 * (IdBytes(id)[2] + 256 * (IdBytes(id)[3] + 256 * IdBytes(id)[4])) = id
<1>1. id \in Nat /\ id \div 16777216 \in Byte
  BY StatementsAssumption DEF FitsUint32
<1>2. IdBytes(id) \in Seq(Byte) /\ Len(IdBytes(id)) = 4
  BY <1>1 DEF IdBytes, Byte
<1>3. (id % 256) + 256 * (((id \div 256) % 256) + 256 * (((id \div 65536) % 256) + 256 * (id \div 16777216)))
      = id
  BY <1>1
<1> QED
  BY <1>2, <1>3 DEF IdBytes

(* A COM_STMT_CLOSE gives its identifier and nothing else                  *)
(* (ExtractStmtCloseID).                                                   *)
LEMMA CloseFacts ==
  ASSUME NEW id \in Ids
  PROVE  /\ CloseCmd(id) \in Seq(Byte) /\ CloseCmd(id) # <<>> /\ CloseCmd(id)[1] = 25
         /\ ExtractStmtCloseID(CloseCmd(id)) = id
         /\ ExtractStmtExecuteID(CloseCmd(id)) = Nothing
         /\ ExtractPrepareSQL(CloseCmd(id)) = Nothing
<1> DEFINE m == CloseCmd(id)
<1>1. m \in Seq(Byte) /\ Len(m) = 5 /\ m[1] = 25
  <2>1. <<ComStmtClose>> \in Seq(Byte)
    BY DEF ComStmtClose, Byte
  <2> QED
    BY <2>1, IdDecoded, ConcatProperties DEF CloseCmd, ComStmtClose
<1>2. \A i \in 1 .. 4 : m[i + 1] = IdBytes(id)[i]
  BY IdDecoded DEF CloseCmd
<1>3. m[2] = IdBytes(id)[1] /\ m[3] = IdBytes(id)[2] /\ m[4] = IdBytes(id)[3] /\ m[5] = IdBytes(id)[4]
  BY <1>2
<1>4. StmtId(m) = id
  BY <1>3, IdDecoded DEF StmtId
<1> HIDE DEF m
<1>5. /\ ExtractStmtCloseID(m) = id /\ ExtractStmtExecuteID(m) = Nothing
      /\ ExtractPrepareSQL(m) = Nothing /\ m # <<>>
  BY <1>1, <1>4 DEF ExtractStmtCloseID, ExtractStmtExecuteID, ExtractPrepareSQL,
                    ComStmtClose, ComStmtExecute, ComStmtPrepare
<1> QED
  BY <1>1, <1>5 DEF m

(* A COM_STMT_EXECUTE gives its identifier (ExtractStmtExecuteID).         *)
LEMMA ExecuteFacts ==
  ASSUME NEW id \in Ids
  PROVE  /\ ExecuteCmd(id) \in Seq(Byte) /\ ExecuteCmd(id) # <<>> /\ ExecuteCmd(id)[1] = 23
         /\ ExtractStmtCloseID(ExecuteCmd(id)) = Nothing
         /\ ExtractStmtExecuteID(ExecuteCmd(id)) = id
         /\ ExtractPrepareSQL(ExecuteCmd(id)) = Nothing
<1> DEFINE m == ExecuteCmd(id)
<1>1. m \in Seq(Byte) /\ Len(m) = 10 /\ m[1] = 23
  <2>1. <<ComStmtExecute>> \in Seq(Byte) /\ <<0, 1, 0, 0, 0>> \in Seq(Byte)
    BY DEF ComStmtExecute, Byte
  <2>2. <<ComStmtExecute>> \o IdBytes(id) \in Seq(Byte)
    BY <2>1, IdDecoded, ConcatProperties
  <2>3. m \in Seq(Byte)
    BY <2>1, <2>2, ConcatProperties DEF ExecuteCmd
  <2>4. Len(m) = 10 /\ m[1] = 23
    BY DEF ExecuteCmd, IdBytes, ComStmtExecute
  <2> QED
    BY <2>3, <2>4
<1>2. \A i \in 1 .. 4 : m[i + 1] = IdBytes(id)[i]
  BY IdDecoded DEF ExecuteCmd
<1>3. m[2] = IdBytes(id)[1] /\ m[3] = IdBytes(id)[2] /\ m[4] = IdBytes(id)[3] /\ m[5] = IdBytes(id)[4]
  BY <1>2
<1>4. StmtId(m) = id
  BY <1>3, IdDecoded DEF StmtId
<1> HIDE DEF m
<1>5. /\ ExtractStmtCloseID(m) = Nothing /\ ExtractStmtExecuteID(m) = id
      /\ ExtractPrepareSQL(m) = Nothing /\ m # <<>>
  BY <1>1, <1>4 DEF ExtractStmtCloseID, ExtractStmtExecuteID, ExtractPrepareSQL,
                    ComStmtClose, ComStmtExecute, ComStmtPrepare
<1> QED
  BY <1>1, <1>5 DEF m

(* A COM_STMT_PREPARE gives its text (ExtractPrepareSQL).                  *)
LEMMA PrepareFacts ==
  ASSUME NEW s \in Sqls
  PROVE  /\ PrepareCmd(s) \in Seq(Byte) /\ PrepareCmd(s) # <<>> /\ PrepareCmd(s)[1] = 22
         /\ ExtractStmtCloseID(PrepareCmd(s)) = Nothing
         /\ ExtractStmtExecuteID(PrepareCmd(s)) = Nothing
         /\ ExtractPrepareSQL(PrepareCmd(s)) = s
<1> DEFINE m == PrepareCmd(s)
<1>0. s \in Seq(Byte) /\ Len(s) \in Nat /\ Len(s) > 0
  BY StatementsAssumption, EmptySeq
<1>1. m \in Seq(Byte) /\ Len(m) = 1 + Len(s) /\ m[1] = 22
  BY <1>0 DEF PrepareCmd, ComStmtPrepare, Byte
<1>2. Tail(m) = s
  <2>1. Tail(m) \in Seq(Byte) /\ Len(Tail(m)) = Len(s)
    BY <1>0, <1>1
  <2>2. \A i \in 1 .. Len(s) : Tail(m)[i] = s[i]
    BY <1>0, <1>1 DEF PrepareCmd
  <2> QED
    BY <1>0, <2>1, <2>2, SeqEqual
<1> HIDE DEF m
<1>3. /\ ExtractStmtCloseID(m) = Nothing /\ ExtractStmtExecuteID(m) = Nothing
      /\ ExtractPrepareSQL(m) = s /\ m # <<>>
  BY <1>0, <1>1, <1>2 DEF ExtractStmtCloseID, ExtractStmtExecuteID, ExtractPrepareSQL,
                    ComStmtClose, ComStmtExecute, ComStmtPrepare
<1> QED
  BY <1>1, <1>3 DEF m

(* A truncated command, and one the library does not know, gives nothing.  *)
LEMMA OtherFacts ==
  ASSUME NEW m \in Truncated \cup {ResetCmd}
  PROVE  /\ m \in Seq(Byte) /\ m # <<>> /\ m[1] \in {22, 23, 31}
         /\ m = ResetCmd <=> m[1] = 31
         /\ ExtractStmtCloseID(m) = Nothing
         /\ ExtractStmtExecuteID(m) = Nothing
         /\ ExtractPrepareSQL(m) = Nothing
<1> USE DEF ComStmtClose, ComStmtExecute, ComStmtPrepare
<1>1. CASE m = ResetCmd
  BY <1>1 DEF ResetCmd, Byte, ExtractStmtCloseID, ExtractStmtExecuteID, ExtractPrepareSQL
<1>2. CASE m = <<ComStmtPrepare>>
  BY <1>2 DEF ResetCmd, Byte, ExtractStmtCloseID, ExtractStmtExecuteID, ExtractPrepareSQL
<1>3. ASSUME NEW id \in Ids, m = <<ComStmtExecute>> \o IdBytes(id)
      PROVE  m \in Seq(Byte) /\ Len(m) = 5 /\ m[1] = 23
  <2>1. <<ComStmtExecute>> \in Seq(Byte)
    BY DEF Byte
  <2>2. <<ComStmtExecute>> \o IdBytes(id) \in Seq(Byte)
    BY <2>1, IdDecoded, ConcatProperties
  <2>3. Len(<<ComStmtExecute>> \o IdBytes(id)) = 5 /\ (<<ComStmtExecute>> \o IdBytes(id))[1] = 23
    BY DEF IdBytes
  <2> QED
    BY <1>3, <2>2, <2>3
<1>4. CASE m \in Seq(Byte) /\ Len(m) = 5 /\ m[1] = 23
  <2>1. m # ResetCmd /\ m # <<>>
    <3>1. ResetCmd[1] = 31 /\ Len(<<>>) = 0
      BY DEF ResetCmd
    <3> QED
      BY <1>4, <3>1
  <2> QED
    BY <1>4, <2>1 DEF ExtractStmtCloseID, ExtractStmtExecuteID, ExtractPrepareSQL
<1> QED
  BY <1>1, <1>2, <1>3, <1>4 DEF Truncated

(* Only the answer to a prepare is taken for one (ParseStmtPrepareOK).     *)
LEMMA AnswerFacts ==
  /\ \A id \in Ids : /\ PrepareOK(id) \in Seq(Byte) /\ PrepareOK(id) # <<>>
                     /\ ParseStmtPrepareOK(PrepareOK(id)) = id
  /\ \A m \in {OKPacket, ErrPacket} : /\ m \in Seq(Byte) /\ m # <<>>
                                      /\ ParseStmtPrepareOK(m) = Nothing
<1>1. ASSUME NEW id \in Ids
      PROVE  /\ PrepareOK(id) \in Seq(Byte) /\ PrepareOK(id) # <<>>
             /\ ParseStmtPrepareOK(PrepareOK(id)) = id
  <2> DEFINE m == PrepareOK(id)
  <2>1. m \in Seq(Byte) /\ Len(m) = 12 /\ m[1] = 0
    <3>1. <<0>> \in Seq(Byte) /\ <<0, 0, 0, 0, 0, 0, 0>> \in Seq(Byte)
      BY DEF Byte
    <3>2. <<0>> \o IdBytes(id) \in Seq(Byte)
      BY <3>1, IdDecoded, ConcatProperties
    <3>3. m \in Seq(Byte)
      BY <3>1, <3>2, ConcatProperties DEF PrepareOK
    <3>4. Len(m) = 12 /\ m[1] = 0
      BY DEF PrepareOK, IdBytes
    <3> QED
      BY <3>3, <3>4
  <2>2. \A i \in 1 .. 4 : m[i + 1] = IdBytes(id)[i]
    BY IdDecoded DEF PrepareOK
  <2>3. m[2] = IdBytes(id)[1] /\ m[3] = IdBytes(id)[2] /\ m[4] = IdBytes(id)[3] /\ m[5] = IdBytes(id)[4]
    BY <2>2
  <2>4. StmtId(m) = id
    BY <2>3, IdDecoded DEF StmtId
  <2> HIDE DEF m
  <2>5. ParseStmtPrepareOK(m) = id /\ m # <<>>
    BY <2>1, <2>4 DEF ParseStmtPrepareOK
  <2> QED
    BY <2>1, <2>5 DEF m
<1>2. /\ OKPacket \in Seq(Byte) /\ OKPacket # <<>> /\ ParseStmtPrepareOK(OKPacket) = Nothing
  BY DEF OKPacket, ParseStmtPrepareOK, Byte
<1>3. /\ ErrPacket \in Seq(Byte) /\ ErrPacket # <<>> /\ ParseStmtPrepareOK(ErrPacket) = Nothing
  BY DEF ErrPacket, ParseStmtPrepareOK, Byte
<1> QED
  BY <1>1, <1>2, <1>3

(* Payloads of different kinds, identifiers or texts differ.               *)
LEMMA Kinds ==
  /\ \A a, b \in Ids : CloseCmd(a) = CloseCmd(b) => a = b
  /\ \A a, b \in Ids : ExecuteCmd(a) = ExecuteCmd(b) => a = b
  /\ \A a, b \in Ids : PrepareOK(a) = PrepareOK(b) => a = b
  /\ \A a, b \in Sqls : PrepareCmd(a) = PrepareCmd(b) => a = b
  /\ \A a \in Ids, s \in Sqls : ExecuteCmd(a) # PrepareCmd(s)
  /\ \A a \in Ids : PrepareOK(a) \notin {OKPacket, ErrPacket}
  /\ \A a \in Ids : ExecuteCmd(a) \notin Closes /\ ExecuteCmd(a) # ResetCmd
  /\ \A s \in Sqls : PrepareCmd(s) \notin Closes /\ PrepareCmd(s) # ResetCmd
  /\ \A a \in Ids : CloseCmd(a) \in Closes /\ CloseCmd(a) # ResetCmd
  /\ ResetCmd \notin Closes
  /\ \A m \in Truncated : /\ m \notin Closes /\ m # ResetCmd
                          /\ \A a \in Ids : m # ExecuteCmd(a)
                          /\ \A s \in Sqls : m # PrepareCmd(s)
<1>1. /\ \A a, b \in Ids : CloseCmd(a) = CloseCmd(b) => a = b
      /\ \A a, b \in Ids : ExecuteCmd(a) = ExecuteCmd(b) => a = b
      /\ \A a, b \in Ids : PrepareOK(a) = PrepareOK(b) => a = b
      /\ \A a, b \in Sqls : PrepareCmd(a) = PrepareCmd(b) => a = b
  BY CloseFacts, ExecuteFacts, AnswerFacts, PrepareFacts
<1>2. Nothing \notin Ids /\ Nothing \notin Sqls
  BY StatementsAssumption
<1>3. ResetCmd[1] = 31
  BY OtherFacts
<1>4. /\ \A a \in Ids, s \in Sqls : ExecuteCmd(a) # PrepareCmd(s)
      /\ \A a \in Ids : PrepareOK(a) \notin {OKPacket, ErrPacket}
      /\ \A a \in Ids : ExecuteCmd(a) \notin Closes /\ ExecuteCmd(a) # ResetCmd
      /\ \A s \in Sqls : PrepareCmd(s) \notin Closes /\ PrepareCmd(s) # ResetCmd
      /\ \A a \in Ids : CloseCmd(a) \in Closes /\ CloseCmd(a) # ResetCmd
      /\ ResetCmd \notin Closes
  BY <1>2, <1>3, CloseFacts, ExecuteFacts, AnswerFacts, PrepareFacts DEF Closes
<1>5. ASSUME NEW m \in Truncated
      PROVE  /\ m \notin Closes /\ m # ResetCmd
             /\ \A a \in Ids : m # ExecuteCmd(a)
             /\ \A s \in Sqls : m # PrepareCmd(s)
  <2>1. m # ResetCmd
    <3>1. m[1] # 31
      <4>1. CASE m = <<ComStmtPrepare>>
        BY <4>1 DEF ComStmtPrepare
      <4>2. ASSUME NEW id \in Ids, m = <<ComStmtExecute>> \o IdBytes(id)
            PROVE  m[1] = 23
        <5>1. (<<ComStmtExecute>> \o IdBytes(id))[1] = 23
          BY SMT DEF IdBytes, ComStmtExecute
        <5> QED
          BY <4>2, <5>1
      <4> QED
        BY <4>1, <4>2 DEF Truncated
    <3> QED
      BY <1>3, <3>1
  <2> QED
    BY <1>2, <2>1, OtherFacts, CloseFacts, ExecuteFacts, PrepareFacts DEF Closes
<1> QED
  BY <1>1, <1>4, <1>5

(* What HandleUp finds in a command.                                       *)
LEMMA CommandCases ==
  ASSUME NEW m \in Commands
  PROVE  /\ m \in Seq(Byte) /\ m # <<>>
         /\ m \notin Closes => ExtractStmtCloseID(m) = Nothing
         /\ m \in Closes => /\ ExtractStmtCloseID(m) \in Ids
                            /\ m = CloseCmd(ExtractStmtCloseID(m))
                            /\ ExtractStmtExecuteID(m) = Nothing
         /\ ExtractStmtExecuteID(m) # Nothing => /\ ExtractStmtExecuteID(m) \in Ids
                                                /\ m = ExecuteCmd(ExtractStmtExecuteID(m))
         /\ \A id \in Ids : m = ExecuteCmd(id) => ExtractStmtExecuteID(m) = id
         /\ ExtractPrepareSQL(m) \in Sqls \cup {Nothing}
         /\ \A s \in Sqls : m = PrepareCmd(s) => ExtractPrepareSQL(m) = s
<1>0. Nothing \notin Ids /\ Nothing \notin Sqls
  BY StatementsAssumption
<1>1. CASE \E s \in Sqls : m = PrepareCmd(s)
  BY <1>0, <1>1, PrepareFacts, Kinds
<1>2. CASE \E id \in Ids : m = ExecuteCmd(id)
  BY <1>0, <1>2, ExecuteFacts, Kinds
<1>3. CASE \E id \in Ids : m = CloseCmd(id)
  BY <1>0, <1>3, CloseFacts, Kinds DEF Closes
<1>4. CASE m \in Truncated \cup {ResetCmd}
  BY <1>0, <1>4, OtherFacts, Kinds
<1> QED
  BY <1>1, <1>2, <1>3, <1>4 DEF Commands, Closes

(* What HandleDown finds in an answer.                                     *)
LEMMA AnswerCases ==
  ASSUME NEW m \in Answers
  PROVE  /\ m \in Seq(Byte) /\ m # <<>>
         /\ ParseStmtPrepareOK(m) # Nothing => /\ ParseStmtPrepareOK(m) \in Ids
                                              /\ m = PrepareOK(ParseStmtPrepareOK(m))
         /\ \A id \in Ids : m = PrepareOK(id) => ParseStmtPrepareOK(m) = id
<1>1. CASE \E id \in Ids : m = PrepareOK(id)
  BY <1>1, AnswerFacts
<1>2. CASE m \in {OKPacket, ErrPacket}
  BY <1>2, AnswerFacts, Kinds
<1> QED
  BY <1>1, <1>2 DEF Answers

(***************************************************************************)
(* The queues.                                                             *)
(***************************************************************************)

(* A payload that is handled stays where it is in its queue.               *)
LEMMA Advance ==
  ASSUME NEW S, NEW a \in Seq(S), NEW b \in Seq(S), b # <<>>
  PROVE  Append(a, Head(b)) \o Tail(b) = a \o b
<1>1. Append(a, Head(b)) \in Seq(S) /\ Tail(b) \in Seq(S) /\ a \o b \in Seq(S)
      /\ Append(a, Head(b)) \o Tail(b) \in Seq(S)
  BY ConcatProperties
<1>2. Len(Append(a, Head(b)) \o Tail(b)) = Len(a \o b)
  BY <1>1
<1>3. \A i \in 1 .. Len(a \o b) : (Append(a, Head(b)) \o Tail(b))[i] = (a \o b)[i]
  BY <1>1
<1> QED
  BY <1>1, <1>2, <1>3, SeqEqual

(* The first payload leaves the queue.                                     *)
LEMMA Leave ==
  ASSUME NEW S, NEW a \in Seq(S), NEW b \in Seq(S), a # <<>>
  PROVE  Tail(a) \o b = Tail(a \o b) /\ Head(a \o b) = Head(a)
<1>1. Tail(a) \in Seq(S) /\ a \o b \in Seq(S) /\ Len(a \o b) > 0 /\ Tail(a \o b) \in Seq(S)
      /\ Tail(a) \o b \in Seq(S) /\ a \o b # <<>>
  BY ConcatProperties
<1>2. Len(Tail(a) \o b) = Len(Tail(a \o b))
  BY <1>1
<1>3. \A i \in 1 .. Len(Tail(a) \o b) : (Tail(a) \o b)[i] = Tail(a \o b)[i]
  BY <1>1
<1> QED
  BY <1>1, <1>2, <1>3, SeqEqual

(* A payload joins the queue.                                              *)
LEMMA Join ==
  ASSUME NEW S, NEW a \in Seq(S), NEW b \in Seq(S), NEW m \in S
  PROVE  a \o Append(b, m) = Append(a \o b, m)
<1>1. Append(b, m) \in Seq(S) /\ a \o b \in Seq(S) /\ Append(a \o b, m) \in Seq(S)
      /\ a \o Append(b, m) \in Seq(S)
  BY ConcatProperties
<1>2. Len(a \o Append(b, m)) = Len(Append(a \o b, m))
  BY <1>1
<1>3. \A i \in 1 .. Len(a \o Append(b, m)) : (a \o Append(b, m))[i] = Append(a \o b, m)[i]
  BY <1>1
<1> QED
  BY <1>1, <1>2, <1>3, SeqEqual

(* What a queue holds after each of these.                                 *)
LEMMA HasConcat ==
  ASSUME NEW S, NEW a \in Seq(S), NEW b \in Seq(S), NEW m
  PROVE  Has(a \o b, m) <=> Has(a, m) \/ Has(b, m)
<1>1. /\ a \o b \in Seq(S) /\ Len(a \o b) = Len(a) + Len(b)
      /\ \A i \in 1 .. Len(a) : (a \o b)[i] = a[i]
      /\ \A i \in 1 .. Len(b) : (a \o b)[Len(a) + i] = b[i]
      /\ \A i \in 1 .. Len(a) + Len(b) : (a \o b)[i] = IF i <= Len(a) THEN a[i] ELSE b[i - Len(a)]
  BY ConcatProperties
<1>2. DOMAIN a = 1 .. Len(a) /\ DOMAIN b = 1 .. Len(b) /\ DOMAIN (a \o b) = 1 .. Len(a) + Len(b)
      /\ Len(a) \in Nat /\ Len(b) \in Nat
  BY <1>1
<1>3. ASSUME Has(a \o b, m) PROVE Has(a, m) \/ Has(b, m)
  <2>1. PICK i \in 1 .. Len(a) + Len(b) : (a \o b)[i] = m
    BY <1>2, <1>3 DEF Has
  <2>2. CASE i <= Len(a)
    BY <1>1, <1>2, <2>1, <2>2 DEF Has
  <2>3. CASE i > Len(a)
    <3>1. i - Len(a) \in 1 .. Len(b) /\ b[i - Len(a)] = m
      BY <1>1, <1>2, <2>1, <2>3
    <3> QED
      BY <1>2, <3>1 DEF Has
  <2> QED
    BY <1>2, <2>2, <2>3
<1>4. ASSUME Has(a, m) PROVE Has(a \o b, m)
  BY <1>1, <1>2, <1>4 DEF Has
<1>5. ASSUME Has(b, m) PROVE Has(a \o b, m)
  <2>1. PICK i \in 1 .. Len(b) : b[i] = m
    BY <1>2, <1>5 DEF Has
  <2>2. Len(a) + i \in 1 .. Len(a) + Len(b) /\ (a \o b)[Len(a) + i] = m
    BY <1>1, <1>2, <2>1
  <2> QED
    BY <1>2, <2>2 DEF Has
<1> QED
  BY <1>3, <1>4, <1>5

LEMMA HasAppend ==
  ASSUME NEW S, NEW a \in Seq(S), NEW x \in S, NEW m
  PROVE  Has(Append(a, x), m) <=> Has(a, m) \/ m = x
<1>1. DOMAIN a = 1 .. Len(a) /\ Len(a) \in Nat /\ DOMAIN Append(a, x) = 1 .. Len(a) + 1
  BY AppendProperties
<1>2. /\ \A i \in 1 .. Len(a) : Append(a, x)[i] = a[i]
      /\ Append(a, x)[Len(a) + 1] = x
  BY AppendProperties
<1> QED
  BY <1>1, <1>2 DEF Has

LEMMA HasTail ==
  ASSUME NEW S, NEW a \in Seq(S), a # <<>>, NEW m
  PROVE  Has(a, m) <=> m = Head(a) \/ Has(Tail(a), m)
<1>1. /\ DOMAIN a = 1 .. Len(a) /\ Len(a) \in Nat /\ Len(a) > 0 /\ DOMAIN Tail(a) = 1 .. Len(a) - 1
      /\ \A i \in 1 .. Len(a) - 1 : Tail(a)[i] = a[i + 1]
      /\ Head(a) = a[1]
  BY HeadTailProperties, EmptySeq
<1>2. ASSUME Has(a, m), m # Head(a) PROVE Has(Tail(a), m)
  <2>1. PICK i \in 1 .. Len(a) : a[i] = m
    BY <1>1, <1>2 DEF Has
  <2>2. i - 1 \in 1 .. Len(a) - 1 /\ Tail(a)[i - 1] = m
    BY <1>1, <1>2, <2>1
  <2> QED
    BY <1>1, <2>2 DEF Has
<1>3. ASSUME m = Head(a) PROVE Has(a, m)
  <2>1. 1 \in DOMAIN a /\ a[1] = m
    BY <1>1, <1>3
  <2> QED
    BY <2>1 DEF Has
<1>4. ASSUME Has(Tail(a), m) PROVE Has(a, m)
  <2>1. PICK i \in 1 .. Len(a) - 1 : Tail(a)[i] = m
    BY <1>1, <1>4 DEF Has
  <2>2. i + 1 \in 1 .. Len(a) /\ a[i + 1] = m
    BY <1>1, <2>1
  <2> QED
    BY <1>1, <2>2 DEF Has
<1> QED
  BY <1>2, <1>3, <1>4

(* The queues as sequences.                                                *)
LEMMA Queues ==
  ASSUME WireInv
  PROVE  /\ {Handled, toProxy, toServer, Upward} \subseteq Seq(Commands)
         /\ {Returned, toClient, fromServer, Downward} \subseteq Seq(Answers)
         /\ Len(Upward) = Len(Handled) + Len(toProxy)
         /\ \A i \in 1 .. Len(Handled) : Upward[i] = Handled[i]
         /\ \A i \in 1 .. Len(toProxy) : Upward[Len(Handled) + i] = toProxy[i]
         /\ \A m : Has(Upward, m) <=> Has(Handled, m) \/ Has(toProxy, m)
         /\ \A m : Has(Downward, m) <=> Has(Returned, m) \/ Has(fromServer, m)
         /\ Len(Downward) = Len(Returned) + Len(fromServer)
<1>1. toProxy \in Seq(Commands) /\ toServer \in Seq(Commands)
      /\ toClient \in Seq(Answers) /\ fromServer \in Seq(Answers)
  BY DEF WireInv
<1>2. Handled \in Seq(Commands)
  BY <1>1, AppendProperties DEF Handled, WireInv
<1>3. Returned \in Seq(Answers)
  BY <1>1, AppendProperties DEF Returned, WireInv
<1>4. /\ Upward \in Seq(Commands) /\ Len(Upward) = Len(Handled) + Len(toProxy)
      /\ \A i \in 1 .. Len(Handled) + Len(toProxy) :
           Upward[i] = IF i <= Len(Handled) THEN Handled[i] ELSE toProxy[i - Len(Handled)]
  BY <1>1, <1>2, ConcatProperties DEF Upward
<1>5. Downward \in Seq(Answers) /\ Len(Downward) = Len(Returned) + Len(fromServer)
  BY <1>1, <1>3, ConcatProperties DEF Downward
<1>6. \A m : Has(Upward, m) <=> Has(Handled, m) \/ Has(toProxy, m)
  BY <1>1, <1>2, HasConcat DEF Upward
<1>7. \A m : Has(Downward, m) <=> Has(Returned, m) \/ Has(fromServer, m)
  BY <1>1, <1>3, HasConcat DEF Downward
<1>8. Len(Handled) \in Nat /\ Len(toProxy) \in Nat
  BY <1>1, <1>2
<1>9. \A i \in 1 .. Len(Handled) : Upward[i] = Handled[i]
  BY <1>4, <1>8
<1>10. \A i \in 1 .. Len(toProxy) : Upward[Len(Handled) + i] = toProxy[i]
  <2> TAKE i \in 1 .. Len(toProxy)
  <2>1. Len(Handled) + i \in 1 .. Len(Handled) + Len(toProxy) /\ ~(Len(Handled) + i <= Len(Handled))
        /\ Len(Handled) + i - Len(Handled) = i
    BY <1>8
  <2> QED
    BY <1>4, <2>1
<1> QED
  BY <1>1, <1>2, <1>3, <1>4, <1>5, <1>6, <1>7, <1>9, <1>10

(* What each step does to the queues.                                      *)
LEMMA HandleUpQueues ==
  ASSUME WireInv, HandleUp
  PROVE  /\ Head(toProxy) \in Commands /\ Len(toProxy) > 0
         /\ Handled' = Append(Handled, Head(toProxy)) /\ Upward' = Upward
         /\ Upward[Len(Handled) + 1] = Head(toProxy)
         /\ UNCHANGED <<Returned, Downward, fromServer>>
<1>1. toProxy # <<>> /\ up = <<>> /\ up' = Head(toProxy) /\ toProxy' = Tail(toProxy)
      /\ UNCHANGED <<toServer, down, toClient, fromServer>>
  BY DEF HandleUp
<1>2. Handled = toServer /\ toProxy \in Seq(Commands) /\ Handled \in Seq(Commands)
  BY <1>1 DEF Handled, WireInv
<1>3. Head(toProxy) \in Commands /\ Len(toProxy) > 0 /\ Head(toProxy) = toProxy[1]
  BY <1>1, <1>2, HeadTailProperties, EmptySeq
<1>4. Head(toProxy) # <<>>
  BY <1>3, CommandCases
<1>5. Handled' = Append(Handled, Head(toProxy))
  BY <1>1, <1>2, <1>4 DEF Handled
<1>6. Upward' = Upward
  BY <1>1, <1>2, <1>5, Advance DEF Upward
<1>7. Upward[Len(Handled) + 1] = Head(toProxy)
  BY <1>2, <1>3, Queues
<1>8. UNCHANGED <<Returned, Downward, fromServer>>
  BY <1>1 DEF Returned, Downward
<1> QED
  BY <1>3, <1>5, <1>6, <1>7, <1>8

LEMMA HandleDownQueues ==
  ASSUME WireInv, HandleDown
  PROVE  /\ Head(fromServer) \in Answers /\ fromServer # <<>>
         /\ fromServer' = Tail(fromServer) /\ Downward' = Downward
         /\ Returned' = Append(Returned, Head(fromServer))
         /\ UNCHANGED <<Handled, Upward>>
<1>1. fromServer # <<>> /\ down = <<>> /\ down' = Head(fromServer) /\ fromServer' = Tail(fromServer)
      /\ UNCHANGED <<toServer, up, toProxy, toClient>>
  BY DEF HandleDown
<1>2. Returned = toClient /\ fromServer \in Seq(Answers) /\ Returned \in Seq(Answers)
  BY <1>1 DEF Returned, WireInv
<1>3. Head(fromServer) \in Answers
  BY <1>1, <1>2, HeadTailProperties
<1>4. Head(fromServer) # <<>>
  BY <1>3, AnswerCases
<1>5. Returned' = Append(Returned, Head(fromServer))
  BY <1>1, <1>2, <1>4 DEF Returned
<1>6. Downward' = Downward
  BY <1>1, <1>2, <1>5, Advance DEF Downward
<1>7. UNCHANGED <<Handled, Upward>>
  BY <1>1 DEF Handled, Upward
<1> QED
  BY <1>1, <1>3, <1>5, <1>6, <1>7

LEMMA ForwardQueues ==
  ASSUME ForwardUp \/ ForwardDown
  PROVE  UNCHANGED <<Handled, Upward, Returned, Downward, fromServer, toProxy>>
<1>1. CASE ForwardUp
  <2>1. up # <<>> /\ up' = <<>> /\ toServer' = Append(toServer, up)
        /\ UNCHANGED <<down, toProxy, toClient, fromServer>>
    BY <1>1 DEF ForwardUp
  <2>2. Handled' = Handled
    BY <2>1 DEF Handled
  <2> QED
    BY <2>1, <2>2 DEF Upward, Returned, Downward
<1>2. CASE ForwardDown
  <2>1. down # <<>> /\ down' = <<>> /\ toClient' = Append(toClient, down)
        /\ UNCHANGED <<up, toServer, toProxy, fromServer>>
    BY <1>2 DEF ForwardDown
  <2>2. Returned' = Returned
    BY <2>1 DEF Returned
  <2> QED
    BY <2>1, <2>2 DEF Upward, Handled, Downward
<1> QED
  BY <1>1, <1>2

LEMMA SendQueues ==
  ASSUME WireInv, NEW m \in Commands, Send(m)
  PROVE  /\ Upward' = Append(Upward, m)
         /\ UNCHANGED <<Handled, Returned, Downward, fromServer>>
<1>1. toProxy' = Append(toProxy, m) /\ UNCHANGED <<up, down, toServer, toClient, fromServer>>
  BY DEF Send, proxyVars
<1>2. UNCHANGED <<Handled, Returned, Downward, fromServer>>
  BY <1>1 DEF Handled, Returned, Downward
<1>3. Handled \in Seq(Commands) /\ toProxy \in Seq(Commands)
  BY Queues
<1> QED
  BY <1>1, <1>2, <1>3, Join DEF Upward

LEMMA ReceiveQueues ==
  ASSUME WireInv, Receive
  PROVE  /\ Downward' = Tail(Downward) /\ Head(toClient) = Head(Downward) /\ Downward # <<>>
         /\ UNCHANGED <<Handled, Upward, fromServer>>
<1>1. toClient # <<>> /\ toClient' = Tail(toClient)
      /\ UNCHANGED <<up, down, toServer, toProxy, fromServer>>
  BY DEF Receive, proxyVars
<1>2. toClient \in Seq(Answers) /\ fromServer \in Seq(Answers) /\ Returned \in Seq(Answers)
  BY Queues
<1>3. Returned' = Tail(Returned) /\ Head(Returned) = Head(toClient) /\ Returned # <<>>
  <2>1. CASE down = <<>>
    BY <1>1, <2>1 DEF Returned
  <2>2. CASE down # <<>>
    <3>1. down \in Answers
      BY <2>2 DEF WireInv
    <3> QED
      BY <1>1, <1>2, <2>2, <3>1, HeadTailAppend, AppendProperties DEF Returned
  <2> QED
    BY <2>1, <2>2
<1>4. Downward' = Tail(Downward) /\ Head(Downward) = Head(Returned)
  BY <1>1, <1>2, <1>3, Leave DEF Downward
<1>5. Downward # <<>>
  BY <1>2, <1>3, ConcatProperties, EmptySeq DEF Downward
<1> QED
  BY <1>1, <1>3, <1>4, <1>5 DEF Handled, Upward

LEMMA ServeQueues ==
  ASSUME WireInv, Serve
  PROVE  /\ Handled' = Tail(Handled) /\ Upward' = Tail(Upward)
         /\ Head(toServer) \in Commands /\ Handled # <<>> /\ Upward # <<>>
         /\ Head(Handled) = Head(toServer) /\ Head(Upward) = Head(toServer)
         /\ Returned' = Returned
         /\ UNCHANGED <<stmts, prepareSql, checked, known, busy, sends, toProxy, up, down, toClient>>
<1>1. toServer # <<>> /\ toServer' = Tail(toServer)
      /\ UNCHANGED <<stmts, prepareSql, checked, known, busy, sends, toProxy, up, down, toClient>>
  BY DEF Serve, proxyVars, clientVars
<1>2. toServer \in Seq(Commands) /\ toProxy \in Seq(Commands) /\ Handled \in Seq(Commands)
  BY Queues
<1>3. Handled' = Tail(Handled) /\ Head(Handled) = Head(toServer) /\ Handled # <<>>
  <2>1. CASE up = <<>>
    BY <1>1, <2>1 DEF Handled
  <2>2. CASE up # <<>>
    <3>1. up \in Commands
      BY <2>2 DEF WireInv
    <3> QED
      BY <1>1, <1>2, <2>2, <3>1, HeadTailAppend, AppendProperties DEF Handled
  <2> QED
    BY <2>1, <2>2
<1>4. Upward' = Tail(Upward) /\ Head(Upward) = Head(Handled)
  BY <1>1, <1>2, <1>3, Leave DEF Upward
<1>5. Upward # <<>>
  BY <1>2, <1>3, ConcatProperties, EmptySeq DEF Upward
<1>6. Head(toServer) \in Commands
  BY <1>1, <1>2, HeadTailProperties
<1> QED
  BY <1>1, <1>3, <1>4, <1>5, <1>6 DEF Returned

(***************************************************************************)
(* Types.                                                                  *)
(***************************************************************************)

(* Only payloads of the protocol are on the wire.                          *)
LEMMA WireStep ==
  ASSUME WireInv, TypeOK, [Next]_vars
  PROVE  WireInv'
<1> USE DEF WireInv
<1>1. CASE HandleUp
  <2>1. Head(toProxy) \in Commands /\ Tail(toProxy) \in Seq(Commands)
    BY <1>1, HeadTailProperties DEF HandleUp
  <2> QED
    BY <1>1, <2>1 DEF HandleUp
<1>2. CASE ForwardUp
  <2>1. Append(toServer, up) \in Seq(Commands)
    BY <1>2, AppendProperties DEF ForwardUp
  <2> QED
    BY <1>2, <2>1 DEF ForwardUp
<1>3. CASE HandleDown
  <2>1. Head(fromServer) \in Answers /\ Tail(fromServer) \in Seq(Answers)
    BY <1>3, HeadTailProperties DEF HandleDown
  <2> QED
    BY <1>3, <2>1 DEF HandleDown
<1>4. CASE ForwardDown
  <2>1. Append(toClient, down) \in Seq(Answers)
    BY <1>4, AppendProperties DEF ForwardDown
  <2> QED
    BY <1>4, <2>1 DEF ForwardDown
<1>5. ASSUME NEW m \in Commands, Send(m)
      PROVE  WireInv'
  <2>1. Append(toProxy, m) \in Seq(Commands)
    BY AppendProperties
  <2> QED
    BY <1>5, <2>1 DEF Send, proxyVars
<1>6. CASE SendCommand \/ SendClose \/ SendReset
  <2>1. CASE SendCommand
    BY <1>5, <2>1 DEF SendCommand, Commands
  <2>2. CASE SendClose
    <3>1. PICK id \in known : Send(CloseCmd(id))
      BY <2>2 DEF SendClose
    <3>2. CloseCmd(id) \in Commands
      BY DEF Commands, Closes, TypeOK
    <3> QED
      BY <1>5, <3>1, <3>2
  <2>3. CASE SendReset
    BY <1>5, <2>3 DEF SendReset, Commands
  <2> QED
    BY <1>6, <2>1, <2>2, <2>3
<1>7. CASE Receive
  <2>1. Tail(toClient) \in Seq(Answers)
    BY <1>7, HeadTailProperties DEF Receive
  <2> QED
    BY <1>7, <2>1 DEF Receive, proxyVars
<1>8. CASE Serve
  <2>1. Tail(toServer) \in Seq(Commands)
    BY <1>8, HeadTailProperties DEF Serve
  <2>2. fromServer' = fromServer \/ \E m \in Answers : fromServer' = Append(fromServer, m)
    BY <1>8, Zenon DEF Serve, Refused, Prepared, Executed, Closed, Forgotten, Answer, Answers
  <2>3. ASSUME NEW m \in Answers, fromServer' = Append(fromServer, m)
        PROVE  fromServer' \in Seq(Answers)
    BY <2>3, AppendProperties
  <2>4. fromServer' \in Seq(Answers)
    BY <2>2, <2>3
  <2> QED
    BY <1>8, <2>1, <2>4 DEF Serve, proxyVars
<1>9. CASE Quiet \/ UNCHANGED vars
  BY <1>9 DEF Quiet, vars
<1> QED
  BY <1>1, <1>2, <1>3, <1>4, <1>6, <1>7, <1>8, <1>9 DEF Next

LEMMA TypeStep ==
  ASSUME TypeOK, WireInv, ClosesInv, [Next]_vars
  PROVE  TypeOK'
<1>0. WireInv' /\ Nothing \notin Sqls /\ Nothing \notin Ids /\ Ids \subseteq Nat /\ MaxSends \in Nat
  BY WireStep, StatementsAssumption
<1>1. /\ {up, down}' \subseteq Seq(Byte)
      /\ {toProxy, toServer, fromServer, toClient}' \subseteq Seq(Seq(Byte))
  <2>1. Commands \subseteq Seq(Byte) /\ Answers \subseteq Seq(Byte)
    BY CommandCases, AnswerCases
  <2>2. <<>> \in Seq(Byte)
    BY EmptySeq
  <2> QED
    BY <1>0, <2>1, <2>2, SeqMonotonic DEF WireInv
<1>2. /\ DOMAIN stmts' \subseteq Nat /\ \A id \in DOMAIN stmts' : stmts'[id] \in Sqls
      /\ {prepareSql, checked}' \subseteq Sqls \cup {Nothing}
      /\ orphaned' \subseteq Nat
  <2>1. CASE HandleUp
    <3> DEFINE m == Head(toProxy)
    <3>1. m \in Commands
      BY <2>1, HandleUpQueues
    <3>2. /\ prepareSql' \in {ExtractPrepareSQL(m), prepareSql}
          /\ checked' \in {checked, Lookup(ExtractStmtExecuteID(m))}
          /\ stmts' = stmts \/ Delete(ExtractStmtCloseID(m))
          /\ orphaned' \subseteq orphaned
      BY <2>1 DEF HandleUp
    <3>3. ExtractPrepareSQL(m) \in Sqls \cup {Nothing}
      BY <3>1, CommandCases
    <3> HIDE DEF m
    <3> QED
      BY <3>2, <3>3 DEF TypeOK, Lookup, Delete, Restrict
  <2>2. CASE HandleDown
    <3> DEFINE m == Head(fromServer)
               id == IF prepareSql = Nothing THEN Nothing ELSE ParseStmtPrepareOK(m)
    <3>1. m \in Answers
      BY <2>2, HandleDownQueues
    <3>2. id = Nothing \/ (id \in Ids /\ prepareSql \in Sqls)
      BY <3>1, AnswerCases DEF TypeOK
    <3>3. /\ IF id = Nothing THEN stmts' = stmts ELSE Register(id, prepareSql)
          /\ orphaned' = orphaned \ {id} /\ prepareSql' = Nothing /\ checked' = checked
      BY <2>2 DEF HandleDown
    <3> HIDE DEF id
    <3>4. CASE id = Nothing
      BY <3>3, <3>4 DEF TypeOK
    <3>5. CASE id # Nothing
      <4>1. id \in Nat /\ prepareSql \in Sqls
        BY <1>0, <3>2, <3>5
      <4>2. stmts' = [i \in DOMAIN stmts \cup {id} |-> IF i = id THEN prepareSql ELSE stmts[i]]
        BY <3>3, <3>5 DEF Register
      <4> QED
        BY <3>3, <4>1, <4>2 DEF TypeOK
    <3> QED
      BY <3>4, <3>5
  <2>3. CASE Serve
    <3>1. orphaned' \subseteq orphaned \cup DOMAIN stmts
      BY <2>3 DEF Serve, Refused, Prepared, Executed, Closed, Forgotten
    <3> QED
      BY <2>3, <3>1 DEF Serve, proxyVars, TypeOK
  <2>4. CASE UNCHANGED <<stmts, prepareSql, checked, orphaned>>
    BY <2>4 DEF TypeOK
  <2> QED
    BY <2>1, <2>2, <2>3, <2>4
       DEF Next, ForwardUp, ForwardDown, SendCommand, SendClose, SendReset, Send, Receive, Quiet,
           proxyVars, vars
<1>3. known' \subseteq Ids /\ busy' \in BOOLEAN /\ sends' \in 0 .. MaxSends
  <2>1. CASE SendCommand \/ SendClose \/ SendReset
    <3>1. sends < MaxSends /\ sends' = sends + 1
      BY <2>1, Zenon DEF SendCommand, SendClose, SendReset, Send
    <3>2. known' \subseteq Ids /\ busy' \in BOOLEAN
      BY <2>1 DEF SendCommand, SendClose, SendReset, TypeOK
    <3> QED
      BY <1>0, <3>1, <3>2 DEF TypeOK
  <2>2. CASE Receive
    BY <2>2 DEF Receive, TypeOK
  <2>3. CASE UNCHANGED <<known, busy, sends>>
    BY <2>3 DEF TypeOK
  <2> QED
    BY <2>1, <2>2, <2>3
       DEF Next, HandleUp, ForwardUp, HandleDown, ForwardDown, Serve, Quiet, clientVars, vars
<1>4. /\ DOMAIN open' \subseteq Ids /\ \A id \in DOMAIN open' : open'[id] \in Sqls
      /\ runs' \subseteq [checked : Sqls \cup {Nothing}, ran : Sqls]
  <2>1. CASE Serve
    <3> DEFINE m == Head(toServer)
    <3>1. Refused(m) \/ Prepared(m) \/ Executed(m) \/ Closed(m) \/ Forgotten(m)
      BY <2>1 DEF Serve
    <3> HIDE DEF m
    <3>2. CASE Refused(m)
      BY <3>2 DEF Refused, TypeOK
    <3>3. CASE Prepared(m)
      BY <3>3 DEF Prepared, TypeOK
    <3>4. CASE Executed(m)
      BY <3>4 DEF Executed, TypeOK
    <3>5. CASE Closed(m)
      BY <3>5 DEF Closed, TypeOK, Restrict
    <3>6. CASE Forgotten(m)
      BY <3>6 DEF Forgotten, TypeOK
    <3> QED
      BY <3>1, <3>2, <3>3, <3>4, <3>5, <3>6
  <2>2. CASE UNCHANGED <<open, runs>>
    BY <2>2 DEF TypeOK
  <2> QED
    BY <2>1, <2>2
       DEF Next, HandleUp, ForwardUp, HandleDown, ForwardDown, SendCommand, SendClose, SendReset, Send,
           Receive, Quiet, serverVars, vars
<1> QED
  BY <1>1, <1>2, <1>3, <1>4 DEF TypeOK

(***************************************************************************)
(* Every step keeps FlowInv.                                               *)
(***************************************************************************)

(* FlowInv is about these alone.                                           *)
LEMMA SameFlow ==
  ASSUME FlowInv,
         UNCHANGED <<Handled, Upward, Downward, fromServer, known, busy, open, stmts, prepareSql,
                     checked, orphaned, runs>>
  PROVE  FlowInv'
<1> USE DEF Has
<1>1. OneAtATime' /\ ClosesInv'
  BY DEF FlowInv, OneAtATime, ClosesInv
<1>2. PrepareInv' /\ RegistryInv'
  BY DEF FlowInv, PrepareInv, RegistryInv
<1>3. CheckInv' /\ FollowsServer' /\ ChecksWhatRuns'
  BY DEF FlowInv, CheckInv, FollowsServer, ChecksWhatRuns
<1> QED
  BY <1>1, <1>2, <1>3 DEF FlowInv

(* Beside a command that is answered only closes are on their way.         *)
LEMMA OnlyCloses ==
  ASSUME WireInv, OneAtATime, NEW k \in DOMAIN Upward, Upward[k] \notin Closes
  PROVE  /\ busy /\ Downward = <<>> /\ fromServer = <<>>
         /\ \A i \in DOMAIN Upward : i # k => Upward[i] \in Closes
         /\ \A m : ~Has(fromServer, m) /\ ~Has(Downward, m)
<1>1. busy /\ Downward = <<>>
  BY DEF OneAtATime
<1>2. fromServer = <<>>
  BY <1>1, Queues, EmptySeq
<1>3. \A i \in DOMAIN Upward : i # k => Upward[i] \in Closes
  BY DEF OneAtATime
<1>4. DOMAIN <<>> = {}
  OBVIOUS
<1> QED
  BY <1>1, <1>2, <1>3, <1>4 DEF Has

LEMMA HandleUpStep ==
  ASSUME IInv, HandleUp
  PROVE  FlowInv'
<1> DEFINE m == Head(toProxy)
           n == Len(Handled) + 1
           closed == ExtractStmtCloseID(m)
           executed == ExtractStmtExecuteID(m)
<1>0. TypeOK /\ WireInv /\ OneAtATime /\ ClosesInv /\ PrepareInv /\ RegistryInv /\ CheckInv
      /\ FollowsServer /\ ChecksWhatRuns
  BY DEF IInv, FlowInv
<1>1. /\ m \in Commands /\ Len(toProxy) > 0 /\ Handled' = Append(Handled, m) /\ Upward' = Upward
      /\ Upward[n] = m /\ UNCHANGED <<Downward, fromServer>>
  BY <1>0, HandleUpQueues
<1>2. /\ prepareSql' = IF closed = Nothing THEN ExtractPrepareSQL(m) ELSE prepareSql
      /\ checked' = IF executed = Nothing THEN checked ELSE Lookup(executed)
      /\ IF closed = Nothing THEN stmts' = stmts ELSE Delete(closed)
      /\ orphaned' = orphaned \ {closed}
      /\ UNCHANGED <<known, busy, sends, open, runs>>
  BY DEF HandleUp, clientVars, serverVars
<1>3. /\ Handled \in Seq(Commands) /\ Upward \in Seq(Commands) /\ Len(Handled) \in Nat
      /\ n \in DOMAIN Upward
      /\ \A i \in 1 .. Len(Handled) : i \in DOMAIN Upward /\ Upward[i] = Handled[i] /\ i # n
  BY <1>0, <1>1, Queues
<1>4. /\ DOMAIN Handled = 1 .. Len(Handled) /\ DOMAIN Handled' = 1 .. n /\ Handled'[n] = m
      /\ \A i \in 1 .. Len(Handled) : Handled'[i] = Handled[i]
  BY <1>1, <1>3, AppendProperties
<1>5. \A x : Has(Handled', x) <=> Has(Handled, x) \/ x = m
  BY <1>1, <1>3, HasAppend
<1>6. m \notin Closes => /\ closed = Nothing /\ fromServer = <<>>
                        /\ \A x : ~Has(fromServer, x)
                        /\ \A i \in 1 .. Len(Handled) : Handled[i] \in Closes
  BY <1>0, <1>1, <1>3, OnlyCloses, CommandCases
<1>7. m \in Closes => closed \in Ids /\ closed # Nothing /\ m = CloseCmd(closed) /\ executed = Nothing
  BY <1>1, CommandCases, StatementsAssumption
<1>8. /\ \A id \in Ids : m = ExecuteCmd(id) => executed = id /\ m \notin Closes /\ id # Nothing
      /\ \A s \in Sqls : m = PrepareCmd(s) => ExtractPrepareSQL(m) = s /\ m \notin Closes
      /\ \A id \in Ids : m = CloseCmd(id) => m \in Closes /\ closed = id
  <2>1. \A id \in Ids : id # Nothing
    BY StatementsAssumption
  <2>2. \A id \in Ids : m = ExecuteCmd(id) => executed = id /\ m \notin Closes
    BY <1>1, CommandCases, Kinds
  <2>3. \A s \in Sqls : m = PrepareCmd(s) => ExtractPrepareSQL(m) = s /\ m \notin Closes
    BY <1>1, CommandCases, Kinds
  <2>4. \A id \in Ids : m = CloseCmd(id) => m \in Closes /\ closed = id
    BY <1>7, Kinds
  <2> QED
    BY <2>1, <2>2, <2>3, <2>4
<1>9. /\ DOMAIN stmts' = DOMAIN stmts \ {closed}
      /\ \A id \in DOMAIN stmts' : stmts'[id] = stmts[id]
  <2>1. CASE closed = Nothing
    <3>1. Nothing \notin DOMAIN stmts
      BY <1>0, StatementsAssumption DEF TypeOK
    <3> QED
      BY <1>2, <2>1, <3>1
  <2>2. CASE closed # Nothing
    BY <1>2, <2>2 DEF Delete, Restrict
  <2> QED
    BY <2>1, <2>2
<1> HIDE DEF m, n, closed, executed
<1>10. OneAtATime'
  BY <1>0, <1>1, <1>2 DEF OneAtATime
<1>11. ClosesInv'
  BY <1>0, <1>1, <1>2 DEF ClosesInv, Has
<1>12. PrepareInv'
  <2>1. ASSUME NEW s \in Sqls, Has(Handled', PrepareCmd(s)) PROVE prepareSql' = s
    <3>1. CASE m = PrepareCmd(s)
      BY <1>2, <1>6, <1>8, <3>1
    <3>2. CASE Has(Handled, PrepareCmd(s))
      <4>1. PICK i \in 1 .. Len(Handled) : Handled[i] = PrepareCmd(s)
        BY <1>4, <3>2 DEF Has
      <4>2. m \in Closes
        BY <1>6, <4>1, Kinds
      <4> QED
        BY <1>0, <1>2, <1>7, <3>2, <4>2 DEF PrepareInv
    <3> QED
      BY <1>5, <2>1, <3>1, <3>2
  <2>2. ASSUME NEW id \in Ids, Has(fromServer, PrepareOK(id)) PROVE prepareSql' = open'[id]
    <3>1. m \in Closes
      BY <1>6, <2>2
    <3> QED
      BY <1>0, <1>2, <1>7, <2>2, <3>1 DEF PrepareInv
  <2> QED
    BY <1>0, <1>1, <1>2, <2>1, <2>2 DEF PrepareInv, Has
<1>13. RegistryInv'
  <2>1. ASSUME NEW id \in DOMAIN open
        PROVE  \/ id \in DOMAIN stmts' /\ stmts'[id] = open[id]
               \/ Has(Handled', CloseCmd(id))
               \/ Has(fromServer, PrepareOK(id))
    <3>1. CASE id \in DOMAIN stmts /\ stmts[id] = open[id]
      <4>1. CASE id = closed
        <5>1. id # Nothing
          BY <1>0, StatementsAssumption DEF TypeOK
        <5> QED
          BY <1>5, <1>6, <1>7, <4>1, <5>1
      <4>2. CASE id # closed
        BY <1>9, <3>1, <4>2
      <4> QED
        BY <4>1, <4>2
    <3> QED
      BY <1>0, <1>5, <3>1 DEF RegistryInv
  <2>2. ASSUME NEW id \in Ids, Has(Handled', CloseCmd(id)) PROVE id \notin DOMAIN stmts'
    BY <1>0, <1>5, <1>8, <1>9, <2>2 DEF RegistryInv
  <2> QED
    BY <1>1, <1>2, <2>1, <2>2 DEF RegistryInv, Has
<1>14. CheckInv'
  <2> SUFFICES ASSUME NEW i \in 1 .. n, NEW id \in DOMAIN open, Handled'[i] = ExecuteCmd(id)
               PROVE  \/ checked' = open[id]
                      \/ \E j \in 1 .. i - 1 : Handled'[j] = CloseCmd(id)
    BY <1>2, <1>4 DEF CheckInv
  <2>0. id \in Ids
    BY <1>0 DEF TypeOK
  <2>1. CASE i = n
    <3>1. executed = id /\ m \notin Closes /\ id # Nothing
      BY <1>4, <1>8, <2>0, <2>1
    <3>2. CASE id \in DOMAIN stmts /\ stmts[id] = open[id]
      BY <1>2, <3>1, <3>2 DEF Lookup
    <3>3. CASE Has(Handled, CloseCmd(id))
      <4>1. PICK j \in 1 .. Len(Handled) : Handled[j] = CloseCmd(id)
        BY <1>4, <3>3 DEF Has
      <4>2. j \in 1 .. i - 1
        BY <1>3, <2>1 DEF n
      <4> QED
        BY <1>4, <4>1, <4>2
    <3> QED
      BY <1>0, <1>6, <3>1, <3>2, <3>3 DEF RegistryInv
  <2>2. CASE i # n
    <3>1. i \in 1 .. Len(Handled)
      BY <1>3, <2>2 DEF n
    <3>2. m \in Closes
      BY <1>4, <1>6, <2>0, <3>1, Kinds
    <3>3. checked' = checked
      BY <1>2, <1>7, <3>2
    <3>4. checked = open[id] \/ \E j \in 1 .. i - 1 : Handled[j] = CloseCmd(id)
      BY <1>0, <1>4, <3>1 DEF CheckInv
    <3>5. \A j \in 1 .. i - 1 : j \in 1 .. Len(Handled)
      BY <1>3, <3>1
    <3> QED
      BY <1>4, <3>3, <3>4, <3>5
  <2> QED
    BY <2>1, <2>2
<1>15. FollowsServer' /\ ChecksWhatRuns'
  BY <1>0, <1>2, <1>9 DEF FollowsServer, ChecksWhatRuns
<1> QED
  BY <1>10, <1>11, <1>12, <1>13, <1>14, <1>15 DEF FlowInv

LEMMA HandleDownStep ==
  ASSUME IInv, HandleDown
  PROVE  FlowInv'
<1> DEFINE m == Head(fromServer)
           id == IF prepareSql = Nothing THEN Nothing ELSE ParseStmtPrepareOK(m)
<1>0. TypeOK /\ WireInv /\ OneAtATime /\ ClosesInv /\ PrepareInv /\ RegistryInv /\ CheckInv
      /\ FollowsServer /\ ChecksWhatRuns
  BY DEF IInv, FlowInv
<1>1. /\ m \in Answers /\ fromServer # <<>> /\ fromServer' = Tail(fromServer)
      /\ UNCHANGED <<Handled, Upward, Downward>>
  BY <1>0, HandleDownQueues
<1>2. /\ IF id = Nothing THEN stmts' = stmts ELSE Register(id, prepareSql)
      /\ orphaned' = orphaned \ {id}
      /\ UNCHANGED <<checked, known, busy, sends, open, runs>>
  BY DEF HandleDown, clientVars, serverVars
<1>3. fromServer \in Seq(Answers) /\ Len(fromServer) = 1 /\ Downward # <<>>
  <2>1. fromServer \in Seq(Answers) /\ Len(fromServer) \in Nat /\ Len(fromServer) # 0
        /\ Len(Returned) \in Nat /\ Len(Downward) = Len(Returned) + Len(fromServer)
        /\ Downward \in Seq(Answers)
    BY <1>0, <1>1, Queues, EmptySeq
  <2>2. Len(Downward) <= 1
    BY <1>0 DEF OneAtATime
  <2>3. \A a, b \in Nat : b # 0 /\ a + b <= 1 => b = 1 /\ a + b # 0
    OBVIOUS
  <2>4. Len(fromServer) = 1 /\ Len(Downward) # 0
    BY <2>1, <2>2, <2>3
  <2> QED
    BY <2>1, <2>4, EmptySeq
<1>4. (\A x : ~Has(Tail(fromServer), x)) /\ \A x : Has(fromServer, x) <=> x = m
  <2>1. DOMAIN Tail(fromServer) = {}
    BY <1>1, <1>3, HeadTailProperties
  <2>2. \A x : ~Has(Tail(fromServer), x)
    BY <2>1 DEF Has
  <2> QED
    BY <1>1, <1>3, <2>2, HasTail
<1>5. \A k \in DOMAIN Upward : Upward[k] \in Closes
  BY <1>0, <1>3 DEF OneAtATime
<1>6. \A x : /\ Has(Handled, x) => x \in Closes /\ Has(Upward, x)
             /\ Has(fromServer, x) => Has(Downward, x)
  <2>1. \A x : Has(Upward, x) => x \in Closes
    BY <1>5 DEF Has
  <2> QED
    BY <1>0, <2>1, Queues
<1>7. id # Nothing => /\ id \in DOMAIN open /\ open[id] = prepareSql
                      /\ ~Has(Upward, CloseCmd(id))
  <2> SUFFICES ASSUME id # Nothing
               PROVE  id \in DOMAIN open /\ open[id] = prepareSql /\ ~Has(Upward, CloseCmd(id))
    OBVIOUS
  <2>1. id \in Ids /\ m = PrepareOK(id)
    BY <1>1, AnswerCases
  <2>2. Has(fromServer, PrepareOK(id)) /\ Has(Downward, PrepareOK(id))
    BY <1>4, <1>6, <2>1
  <2> QED
    BY <1>0, <2>1, <2>2 DEF PrepareInv
<1>8. \A i \in DOMAIN open : m = PrepareOK(i) => id = i /\ id # Nothing
  <2> SUFFICES ASSUME NEW i \in DOMAIN open, m = PrepareOK(i)
               PROVE  id = i /\ id # Nothing
    OBVIOUS
  <2>1. i \in Ids /\ open[i] \in Sqls /\ Nothing \notin Sqls /\ Nothing \notin Ids
    BY <1>0, StatementsAssumption DEF TypeOK
  <2>2. ParseStmtPrepareOK(m) = i
    BY <1>1, <2>1, AnswerCases
  <2>3. prepareSql = open[i]
    BY <1>0, <1>4, <2>1 DEF PrepareInv
  <2> QED
    BY <2>1, <2>2, <2>3
<1>9. /\ DOMAIN stmts' = DOMAIN stmts \cup ({id} \ {Nothing})
      /\ \A i \in DOMAIN stmts' : stmts'[i] = IF i = id THEN prepareSql ELSE stmts[i]
  <2>1. CASE id = Nothing
    <3>1. Nothing \notin DOMAIN stmts
      BY <1>0, StatementsAssumption DEF TypeOK
    <3> QED
      BY <1>2, <2>1, <3>1
  <2>2. CASE id # Nothing
    BY <1>2, <2>2 DEF Register
  <2> QED
    BY <2>1, <2>2
<1> HIDE DEF m, id
<1>10. OneAtATime' /\ ClosesInv'
  BY <1>0, <1>1, <1>2 DEF OneAtATime, ClosesInv, Has
<1>11. PrepareInv'
  <2>1. \A s \in Sqls : ~Has(Handled, PrepareCmd(s))
    BY <1>6, Kinds
  <2>2. \A x : ~Has(fromServer', x)
    BY <1>1, <1>4
  <2> QED
    BY <1>0, <1>1, <1>2, <2>1, <2>2 DEF PrepareInv, Has
<1>12. RegistryInv'
  <2>1. ASSUME NEW i \in DOMAIN open
        PROVE  (i \in DOMAIN stmts' /\ stmts'[i] = open[i]) \/ Has(Handled, CloseCmd(i))
    <3>1. CASE i \in DOMAIN stmts /\ stmts[i] = open[i]
      <4>1. i # Nothing
        BY <1>0, StatementsAssumption DEF TypeOK
      <4> QED
        BY <1>7, <1>9, <3>1, <4>1
    <3>2. CASE Has(fromServer, PrepareOK(i))
      BY <1>4, <1>7, <1>8, <1>9, <3>2
    <3> QED
      BY <1>0, <3>1, <3>2 DEF RegistryInv
  <2>2. ASSUME NEW i \in Ids, Has(Handled, CloseCmd(i)) PROVE i \notin DOMAIN stmts'
    BY <1>0, <1>6, <1>7, <1>9, <2>2 DEF RegistryInv
  <2> QED
    BY <1>1, <1>2, <2>1, <2>2 DEF RegistryInv, Has
<1>13. CheckInv' /\ ChecksWhatRuns'
  BY <1>0, <1>1, <1>2 DEF CheckInv, ChecksWhatRuns
<1>14. FollowsServer'
  <2> SUFFICES ASSUME NEW i \in DOMAIN stmts'
               PROVE  i \in orphaned' \/ (i \in DOMAIN open' /\ open'[i] = stmts'[i])
    BY DEF FollowsServer
  <2>1. CASE i = id
    <3>1. Nothing \notin DOMAIN stmts
      BY <1>0, StatementsAssumption DEF TypeOK
    <3> QED
      BY <1>2, <1>7, <1>9, <2>1, <3>1
  <2>2. CASE i # id
    BY <1>0, <1>2, <1>9, <2>2 DEF FollowsServer
  <2> QED
    BY <2>1, <2>2
<1> QED
  BY <1>10, <1>11, <1>12, <1>13, <1>14 DEF FlowInv

(***************************************************************************)
(* The client sends a command that is answered, when nothing but closes is *)
(* on its way, or closes a statement it knows.                             *)
(***************************************************************************)
LEMMA SendStep ==
  ASSUME IInv, NEW m \in Commands, Send(m),
         \/ m \notin Closes /\ ~busy /\ busy' /\ known' = (IF m = ResetCmd THEN {} ELSE known)
         \/ \E id \in known : m = CloseCmd(id) /\ known' = known \ {id} /\ busy' = busy
  PROVE  FlowInv'
<1> DEFINE n == Len(Upward) + 1
<1>0. TypeOK /\ WireInv /\ OneAtATime /\ ClosesInv /\ PrepareInv /\ RegistryInv /\ CheckInv
      /\ FollowsServer /\ ChecksWhatRuns
  BY DEF IInv, FlowInv
<1>1. /\ Upward' = Append(Upward, m)
      /\ UNCHANGED <<Handled, Downward, fromServer>>
  BY <1>0, SendQueues
<1>2. UNCHANGED <<stmts, prepareSql, checked, open, runs, orphaned>>
  BY DEF Send, proxyVars, serverVars
<1>3. /\ Upward \in Seq(Commands) /\ Len(Upward) \in Nat
      /\ DOMAIN Upward = 1 .. Len(Upward) /\ DOMAIN Upward' = 1 .. n /\ Upward'[n] = m
      /\ \A i \in 1 .. Len(Upward) : Upward'[i] = Upward[i]
  BY <1>0, <1>1, Queues, AppendProperties
<1>4. /\ \A x : Has(Upward', x) <=> Has(Upward, x) \/ x = m
      /\ \A x : Has(Handled, x) => Has(Upward, x)
  BY <1>0, <1>1, <1>3, HasAppend, Queues
<1>5. known' \subseteq known
  OBVIOUS
<1>6. ~busy => Downward = <<>> /\ \A i \in DOMAIN Upward : Upward[i] \in Closes
  BY <1>0 DEF OneAtATime
<1>7. \A i \in 1 .. n : i = n \/ i \in 1 .. Len(Upward)
  BY <1>3
<1> HIDE DEF n
<1>10. OneAtATime'
  <2>1. CASE m \notin Closes /\ ~busy /\ busy'
    BY <1>0, <1>1, <1>3, <1>6, <1>7, <2>1 DEF OneAtATime
  <2>2. CASE m \in Closes /\ busy' = busy
    BY <1>0, <1>1, <1>3, <1>7, <2>2 DEF OneAtATime
  <2> QED
    BY <2>1, <2>2, Kinds, <1>0 DEF TypeOK
<1>11. ClosesInv'
  <2>1. ASSUME NEW id \in Ids, m = CloseCmd(id)
        PROVE  id \in known /\ known' = known \ {id} /\ ~Has(Upward, CloseCmd(id))
               /\ ~Has(Upward, ResetCmd)
    <3>1. id \in known /\ known' = known \ {id}
      BY <1>0, <2>1, Kinds DEF TypeOK
    <3> QED
      BY <1>0, <2>1, <3>1 DEF ClosesInv, Has
  <2>2. ASSUME NEW i \in 1 .. n, NEW id \in Ids, Upward'[i] = CloseCmd(id)
        PROVE  /\ id \in DOMAIN open \ known'
               /\ \A j \in 1 .. n : Upward'[j] = CloseCmd(id) => i = j
               /\ \A j \in 1 .. n : Upward'[j] = ResetCmd => i < j
    <3>1. CASE i = n
      BY <1>0, <1>3, <1>7, <2>1, <2>2, <3>1, Kinds DEF ClosesInv, Has
    <3>2. CASE i \in 1 .. Len(Upward)
      <4>1. Upward[i] = CloseCmd(id) /\ Has(Upward, CloseCmd(id))
        BY <1>3, <2>2, <3>2 DEF Has
      <4>2. id \in DOMAIN open \ known'
        BY <1>0, <1>3, <1>5, <3>2, <4>1 DEF ClosesInv
      <4>3. m # CloseCmd(id)
        BY <2>1, <4>1
      <4>4. i < n
        BY <1>3, <3>2 DEF n
      <4> QED
        BY <1>0, <1>3, <1>7, <3>2, <4>1, <4>2, <4>3, <4>4 DEF ClosesInv
    <3> QED
      BY <1>7, <3>1, <3>2
  <2>3. Has(Upward', ResetCmd) => known' = {}
    <3>1. m = ResetCmd => known' = {}
      BY <1>0, Kinds DEF TypeOK
    <3> QED
      BY <1>0, <1>4, <1>5, <3>1 DEF ClosesInv
  <2> QED
    BY <1>0, <1>2, <1>3, <1>5, <2>2, <2>3 DEF ClosesInv
<1>12. PrepareInv'
  <2>1. ASSUME NEW id \in Ids, Has(Downward, PrepareOK(id))
        PROVE  id \in DOMAIN open \ known' /\ ~Has(Upward', CloseCmd(id))
    <3>1. id \in DOMAIN open \ known /\ ~Has(Upward, CloseCmd(id))
      BY <1>0, <2>1 DEF PrepareInv
    <3>2. m # CloseCmd(id)
      BY <1>0, <3>1, Kinds DEF TypeOK
    <3> QED
      BY <1>4, <1>5, <3>1, <3>2
  <2> QED
    BY <1>0, <1>1, <1>2, <2>1 DEF PrepareInv, Has
<1>13. RegistryInv' /\ CheckInv' /\ FollowsServer' /\ ChecksWhatRuns'
  BY <1>0, <1>1, <1>2 DEF RegistryInv, CheckInv, FollowsServer, ChecksWhatRuns, Has
<1> QED
  BY <1>10, <1>11, <1>12, <1>13 DEF FlowInv

LEMMA ReceiveStep ==
  ASSUME IInv, Receive
  PROVE  FlowInv'
<1> DEFINE m == Head(toClient)
<1>0. TypeOK /\ WireInv /\ OneAtATime /\ ClosesInv /\ PrepareInv /\ RegistryInv /\ CheckInv
      /\ FollowsServer /\ ChecksWhatRuns
  BY DEF IInv, FlowInv
<1>1. /\ Downward' = Tail(Downward) /\ m = Head(Downward) /\ Downward # <<>>
      /\ UNCHANGED <<Handled, Upward, fromServer>>
  BY <1>0, ReceiveQueues
<1>2. /\ busy' = FALSE /\ known' = known \cup {id \in Ids : m = PrepareOK(id)}
      /\ UNCHANGED <<stmts, prepareSql, checked, open, runs, orphaned>>
  BY DEF Receive, proxyVars, serverVars
<1>3. Downward' \in Seq(Answers) /\ Len(Downward') = 0 /\ Has(Downward, m)
  <2>1. Downward \in Seq(Answers) /\ Len(Downward) = 1
    <3>1. Downward \in Seq(Answers) /\ Len(Downward) \in Nat /\ Len(Downward) # 0
      BY <1>0, <1>1, Queues, EmptySeq
    <3>2. Len(Downward) <= 1
      BY <1>0 DEF OneAtATime
    <3>3. \A a \in Nat : a # 0 /\ a <= 1 => a = 1
      OBVIOUS
    <3> QED
      BY <3>1, <3>2, <3>3
  <2>2. Has(Downward, m)
    BY <1>1, <2>1, HasTail
  <2>3. Tail(Downward) \in Seq(Answers) /\ Len(Tail(Downward)) = 0
    BY <1>1, <2>1, HeadTailProperties
  <2> QED
    BY <1>1, <2>2, <2>3
<1>4. Downward' = <<>> /\ \A x : ~Has(Downward', x)
  <2>1. Downward' = <<>> /\ DOMAIN Downward' = {}
    BY <1>3, EmptySeq
  <2> QED
    BY <2>1 DEF Has
<1>5. \A k \in DOMAIN Upward : Upward[k] \in Closes
  BY <1>0, <1>1 DEF OneAtATime
<1>6. \A id \in Ids : m = PrepareOK(id) => id \in DOMAIN open /\ ~Has(Upward, CloseCmd(id))
  BY <1>0, <1>3 DEF PrepareInv
<1> HIDE DEF m
<1>10. OneAtATime'
  BY <1>0, <1>1, <1>3, <1>4, <1>5 DEF OneAtATime
<1>11. ClosesInv'
  <2>1. ~Has(Upward, ResetCmd)
    BY <1>5, Kinds DEF Has
  <2>2. ASSUME NEW i \in DOMAIN Upward, NEW id \in Ids, Upward[i] = CloseCmd(id)
        PROVE  id \in DOMAIN open \ known'
    BY <1>0, <1>2, <1>6, <2>2 DEF ClosesInv, Has
  <2> QED
    BY <1>0, <1>1, <1>2, <1>6, <2>1, <2>2 DEF ClosesInv, Has
<1>12. PrepareInv'
  BY <1>0, <1>1, <1>2, <1>4 DEF PrepareInv, Has
<1>13. RegistryInv' /\ CheckInv' /\ FollowsServer' /\ ChecksWhatRuns'
  BY <1>0, <1>1, <1>2 DEF RegistryInv, CheckInv, FollowsServer, ChecksWhatRuns, Has
<1> QED
  BY <1>10, <1>11, <1>12, <1>13 DEF FlowInv

(* What a served command leaves in the queues.                             *)
LEMMA Served ==
  ASSUME WireInv, Serve
  PROVE  /\ Handled[1] = Head(toServer) /\ 1 \in DOMAIN Handled
         /\ Upward[1] = Head(toServer) /\ 1 \in DOMAIN Upward
         /\ \A i \in DOMAIN Handled' : /\ i + 1 \in DOMAIN Handled /\ i \in Nat /\ i > 0
                                       /\ Handled'[i] = Handled[i + 1]
         /\ \A i \in DOMAIN Upward' : /\ i + 1 \in DOMAIN Upward /\ i \in Nat /\ i > 0
                                      /\ Upward'[i] = Upward[i + 1]
         /\ \A i \in DOMAIN Handled : i \in Nat /\ (i = 1 \/ i - 1 \in DOMAIN Handled')
         /\ \A x : Has(Handled, x) <=> x = Head(toServer) \/ Has(Handled', x)
         /\ \A x : Has(Upward, x) <=> x = Head(toServer) \/ Has(Upward', x)
         /\ \A x : Has(Handled', x) => Has(Upward', x)
<1>1. /\ Handled' = Tail(Handled) /\ Upward' = Tail(Upward) /\ Handled # <<>> /\ Upward # <<>>
      /\ Head(Handled) = Head(toServer) /\ Head(Upward) = Head(toServer)
      /\ UNCHANGED toProxy
  BY ServeQueues
<1>2. Handled \in Seq(Commands) /\ Upward \in Seq(Commands) /\ toProxy \in Seq(Commands)
  BY Queues
<1>3. /\ Len(Handled) \in Nat /\ Len(Handled) > 0 /\ DOMAIN Handled = 1 .. Len(Handled)
      /\ DOMAIN Tail(Handled) = 1 .. Len(Handled) - 1
      /\ \A i \in 1 .. Len(Handled) - 1 : Tail(Handled)[i] = Handled[i + 1]
      /\ Handled[1] = Head(Handled)
  BY <1>1, <1>2, HeadTailProperties, EmptySeq
<1>4. /\ Len(Upward) \in Nat /\ Len(Upward) > 0 /\ DOMAIN Upward = 1 .. Len(Upward)
      /\ DOMAIN Tail(Upward) = 1 .. Len(Upward) - 1
      /\ \A i \in 1 .. Len(Upward) - 1 : Tail(Upward)[i] = Upward[i + 1]
      /\ Upward[1] = Head(Upward)
  BY <1>1, <1>2, HeadTailProperties, EmptySeq
<1>5. /\ \A x : Has(Handled, x) <=> x = Head(toServer) \/ Has(Handled', x)
      /\ \A x : Has(Upward, x) <=> x = Head(toServer) \/ Has(Upward', x)
  BY <1>1, <1>2, HasTail
<1>6. \A x : Has(Handled', x) => Has(Upward', x)
  <2>1. Tail(Handled) \in Seq(Commands)
    BY <1>1, <1>2, HeadTailProperties
  <2>2. Upward' = Tail(Handled) \o toProxy
    BY <1>1 DEF Upward
  <2>3. \A x : Has(Tail(Handled), x) => Has(Tail(Handled) \o toProxy, x)
    BY <1>2, <2>1, HasConcat
  <2> QED
    BY <1>1, <2>2, <2>3
<1>7. /\ Handled[1] = Head(toServer) /\ 1 \in DOMAIN Handled
      /\ Upward[1] = Head(toServer) /\ 1 \in DOMAIN Upward
  BY <1>1, <1>3, <1>4
<1>8. /\ \A i \in DOMAIN Handled' : /\ i + 1 \in DOMAIN Handled /\ i \in Nat /\ i > 0
                                    /\ Handled'[i] = Handled[i + 1]
      /\ \A i \in DOMAIN Handled : i \in Nat /\ (i = 1 \/ i - 1 \in DOMAIN Handled')
  BY <1>1, <1>3
<1>9. \A i \in DOMAIN Upward' : /\ i + 1 \in DOMAIN Upward /\ i \in Nat /\ i > 0
                                /\ Upward'[i] = Upward[i + 1]
  BY <1>1, <1>4
<1> QED
  BY <1>5, <1>6, <1>7, <1>8, <1>9

(* A close has no answer, and leaves the other statements alone.           *)
LEMMA ClosedStep ==
  ASSUME IInv, Serve, NEW c \in Ids, Head(toServer) = CloseCmd(c),
         open' = Restrict(open, DOMAIN open \ {c}), UNCHANGED <<fromServer, runs, orphaned>>
  PROVE  FlowInv'
<1>0. TypeOK /\ WireInv /\ OneAtATime /\ ClosesInv /\ PrepareInv /\ RegistryInv /\ CheckInv
      /\ FollowsServer /\ ChecksWhatRuns
  BY DEF IInv, FlowInv
<1>1. UNCHANGED <<stmts, prepareSql, checked, known, busy, Downward>>
  BY <1>0, ServeQueues DEF Downward
<1>2. /\ DOMAIN open' = DOMAIN open \ {c}
      /\ \A id \in DOMAIN open' : open'[id] = open[id]
  BY DEF Restrict
<1>3. \A id \in Ids : CloseCmd(id) = CloseCmd(c) => id = c
  BY Kinds
<1>4. Has(Handled, CloseCmd(c)) /\ Has(Upward, CloseCmd(c))
  BY <1>0, Served
<1>5. DOMAIN open \subseteq Ids
  BY <1>0 DEF TypeOK
<1>10. OneAtATime'
  <2>1. ASSUME NEW i \in DOMAIN Upward', NEW j \in DOMAIN Upward',
               Upward'[i] \notin Closes, Upward'[j] \notin Closes
        PROVE  i = j
    <3>1. i + 1 = j + 1 /\ i \in Nat /\ j \in Nat
      BY <1>0, <2>1, Served DEF OneAtATime
    <3> QED
      BY <3>1
  <2>2. \A i \in DOMAIN Upward' : Upward'[i] \notin Closes => busy /\ Downward = <<>>
    BY <1>0, Served DEF OneAtATime
  <2> QED
    BY <1>0, <1>1, <2>1, <2>2 DEF OneAtATime
<1>11. ClosesInv'
  <2>1. ASSUME NEW i \in DOMAIN Upward', NEW id \in Ids, Upward'[i] = CloseCmd(id)
        PROVE  /\ id \in DOMAIN open' \ known
               /\ \A j \in DOMAIN Upward' : Upward'[j] = CloseCmd(id) => i = j
               /\ \A j \in DOMAIN Upward' : Upward'[j] = ResetCmd => i < j
    <3>1. i + 1 \in DOMAIN Upward /\ i \in Nat /\ i > 0 /\ Upward[i + 1] = CloseCmd(id)
      BY <1>0, <2>1, Served
    <3>2. id # c
      <4>1. i + 1 # 1
        BY <3>1
      <4> QED
        BY <1>0, <3>1, <4>1, Served DEF ClosesInv
    <3>3. id \in DOMAIN open' \ known
      BY <1>0, <1>2, <3>1, <3>2 DEF ClosesInv
    <3>4. ASSUME NEW j \in DOMAIN Upward'
          PROVE  /\ Upward'[j] = CloseCmd(id) => i = j
                 /\ Upward'[j] = ResetCmd => i < j
      <4>1. j + 1 \in DOMAIN Upward /\ j \in Nat /\ Upward'[j] = Upward[j + 1]
        BY <1>0, <3>4, Served
      <4>2. /\ Upward'[j] = CloseCmd(id) => i + 1 = j + 1
            /\ Upward'[j] = ResetCmd => i + 1 < j + 1
        BY <1>0, <3>1, <4>1 DEF ClosesInv
      <4> QED
        BY <3>1, <4>1, <4>2
    <3> QED
      BY <3>3, <3>4
  <2>2. known \subseteq DOMAIN open'
    BY <1>0, <1>2, Served DEF ClosesInv
  <2>3. Has(Upward', ResetCmd) => known = {}
    BY <1>0, Served DEF ClosesInv
  <2> QED
    BY <1>1, <2>1, <2>2, <2>3 DEF ClosesInv
<1>12. PrepareInv'
  <2>1. ASSUME NEW s \in Sqls, Has(Handled', PrepareCmd(s)) PROVE prepareSql = s
    BY <1>0, <2>1, Served DEF PrepareInv
  <2>2. ASSUME NEW id \in Ids, Has(Downward, PrepareOK(id))
        PROVE  id \in DOMAIN open' \ known /\ ~Has(Upward', CloseCmd(id))
    BY <1>0, <1>2, <1>4, <2>2, Served DEF PrepareInv
  <2>3. ASSUME NEW id \in Ids, Has(fromServer, PrepareOK(id)) PROVE prepareSql = open'[id]
    <3>1. Has(Downward, PrepareOK(id))
      BY <1>0, <2>3, Queues
    <3> QED
      BY <1>0, <1>2, <2>2, <2>3, <3>1 DEF PrepareInv
  <2> QED
    BY <1>1, <2>1, <2>2, <2>3 DEF PrepareInv, Has
<1>13. RegistryInv'
  <2>1. ASSUME NEW id \in DOMAIN open'
        PROVE  \/ id \in DOMAIN stmts /\ stmts[id] = open'[id]
               \/ Has(Handled', CloseCmd(id))
               \/ Has(fromServer, PrepareOK(id))
    <3>1. id \in DOMAIN open /\ id # c /\ open'[id] = open[id] /\ id \in Ids
      BY <1>2, <1>5
    <3>2. Has(Handled, CloseCmd(id)) => Has(Handled', CloseCmd(id))
      BY <1>0, <1>3, <3>1, Served
    <3> QED
      BY <1>0, <3>1, <3>2 DEF RegistryInv
  <2>2. \A id \in Ids : Has(Handled', CloseCmd(id)) => id \notin DOMAIN stmts
    BY <1>0, Served DEF RegistryInv
  <2> QED
    BY <1>1, <2>1, <2>2 DEF RegistryInv, Has
<1>14. CheckInv'
  <2> SUFFICES ASSUME NEW i \in DOMAIN Handled', NEW id \in DOMAIN open', Handled'[i] = ExecuteCmd(id)
               PROVE  \/ checked = open'[id]
                      \/ \E j \in 1 .. i - 1 : Handled'[j] = CloseCmd(id)
    BY <1>1 DEF CheckInv
  <2>1. id \in DOMAIN open /\ id # c /\ open'[id] = open[id] /\ id \in Ids
    BY <1>2, <1>5
  <2>2. i + 1 \in DOMAIN Handled /\ i \in Nat /\ Handled[i + 1] = ExecuteCmd(id)
    BY <1>0, Served
  <2>3. CASE checked = open[id]
    BY <2>1, <2>3
  <2>4. ASSUME NEW j \in 1 .. i + 1 - 1, Handled[j] = CloseCmd(id)
        PROVE  \E k \in 1 .. i - 1 : Handled'[k] = CloseCmd(id)
    <3>1. j # 1
      BY <1>0, <1>3, <2>1, <2>4, Served
    <3>2. j - 1 \in 1 .. i - 1 /\ j \in Nat
      BY <2>2, <3>1
    <3>3. j \in DOMAIN Handled
      <4>1. DOMAIN Handled = 1 .. Len(Handled) /\ Len(Handled) \in Nat
        BY <1>0, Queues
      <4> QED
        BY <2>2, <4>1
    <3>4. j - 1 \in DOMAIN Handled'
      BY <1>0, <3>1, <3>3, Served
    <3>5. Handled'[j - 1] = Handled[j - 1 + 1]
      BY <1>0, <3>4, Served
    <3>6. j - 1 + 1 = j
      BY <3>2
    <3> QED
      BY <2>4, <3>2, <3>5, <3>6
  <2> QED
    BY <1>0, <2>1, <2>2, <2>3, <2>4 DEF CheckInv
<1>15. FollowsServer' /\ ChecksWhatRuns'
  <2>1. c \notin DOMAIN stmts
    BY <1>0, <1>4 DEF RegistryInv
  <2> QED
    BY <1>0, <1>1, <1>2, <2>1 DEF FollowsServer, ChecksWhatRuns
<1> QED
  BY <1>10, <1>11, <1>12, <1>13, <1>14, <1>15 DEF FlowInv

(* An answered command finds no other on its way, and no answer.           *)
LEMMA AnsweredQueues ==
  ASSUME IInv, Serve, Head(toServer) \notin Closes, NEW a \in Answers,
         fromServer' = Append(fromServer, a)
  PROVE  /\ UNCHANGED <<stmts, prepareSql, checked, known, busy>> /\ busy
         /\ \A i \in DOMAIN Upward' : Upward'[i] \in Closes
         /\ \A x : Has(Upward', x) => x \in Closes /\ Has(Upward, x)
         /\ \A x : Has(Handled', x) => x \in Closes /\ Has(Handled, x)
         /\ \A x \in Closes : Has(Handled, x) => Has(Handled', x)
         /\ \A x : ~Has(fromServer, x)
         /\ \A x : Has(fromServer', x) <=> x = a
         /\ \A x : Has(Downward', x) <=> x = a
         /\ OneAtATime' /\ CheckInv'
<1>0. WireInv /\ OneAtATime /\ TypeOK
  BY DEF IInv, FlowInv
<1>1. UNCHANGED <<stmts, prepareSql, checked, known, busy>> /\ Returned' = Returned
  BY <1>0, ServeQueues
<1>2. /\ busy /\ Downward = <<>> /\ fromServer = <<>>
      /\ \A i \in DOMAIN Upward : i # 1 => Upward[i] \in Closes
      /\ \A x : ~Has(fromServer, x)
  BY <1>0, OnlyCloses, Served
<1>3. \A i \in DOMAIN Upward' : Upward'[i] \in Closes
  <2> TAKE i \in DOMAIN Upward'
  <2>1. i + 1 \in DOMAIN Upward /\ i \in Nat /\ i > 0 /\ Upward'[i] = Upward[i + 1]
    BY <1>0, Served
  <2>2. i + 1 # 1
    BY <2>1
  <2> QED
    BY <1>2, <2>1, <2>2
<1>4. /\ \A x : Has(Upward', x) => x \in Closes /\ Has(Upward, x)
      /\ \A x : Has(Handled', x) => x \in Closes /\ Has(Handled, x)
      /\ \A x \in Closes : Has(Handled, x) => Has(Handled', x)
  <2>1. \A x : Has(Upward', x) => x \in Closes
    BY <1>3 DEF Has
  <2> QED
    BY <1>0, <2>1, Served
<1>5. /\ \A x : Has(fromServer', x) <=> x = a
      /\ \A x : Has(Downward', x) <=> x = a
      /\ Len(Downward') = 1
  <2>1. Returned = <<>>
    BY <1>0, <1>2, Queues, EmptySeq
  <2>2. fromServer' = <<a>> /\ Downward' = <<a>>
    BY <1>1, <1>2, <2>1 DEF Downward
  <2>3. \A x : Has(<<a>>, x) <=> x = a
    BY DEF Has
  <2>4. Len(<<a>>) = 1
    OBVIOUS
  <2> QED
    BY <2>2, <2>3, <2>4
<1>6. OneAtATime'
  BY <1>1, <1>2, <1>3, <1>5 DEF OneAtATime
<1>7. CheckInv'
  <2>1. WireInv' /\ TypeOK'
    BY WireStep, TypeStep DEF IInv, FlowInv, Next
  <2>2. ASSUME NEW i \in DOMAIN Handled', NEW id \in DOMAIN open' PROVE Handled'[i] # ExecuteCmd(id)
    <3>1. Handled'[i] \in Closes
      BY <1>4 DEF Has
    <3>2. id \in Ids
      BY <2>1 DEF TypeOK
    <3> QED
      BY <3>1, <3>2, Kinds
  <2> QED
    BY <2>2 DEF CheckInv
<1> QED
  BY <1>1, <1>2, <1>3, <1>4, <1>5, <1>6, <1>7

(* The closes that are left are closes of open statements, each once.      *)
LEMMA StillClosing ==
  ASSUME WireInv, ClosesInv, Serve, NEW i \in DOMAIN Upward', NEW id \in Ids, Upward'[i] = CloseCmd(id)
  PROVE  /\ id \in DOMAIN open \ known
         /\ \A j \in DOMAIN Upward' : Upward'[j] = CloseCmd(id) => i = j
<1>1. i + 1 \in DOMAIN Upward /\ i \in Nat /\ Upward[i + 1] = CloseCmd(id)
  BY Served
<1>2. ASSUME NEW j \in DOMAIN Upward', Upward'[j] = CloseCmd(id) PROVE i = j
  <2>1. j + 1 \in DOMAIN Upward /\ j \in Nat /\ Upward[j + 1] = CloseCmd(id)
    BY <1>2, Served
  <2>2. i + 1 = j + 1
    BY <1>1, <2>1 DEF ClosesInv
  <2> QED
    BY <1>1, <2>1, <2>2
<1> QED
  BY <1>1, <1>2 DEF ClosesInv

(* The server refuses a command or executes a statement.                   *)
LEMMA ExecutedStep ==
  ASSUME IInv, Serve, Head(toServer) \notin Closes, NEW a \in {ErrPacket, OKPacket},
         fromServer' = Append(fromServer, a), UNCHANGED <<open, orphaned>>,
         \/ runs' = runs
         \/ \E id \in DOMAIN open : /\ Head(toServer) = ExecuteCmd(id)
                                    /\ runs' = runs \cup {[checked |-> checked, ran |-> open[id]]}
  PROVE  FlowInv'
<1>0. WireInv /\ ClosesInv /\ PrepareInv /\ RegistryInv /\ CheckInv /\ FollowsServer /\ ChecksWhatRuns
  BY DEF IInv, FlowInv
<1>1. a \in Answers
  BY DEF Answers
<1>2. UNCHANGED <<stmts, prepareSql, checked, known, busy>> /\ OneAtATime' /\ CheckInv'
  BY <1>1, AnsweredQueues
<1>3. ClosesInv'
  <2>1. \A i \in DOMAIN Upward', id \in Ids : Upward'[i] = CloseCmd(id) =>
          /\ id \in DOMAIN open \ known
          /\ \A j \in DOMAIN Upward' : Upward'[j] = CloseCmd(id) => i = j
    BY <1>0, StillClosing
  <2>2. \A j \in DOMAIN Upward' : Upward'[j] # ResetCmd
    BY <1>1, AnsweredQueues, Kinds
  <2> QED
    BY <1>0, <1>2, <2>1, <2>2 DEF ClosesInv, Has
<1>4. PrepareInv'
  <2>1. \A s \in Sqls : ~Has(Handled', PrepareCmd(s))
    BY <1>1, AnsweredQueues, Kinds
  <2>2. \A id \in Ids : ~Has(Downward', PrepareOK(id)) /\ ~Has(fromServer', PrepareOK(id))
    BY <1>1, AnsweredQueues, Kinds
  <2> QED
    BY <2>1, <2>2 DEF PrepareInv, Has
<1>5. RegistryInv'
  <2>1. ASSUME NEW id \in DOMAIN open
        PROVE  (id \in DOMAIN stmts /\ stmts[id] = open[id]) \/ Has(Handled', CloseCmd(id))
    <3>1. CloseCmd(id) \in Closes
      BY DEF IInv, TypeOK, Closes
    <3> QED
      BY <1>0, <1>1, <3>1, AnsweredQueues DEF RegistryInv
  <2>2. \A id \in Ids : Has(Handled', CloseCmd(id)) => id \notin DOMAIN stmts
    BY <1>0, <1>1, AnsweredQueues DEF RegistryInv
  <2> QED
    BY <1>2, <2>1, <2>2 DEF RegistryInv, Has
<1>6. ChecksWhatRuns'
  <2>1. ASSUME NEW id \in DOMAIN open, Head(toServer) = ExecuteCmd(id) PROVE checked = open[id]
    <3>1. 1 \in DOMAIN Handled /\ Handled[1] = ExecuteCmd(id) /\ 1 .. 1 - 1 = {}
      BY <1>0, <2>1, Served
    <3> QED
      BY <1>0, <3>1 DEF CheckInv
  <2> QED
    BY <1>0, <2>1 DEF ChecksWhatRuns
<1>7. FollowsServer'
  BY <1>0, <1>2 DEF FollowsServer
<1> QED
  BY <1>2, <1>3, <1>4, <1>5, <1>6, <1>7 DEF FlowInv

(* The server prepares a statement, under an identifier it does not use.   *)
LEMMA PreparedStep ==
  ASSUME IInv, Serve, NEW s \in Sqls, NEW p \in Ids \ DOMAIN open,
         Head(toServer) = PrepareCmd(s),
         open' = [i \in DOMAIN open \cup {p} |-> IF i = p THEN s ELSE open[i]],
         fromServer' = Append(fromServer, PrepareOK(p)), UNCHANGED <<runs, orphaned>>
  PROVE  FlowInv'
<1>0. WireInv /\ ClosesInv /\ PrepareInv /\ RegistryInv /\ FollowsServer /\ ChecksWhatRuns /\ TypeOK
  BY DEF IInv, FlowInv
<1>1. PrepareOK(p) \in Answers /\ Head(toServer) \notin Closes
  BY Kinds DEF Answers
<1>2. UNCHANGED <<stmts, prepareSql, checked, known, busy>> /\ OneAtATime' /\ CheckInv'
  BY <1>1, AnsweredQueues
<1>3. /\ DOMAIN open' = DOMAIN open \cup {p} /\ open'[p] = s /\ p \notin DOMAIN open
      /\ \A id \in DOMAIN open : open'[id] = open[id] /\ id # p
  OBVIOUS
<1>4. ~Has(Upward, CloseCmd(p)) /\ p \notin known
  BY <1>0 DEF ClosesInv, Has
<1>5. ClosesInv'
  <2>1. \A i \in DOMAIN Upward', id \in Ids : Upward'[i] = CloseCmd(id) =>
          /\ id \in DOMAIN open \ known
          /\ \A j \in DOMAIN Upward' : Upward'[j] = CloseCmd(id) => i = j
    BY <1>0, StillClosing
  <2>2. \A j \in DOMAIN Upward' : Upward'[j] # ResetCmd
    BY <1>1, AnsweredQueues, Kinds
  <2> QED
    BY <1>0, <1>2, <1>3, <2>1, <2>2 DEF ClosesInv, Has
<1>6. PrepareInv'
  <2>1. \A t \in Sqls : ~Has(Handled', PrepareCmd(t))
    BY <1>1, AnsweredQueues, Kinds
  <2>2. \A id \in Ids : Has(Downward', PrepareOK(id)) \/ Has(fromServer', PrepareOK(id)) => id = p
    BY <1>1, AnsweredQueues, Kinds
  <2>3. ~Has(Upward', CloseCmd(p))
    BY <1>1, <1>4, AnsweredQueues
  <2>4. prepareSql = s
    BY <1>0, Served DEF PrepareInv
  <2> QED
    BY <1>2, <1>3, <1>4, <2>1, <2>2, <2>3, <2>4 DEF PrepareInv, Has
<1>7. RegistryInv'
  <2>1. ASSUME NEW id \in DOMAIN open'
        PROVE  \/ id \in DOMAIN stmts /\ stmts[id] = open'[id]
               \/ Has(Handled', CloseCmd(id))
               \/ Has(fromServer', PrepareOK(id))
    <3>1. CASE id = p
      BY <1>1, <3>1, AnsweredQueues
    <3>2. CASE id \in DOMAIN open
      <4>1. CloseCmd(id) \in Closes
        BY <1>0, <3>2 DEF TypeOK, Closes
      <4> QED
        BY <1>0, <1>1, <1>3, <3>2, <4>1, AnsweredQueues DEF RegistryInv
    <3> QED
      BY <1>3, <3>1, <3>2
  <2>2. \A id \in Ids : Has(Handled', CloseCmd(id)) => id \notin DOMAIN stmts
    BY <1>0, <1>1, AnsweredQueues DEF RegistryInv
  <2> QED
    BY <1>2, <2>1, <2>2 DEF RegistryInv, Has
<1>8. FollowsServer' /\ ChecksWhatRuns'
  BY <1>0, <1>2, <1>3 DEF FollowsServer, ChecksWhatRuns
<1> QED
  BY <1>2, <1>5, <1>6, <1>7, <1>8 DEF FlowInv

(* The server forgets all statements; no close is on its way.              *)
LEMMA ForgottenStep ==
  ASSUME IInv, Serve, Forgotten(Head(toServer))
  PROVE  FlowInv'
<1>0. WireInv /\ ClosesInv /\ RegistryInv /\ ChecksWhatRuns
  BY DEF IInv, FlowInv
<1>1. /\ Head(toServer) = ResetCmd /\ DOMAIN open' = {} /\ orphaned' = orphaned \cup DOMAIN stmts
      /\ fromServer' = Append(fromServer, OKPacket) /\ runs' = runs
  BY DEF Forgotten, Answer
<1>2. Head(toServer) \notin Closes /\ OKPacket \in Answers
  BY <1>1, Kinds DEF Answers
<1>3. UNCHANGED <<stmts, prepareSql, checked, known, busy>> /\ OneAtATime' /\ CheckInv'
  BY <1>1, <1>2, AnsweredQueues
<1>4. \A i \in DOMAIN Upward', id \in Ids : Upward'[i] # CloseCmd(id)
  <2> SUFFICES ASSUME NEW i \in DOMAIN Upward', NEW id \in Ids, Upward'[i] = CloseCmd(id)
               PROVE  FALSE
    OBVIOUS
  <2>1. i + 1 \in DOMAIN Upward /\ i \in Nat /\ i > 0 /\ Upward[i + 1] = CloseCmd(id)
    BY <1>0, Served
  <2>2. i + 1 < 1
    BY <1>0, <1>1, <2>1, Served DEF ClosesInv
  <2> QED
    BY <2>1, <2>2
<1>5. \A x : Has(Handled', x) => Has(Upward', x)
  BY <1>0, Served
<1>6. ClosesInv'
  <2>1. known = {}
    BY <1>0, <1>1, Served DEF ClosesInv
  <2> QED
    BY <1>3, <1>4, <2>1 DEF ClosesInv
<1>7. PrepareInv'
  <2>1. \A s \in Sqls : ~Has(Handled', PrepareCmd(s))
    BY <1>1, <1>2, AnsweredQueues, Kinds
  <2>2. \A id \in Ids : ~Has(Downward', PrepareOK(id)) /\ ~Has(fromServer', PrepareOK(id))
    BY <1>1, <1>2, AnsweredQueues, Kinds
  <2> QED
    BY <2>1, <2>2 DEF PrepareInv, Has
<1>8. RegistryInv'
  BY <1>1, <1>4, <1>5 DEF RegistryInv, Has
<1>9. FollowsServer' /\ ChecksWhatRuns'
  BY <1>0, <1>1, <1>3 DEF FollowsServer, ChecksWhatRuns
<1> QED
  BY <1>3, <1>6, <1>7, <1>8, <1>9 DEF FlowInv

(***************************************************************************)
(* The invariant and what follows from it.                                 *)
(***************************************************************************)
LEMMA IInvInit == Init => IInv
<1> SUFFICES ASSUME Init PROVE IInv
  OBVIOUS
<1> DEFINE none == <<>>
<1>1. none \in Seq(Byte) /\ none \in Seq(Seq(Byte)) /\ none \in Seq(Commands) /\ none \in Seq(Answers)
      /\ Len(none) = 0 /\ DOMAIN none = {} /\ none \o none = none
  BY EmptySeq, ConcatEmptySeq
<1>2. /\ stmts = none /\ open = none /\ toProxy = none /\ toServer = none /\ fromServer = none
      /\ toClient = none /\ up = none /\ down = none
      /\ prepareSql = Nothing /\ checked = Nothing /\ known = {} /\ busy = FALSE /\ sends = 0
      /\ runs = {} /\ orphaned = {}
  BY DEF Init
<1>3. Handled = none /\ Upward = none /\ Downward = none
  BY <1>1, <1>2 DEF Handled, Upward, Returned, Downward
<1>4. MaxSends \in Nat
  BY StatementsAssumption
<1> HIDE DEF none
<1>5. TypeOK
  <2>0. busy \in BOOLEAN
    BY <1>2, Zenon
  <2>1. sends \in 0 .. MaxSends
    BY <1>2, <1>4
  <2>2. /\ DOMAIN stmts \subseteq Nat /\ \A id \in DOMAIN stmts : stmts[id] \in Sqls
        /\ DOMAIN open \subseteq Ids /\ \A id \in DOMAIN open : open[id] \in Sqls
    BY <1>1, <1>2
  <2>3. {up, down} \subseteq Seq(Byte) /\ {toProxy, toServer, fromServer, toClient} \subseteq Seq(Seq(Byte))
    BY <1>1, <1>2
  <2> QED
    BY <1>2, <2>0, <2>1, <2>2, <2>3 DEF TypeOK
<1>6. WireInv
  BY <1>1, <1>2 DEF WireInv, none
<1>7. FlowInv
  <2>1. OneAtATime /\ ClosesInv
    BY <1>1, <1>2, <1>3 DEF OneAtATime, ClosesInv, Has, none
  <2>2. PrepareInv /\ RegistryInv
    BY <1>1, <1>2, <1>3 DEF PrepareInv, RegistryInv, Has
  <2>3. CheckInv /\ FollowsServer /\ ChecksWhatRuns
    BY <1>1, <1>2, <1>3 DEF CheckInv, FollowsServer, ChecksWhatRuns
  <2> QED
    BY <2>1, <2>2, <2>3 DEF FlowInv
<1> QED
  BY <1>5, <1>6, <1>7 DEF IInv

LEMMA IInvStep == IInv /\ [Next]_vars => IInv'
<1> SUFFICES ASSUME IInv, [Next]_vars PROVE IInv'
  OBVIOUS
<1>1. TypeOK' /\ WireInv'
  BY WireStep, TypeStep DEF IInv, FlowInv
<1>2. FlowInv'
  <2>1. CASE HandleUp
    BY <2>1, HandleUpStep
  <2>2. CASE HandleDown
    BY <2>2, HandleDownStep
  <2>3. CASE ForwardUp \/ ForwardDown
    <3>1. UNCHANGED <<known, busy, open, stmts, prepareSql, checked, orphaned, runs>>
      BY <2>3 DEF ForwardUp, ForwardDown, clientVars, serverVars
    <3> QED
      BY <2>3, <3>1, ForwardQueues, SameFlow DEF IInv
  <2>4. CASE SendCommand
    <3>1. PICK m \in {PrepareCmd(s) : s \in Sqls} \cup {ExecuteCmd(id) : id \in Ids} \cup Truncated : Send(m)
      BY <2>4 DEF SendCommand
    <3>2. m \in Commands /\ m \notin Closes /\ m # ResetCmd
      BY Kinds DEF Commands
    <3>3. ~busy /\ busy' /\ known' = known
      BY <2>4 DEF SendCommand
    <3> QED
      BY <3>1, <3>2, <3>3, SendStep
  <2>5. CASE SendClose
    <3>1. PICK id \in known : Send(CloseCmd(id)) /\ known' = known \ {id} /\ busy' = busy
      BY <2>5 DEF SendClose
    <3>2. CloseCmd(id) \in Commands
      BY DEF IInv, TypeOK, Commands, Closes
    <3> QED
      BY <3>1, <3>2, SendStep
  <2>6. CASE SendReset
    <3>1. Send(ResetCmd) /\ ~busy /\ busy' /\ known' = {}
      BY <2>6 DEF SendReset
    <3>2. ResetCmd \in Commands /\ ResetCmd \notin Closes
      BY Kinds DEF Commands
    <3> QED
      BY <3>1, <3>2, SendStep
  <2>7. CASE Receive
    BY <2>7, ReceiveStep
  <2>8. CASE Serve
    <3> DEFINE m == Head(toServer)
    <3>1. Refused(m) \/ Prepared(m) \/ Executed(m) \/ Closed(m) \/ Forgotten(m)
      BY <2>8 DEF Serve
    <3>2. CASE Refused(m)
      <4>1. m \notin Closes
        BY <3>2, Kinds DEF Refused, IInv, TypeOK
      <4> QED
        BY <2>8, <3>2, <4>1, ExecutedStep DEF Refused, Answer
    <3>3. CASE Executed(m)
      <4>1. PICK id \in DOMAIN open :
              m = ExecuteCmd(id) /\ runs' = runs \cup {[checked |-> checked, ran |-> open[id]]}
        BY <3>3 DEF Executed
      <4>2. m \notin Closes
        BY <4>1, Kinds DEF IInv, TypeOK
      <4>3. fromServer' = Append(fromServer, OKPacket) /\ UNCHANGED <<open, orphaned>>
        BY <3>3 DEF Executed, Answer
      <4> QED
        BY <2>8, <4>1, <4>2, <4>3, ExecutedStep
    <3>4. CASE Prepared(m)
      BY <2>8, <3>4, PreparedStep DEF Prepared, Answer
    <3>5. CASE Closed(m)
      BY <2>8, <3>5, ClosedStep DEF Closed
    <3>6. CASE Forgotten(m)
      BY <2>8, <3>6, ForgottenStep
    <3> QED
      BY <3>1, <3>2, <3>3, <3>4, <3>5, <3>6
  <2>9. CASE Quiet \/ UNCHANGED vars
    <3>1. UNCHANGED <<Handled, Upward, Downward, fromServer, known, busy, open, stmts, prepareSql,
                      checked, orphaned, runs>>
      BY <2>9 DEF Quiet, vars, Handled, Upward, Returned, Downward
    <3> QED
      BY <3>1, SameFlow DEF IInv
  <2> QED
    BY <2>1, <2>2, <2>3, <2>4, <2>5, <2>6, <2>7, <2>8, <2>9 DEF Next
<1> QED
  BY <1>1, <1>2 DEF IInv

LEMMA Invariant == Spec => []IInv
  BY IInvInit, IInvStep, PTL DEF Spec

(* The registry, the proxy and both peers keep their types.                *)
THEOREM TypeCorrect == Spec => []TypeOK
<1>1. IInv => TypeOK
  BY DEF IInv
<1> QED
  BY <1>1, Invariant, PTL

(* The text given to the engine for an execution is the text the server    *)
(* runs, however closes, resets and identifiers used again interleave      *)
(* (Register, Lookup, Delete).                                             *)
THEOREM ChecksAreTrue == Spec => []ChecksWhatRuns
<1>1. IInv => ChecksWhatRuns
  BY DEF IInv, FlowInv
<1> QED
  BY <1>1, Invariant, PTL

(* The registry holds open statements only, resets apart (Delete,          *)
(* ParseStmtPrepareOK).                                                    *)
THEOREM RegistryFollows == Spec => []FollowsServer
<1>1. IInv => FollowsServer
  BY DEF IInv, FlowInv
<1> QED
  BY <1>1, Invariant, PTL
=============================================================================
