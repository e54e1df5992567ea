------------------------ MODULE ParserProofs ------------------------
(***************************************************************************)
(* The parsers, the default rules and the errors of the three protocols    *)
(* are right for every byte base, payload, row, login and text:            *)
(*  - what ParseDataRow and the parsers of strings return is what was      *)
(*    encoded, and TokenSpec implements Spec;                              *)
(*  - what ParseHandshakeResponse and ExtractQuery return is what the      *)
(*    MySQL client sent, and the login panics only when a length wraps;    *)
(*  - the default lists block what their block rules are about;            *)
(*  - the client can read the error a blocked command is answered with.    *)
(***************************************************************************)
EXTENDS Inspection, ResultTokens, NumberLemmas, SequenceTheorems, FiniteSetTheorems

(* The search for a NUL finds the first one (cstring).                     *)
LEMMA FirstNul ==
  ASSUME NEW S, NEW p \in Seq(S), NEW off \in 1 .. Len(p) + 1
  PROVE  /\ NulFrom(p, off) \in off .. Len(p) + 1
         /\ \A k \in off .. NulFrom(p, off) - 1 : p[k] # 0
         /\ NulFrom(p, off) <= Len(p) => p[NulFrom(p, off)] = 0
<1> DEFINE hits == {k \in off .. Len(p) : p[k] = 0} \cup {IF off > Len(p) THEN off ELSE Len(p) + 1}
<1>0. Len(p) \in Nat
  BY LenProperties
<1>1. hits = {k \in off .. Len(p) : p[k] = 0} \cup {Len(p) + 1}
  BY <1>0
<1>2. hits \subseteq Nat /\ hits # {}
  BY <1>0, <1>1
<1>3. \E x \in hits : \A y \in hits : x <= y
  <2> HIDE DEF hits
  <2> QED
    BY <1>2, SmallestOf
<1>4. NulFrom(p, off) = CHOOSE x \in hits : \A y \in hits : x <= y
  BY DEF NulFrom, Min
<1> DEFINE e == NulFrom(p, off)
<1>5. e \in hits /\ \A y \in hits : e <= y
  <2> HIDE DEF hits, e
  <2> QED
    BY <1>3, <1>4 DEF e
<1> HIDE DEF e
<1>6. e \in off .. Len(p) + 1 /\ (e <= Len(p) => p[e] = 0)
  BY <1>0, <1>1, <1>5
<1>7. ASSUME NEW k \in off .. e - 1 PROVE p[k] # 0
  <2>1. k \in off .. Len(p) /\ ~(e <= k)
    BY <1>0, <1>6
  <2> QED
    BY <1>1, <1>5, <2>1
<1> QED
  BY <1>6, <1>7 DEF e

(* A part of a payload is a byte string.                                   *)
LEMMA PartType ==
  ASSUME NEW S, NEW p \in Seq(S), NEW a \in 1 .. Len(p) + 1, NEW b \in a - 1 .. Len(p)
  PROVE  /\ SubSeq(p, a, b) \in Seq(S) /\ Len(SubSeq(p, a, b)) = b - a + 1
         /\ \A k \in 1 .. b - a + 1 : SubSeq(p, a, b)[k] = p[a + k - 1]
<1>0. Len(p) \in Nat /\ a \in Int /\ b \in Int
  BY LenProperties
<1>1. \A k \in a .. b : p[k] \in S
  BY <1>0, ElementOfSeq
<1>2. /\ SubSeq(p, a, b) \in Seq(S)
      /\ Len(SubSeq(p, a, b)) = IF a <= b THEN b - a + 1 ELSE 0
      /\ \A k \in 1 .. b - a + 1 : SubSeq(p, a, b)[k] = p[a + k - 1]
  BY <1>0, <1>1, SubSeqProperties
<1>3. (IF a <= b THEN b - a + 1 ELSE 0) = b - a + 1
  BY <1>0
<1> QED
  BY <1>2, <1>3

(* Byte strings can be put together in any order.                          *)
LEMMA Joined ==
  ASSUME NEW u \in Seq(Byte), NEW v \in Seq(Byte), NEW w \in Seq(Byte)
  PROVE  (u \o v) \o w = u \o (v \o w)
BY ConcatAssociative

(* cstring gives the bytes up to the next NUL and the place after it, or   *)
(* nothing when there is none.                                             *)
LEMMA CStringIs ==
  ASSUME NEW p \in Seq(Byte), NEW off \in 1 .. Len(p) + 1
  PROVE  \/ /\ CString(p, off) = Nothing
            /\ \A k \in off .. Len(p) : p[k] # 0
            /\ NulFrom(p, off) > Len(p)
         \/ \E e \in off .. Len(p) :
              /\ CString(p, off) = [text |-> SubSeq(p, off, e - 1), next |-> e + 1]
              /\ CString(p, off) # Nothing
              /\ p[e] = 0 /\ NulFrom(p, off) = e
              /\ \A k \in off .. e - 1 : p[k] # 0
              /\ SubSeq(p, off, e - 1) \in Seq(Byte)
              /\ \A k \in DOMAIN SubSeq(p, off, e - 1) : SubSeq(p, off, e - 1)[k] # 0
<1> DEFINE e == NulFrom(p, off)
<1>0. Len(p) \in Nat
  BY LenProperties
<1>1. /\ e \in off .. Len(p) + 1 /\ \A k \in off .. e - 1 : p[k] # 0
      /\ e <= Len(p) => p[e] = 0
  BY FirstNul
<1> HIDE DEF e
<1>2. CASE e > Len(p)
  <2>1. e = Len(p) + 1 /\ CString(p, off) = Nothing
    BY <1>0, <1>1, <1>2 DEF CString, e
  <2>2. \A k \in off .. Len(p) : p[k] # 0
    BY <1>0, <1>1, <2>1
  <2> QED
    BY <1>2, <2>1, <2>2 DEF e
<1>3. CASE e <= Len(p)
  <2> DEFINE t == SubSeq(p, off, e - 1)
  <2>1. e \in off .. Len(p) /\ off \in 1 .. Len(p) + 1 /\ e - 1 \in off - 1 .. Len(p)
    BY <1>0, <1>1, <1>3
  <2>2. t \in Seq(Byte) /\ Len(t) = (e - 1) - off + 1
        /\ \A k \in 1 .. (e - 1) - off + 1 : t[k] = p[off + k - 1]
    BY <2>1, PartType
  <2> HIDE DEF t
  <2>3. CString(p, off) = [text |-> t, next |-> e + 1]
    <3>1. ~(e > Len(p))
      BY <1>0, <1>1, <1>3
    <3> QED
      BY <3>1 DEF CString, e, t
  <2>4. [text |-> t, next |-> e + 1] # Nothing
    <3>1. [text |-> t, next |-> e + 1] \in [text : Seq(Byte), next : Nat]
      BY <1>0, <2>1, <2>2
    <3> QED
      BY <3>1, MessagesAssumption
  <2>5. ASSUME NEW k \in DOMAIN t PROVE t[k] # 0
    <3>1. DOMAIN t = 1 .. (e - 1) - off + 1
      BY <2>2, LenProperties
    <3>2. k \in 1 .. (e - 1) - off + 1 /\ off + k - 1 \in off .. e - 1
      BY <1>0, <2>1, <3>1
    <3> QED
      BY <1>1, <2>2, <3>2
  <2> QED
    BY <1>1, <1>3, <2>1, <2>2, <2>3, <2>4, <2>5 DEF e, t
<1> QED
  BY <1>0, <1>1, <1>2, <1>3

(* The end of the first string of a payload is not past the payload.       *)
LEMMA One ==
  ASSUME NEW p \in Seq(Byte)
  PROVE  1 \in 1 .. Len(p) + 1 /\ Len(p) \in Nat
BY LenProperties

(* A string and its terminator are how the payload goes on (cstring).      *)
LEMMA Terminated ==
  ASSUME NEW p \in Seq(Byte), NEW off \in 1 .. Len(p) + 1, NEW e \in off .. Len(p), p[e] = 0
  PROVE  /\ SubSeq(p, off, e - 1) \o <<0>> = SubSeq(p, off, e)
         /\ SubSeq(p, 1, off - 1) \o SubSeq(p, off, e) = SubSeq(p, 1, e)
<1>0. Len(p) \in Nat
  BY LenProperties
<1>1. SubSeq(p, e, e) = <<0>>
  <2>1. e \in 1 .. Len(p) + 1 /\ e \in e - 1 .. Len(p)
    BY <1>0
  <2>2. Len(SubSeq(p, e, e)) = 1 /\ SubSeq(p, e, e)[1] = p[e] /\ SubSeq(p, e, e) \in Seq(Byte)
    BY <1>0, <2>1, PartType
  <2>3. 0 \in Byte
    BY BytesAssumption DEF Byte
  <2>4. <<0>> \in Seq(Byte) /\ Len(<<0>>) = 1 /\ <<0>>[1] = 0
    BY <2>3
  <2> DEFINE s == SubSeq(p, e, e)
             z == <<0>>
  <2>5. s \in Seq(Byte) /\ z \in Seq(Byte) /\ Len(s) = Len(z) /\ \A k \in 1 .. Len(s) : s[k] = z[k]
    BY <2>2, <2>4
  <2> HIDE DEF s, z
  <2>6. s = z
    BY <2>5, SeqEqual
  <2> QED
    BY <2>6 DEF s, z
<1>2. e - 1 \in off - 1 .. Len(p) /\ e \in (e - 1) .. Len(p) /\ (e - 1) + 1 = e
      /\ 1 \in 1 .. Len(p) + 1 /\ off - 1 \in 1 - 1 .. Len(p) /\ e \in off - 1 .. Len(p)
      /\ (off - 1) + 1 = off
  BY <1>0
<1>3. SubSeq(p, off, e - 1) \o SubSeq(p, (e - 1) + 1, e) = SubSeq(p, off, e)
  BY <1>2, ConcatAdjacentSubSeq
<1>4. SubSeq(p, 1, off - 1) \o SubSeq(p, (off - 1) + 1, e) = SubSeq(p, 1, e)
  BY <1>2, ConcatAdjacentSubSeq
<1> QED
  BY <1>1, <1>2, <1>3, <1>4

(* The two strings of a Parse or a Bind message: the bytes up to the first *)
(* NUL and those up to the second (ParseParse, ParseBind).                 *)
LEMMA TwoStringsAre ==
  ASSUME NEW p \in Seq(Byte)
  PROVE  \/ /\ TwoStrings(p) = Nothing
            /\ \A k \in 1 .. Len(p) : p[k] # 0
            /\ NulFrom(p, 1) > Len(p)
         \/ \E e \in 1 .. Len(p) :
              /\ TwoStrings(p) = Nothing
              /\ NulFrom(p, 1) = e /\ p[e] = 0
              /\ \A k \in 1 .. e - 1 : p[k] # 0
              /\ \A k \in e + 1 .. Len(p) : p[k] # 0
              /\ NulFrom(p, e + 1) > Len(p)
         \/ \E e \in 1 .. Len(p), f \in 1 .. Len(p) :
              /\ e < f /\ NulFrom(p, 1) = e /\ NulFrom(p, e + 1) = f
              /\ p[e] = 0 /\ p[f] = 0
              /\ TwoStrings(p) = <<SubSeq(p, 1, e - 1), SubSeq(p, e + 1, f - 1)>>
              /\ TwoStrings(p) # Nothing
              /\ NulFree(SubSeq(p, 1, e - 1)) /\ NulFree(SubSeq(p, e + 1, f - 1))
              /\ SubSeq(p, e + 1, f - 1) \in Seq(Byte)
<1>0. Len(p) \in Nat /\ 1 \in 1 .. Len(p) + 1
  BY One
<1>1. CASE CString(p, 1) = Nothing /\ (\A k \in 1 .. Len(p) : p[k] # 0) /\ NulFrom(p, 1) > Len(p)
  BY <1>1 DEF TwoStrings
<1>2. ASSUME NEW e \in 1 .. Len(p),
             CString(p, 1) = [text |-> SubSeq(p, 1, e - 1), next |-> e + 1],
             CString(p, 1) # Nothing, p[e] = 0, NulFrom(p, 1) = e,
             \A k \in 1 .. e - 1 : p[k] # 0, SubSeq(p, 1, e - 1) \in Seq(Byte),
             NulFree(SubSeq(p, 1, e - 1))
      PROVE  \/ /\ TwoStrings(p) = Nothing
                /\ NulFrom(p, 1) = e /\ p[e] = 0
                /\ \A k \in 1 .. e - 1 : p[k] # 0
                /\ \A k \in e + 1 .. Len(p) : p[k] # 0
                /\ NulFrom(p, e + 1) > Len(p)
             \/ \E f \in 1 .. Len(p) :
                  /\ e < f /\ NulFrom(p, 1) = e /\ NulFrom(p, e + 1) = f
                  /\ p[e] = 0 /\ p[f] = 0
                  /\ TwoStrings(p) = <<SubSeq(p, 1, e - 1), SubSeq(p, e + 1, f - 1)>>
                  /\ TwoStrings(p) # Nothing
                  /\ NulFree(SubSeq(p, 1, e - 1)) /\ NulFree(SubSeq(p, e + 1, f - 1))
                  /\ SubSeq(p, e + 1, f - 1) \in Seq(Byte)
  <2>1. CString(p, 1).next = e + 1 /\ CString(p, 1).text = SubSeq(p, 1, e - 1)
    BY <1>2
  <2>2. e + 1 \in 1 .. Len(p) + 1
    BY <1>0
  <2>3. CASE /\ CString(p, e + 1) = Nothing /\ (\A k \in e + 1 .. Len(p) : p[k] # 0)
             /\ NulFrom(p, e + 1) > Len(p)
    <3>1. TwoStrings(p) = Nothing
      BY <2>1, <2>3 DEF TwoStrings
    <3> QED
      BY <1>2, <2>3, <3>1
  <2>4. ASSUME NEW f \in e + 1 .. Len(p),
               CString(p, e + 1) = [text |-> SubSeq(p, e + 1, f - 1), next |-> f + 1],
               CString(p, e + 1) # Nothing, p[f] = 0, NulFrom(p, e + 1) = f,
               SubSeq(p, e + 1, f - 1) \in Seq(Byte), NulFree(SubSeq(p, e + 1, f - 1))
        PROVE  /\ f \in 1 .. Len(p) /\ e < f
               /\ TwoStrings(p) = <<SubSeq(p, 1, e - 1), SubSeq(p, e + 1, f - 1)>>
               /\ TwoStrings(p) # Nothing
    <3>1. CString(p, e + 1).text = SubSeq(p, e + 1, f - 1)
      BY <2>4
    <3>2. TwoStrings(p) = <<SubSeq(p, 1, e - 1), SubSeq(p, e + 1, f - 1)>>
      BY <1>2, <2>1, <2>4, <3>1 DEF TwoStrings
    <3>3. <<SubSeq(p, 1, e - 1), SubSeq(p, e + 1, f - 1)>> \in Seq(Byte) \X Seq(Byte)
      BY <1>2, <2>4
    <3>4. f \in 1 .. Len(p) /\ e < f
      BY <1>0
    <3> QED
      BY <3>2, <3>3, <3>4, MessagesAssumption
  <2>5. \/ /\ CString(p, e + 1) = Nothing /\ (\A k \in e + 1 .. Len(p) : p[k] # 0)
           /\ NulFrom(p, e + 1) > Len(p)
        \/ \E f \in e + 1 .. Len(p) :
             /\ CString(p, e + 1) = [text |-> SubSeq(p, e + 1, f - 1), next |-> f + 1]
             /\ CString(p, e + 1) # Nothing /\ p[f] = 0 /\ NulFrom(p, e + 1) = f
             /\ SubSeq(p, e + 1, f - 1) \in Seq(Byte) /\ NulFree(SubSeq(p, e + 1, f - 1))
    BY <2>2, CStringIs, Zenon DEF NulFree
  <2> QED
    BY <1>2, <2>3, <2>4, <2>5, Zenon
<1>3. \/ CString(p, 1) = Nothing /\ (\A k \in 1 .. Len(p) : p[k] # 0) /\ NulFrom(p, 1) > Len(p)
      \/ \E e \in 1 .. Len(p) :
           /\ CString(p, 1) = [text |-> SubSeq(p, 1, e - 1), next |-> e + 1]
           /\ CString(p, 1) # Nothing /\ p[e] = 0 /\ NulFrom(p, 1) = e
           /\ \A k \in 1 .. e - 1 : p[k] # 0
           /\ SubSeq(p, 1, e - 1) \in Seq(Byte) /\ NulFree(SubSeq(p, 1, e - 1))
  BY <1>0, CStringIs, Zenon DEF NulFree
<1> QED
  BY <1>1, <1>2, <1>3, Zenon

(* A simple query that is one terminated string gives that string.         *)
LEMMA SimpleText ==
  ASSUME NEW p \in Seq(Byte), {k \in DOMAIN p : p[k] = 0} = {Len(p)},
         pkt.type = "Q", pkt.payload = p
  PROVE  ExtractSQL(pkt) \o <<0>> = p
<1>0. Len(p) \in Nat /\ DOMAIN p = 1 .. Len(p)
  BY LenProperties
<1>1. Len(p) \in 1 .. Len(p) /\ p[Len(p)] = 0
  BY <1>0
<1>2. p # <<>>
  BY <1>0, <1>1, EmptySeq
<1>3. ExtractSQL(pkt) = SubSeq(p, 1, Len(p) - 1)
  BY <1>1, <1>2 DEF ExtractSQL
<1>4. SubSeq(p, 1, Len(p) - 1) \o <<0>> = SubSeq(p, 1, Len(p))
  BY <1>1, One, Terminated
<1> QED
  BY <1>3, <1>4, SubSeqFull

(* What ExtractSQL does with a simple query that has no terminator: it     *)
(* takes all of it.                                                        *)
LEMMA UnterminatedQuery ==
  ASSUME NEW p \in Seq(Byte), p # <<>>, p[Len(p)] # 0,
         NEW k, k.type = "Q", k.payload = p
  PROVE  ExtractSQL(k) = p /\ ExtractSQL(k) # Nothing
BY BytesAssumption DEF ExtractSQL

(* And with a Parse message whose text has none: it takes the rest of the  *)
(* payload, where ParseParse refuses the message.                          *)
LEMMA UnterminatedParse ==
  ASSUME NEW p \in Seq(Byte), NEW e \in 1 .. Len(p) - 1,
         NulFrom(p, 1) = e, \A j \in e + 1 .. Len(p) : p[j] # 0,
         NEW k, k.type = "P", k.payload = p
  PROVE  ExtractSQL(k) = SubSeq(p, e + 1, Len(p)) /\ ParseParse(k) = Nothing
<1>0. Len(p) \in Nat /\ e \in Nat /\ e + 1 \in 1 .. Len(p) + 1 /\ 1 \in 1 .. Len(p) + 1
  BY One
<1>1. NulFrom(p, e + 1) = Len(p) + 1
  <2>1. NulFrom(p, e + 1) \in e + 1 .. Len(p) + 1
        /\ (NulFrom(p, e + 1) <= Len(p) => p[NulFrom(p, e + 1)] = 0)
    BY <1>0, FirstNul
  <2> QED
    BY <1>0, <2>1
<1>2. ExtractSQL(k) = SubSeq(p, e + 1, Len(p))
  <2>1. TextStart(p) = e + 1 /\ e + 1 <= Len(p) /\ NulFrom(p, e + 1) # e + 1
    BY <1>0, <1>1 DEF TextStart
  <2>2. ExtractSQL(k) = SubSeq(p, e + 1, (Len(p) + 1) - 1)
    BY <1>1, <2>1, Zenon DEF ExtractSQL
  <2>3. (Len(p) + 1) - 1 = Len(p)
    BY <1>0
  <2> QED
    BY <2>2, <2>3, Zenon
<1>3. CString(p, 1) = [text |-> SubSeq(p, 1, e - 1), next |-> e + 1]
  <2>1. ~(e > Len(p))
    BY <1>0
  <2> QED
    BY <2>1, Zenon DEF CString
<1>4. CString(p, CString(p, 1).next) = Nothing
  BY <1>0, <1>1, <1>3 DEF CString
<1>5. TwoStrings(p) = Nothing
  BY <1>4, Zenon DEF TwoStrings
<1> QED
  BY <1>2, <1>5 DEF ParseParse

(* ExtractSQL and ParseParse see the same text.                            *)
LEMMA SameTextAlways ==
  ASSUME pkt.payload \in Seq(Byte)
  PROVE  SameText
<1> DEFINE p == pkt.payload
           start == TextStart(p)
           end == NulFrom(p, start)
<1>0. Len(p) \in Nat /\ p \in Seq(Byte)
  BY One
<1> SUFFICES ASSUME pkt.type = "P", ParseParse(pkt) # Nothing
             PROVE  ExtractSQL(pkt) = IF ParseParse(pkt)[2] = <<>> THEN Nothing ELSE ParseParse(pkt)[2]
  BY SimpleText, Zenon DEF SameText
<1>1. ParseParse(pkt) = TwoStrings(p)
  BY DEF ParseParse
<1>2. ExtractSQL(pkt) = IF start <= Len(p) /\ end # start THEN SubSeq(p, start, end - 1) ELSE Nothing
  BY DEF ExtractSQL
<1>3. start = NulFrom(p, 1) + 1
  BY DEF TextStart
<1> HIDE DEF p, start
<1>4. ASSUME NEW e \in 1 .. Len(p), NEW f \in 1 .. Len(p), e < f,
             NulFrom(p, 1) = e, NulFrom(p, e + 1) = f,
             TwoStrings(p) = <<SubSeq(p, 1, e - 1), SubSeq(p, e + 1, f - 1)>>,
             TwoStrings(p) # Nothing
      PROVE  ExtractSQL(pkt) = IF ParseParse(pkt)[2] = <<>> THEN Nothing ELSE ParseParse(pkt)[2]
  <2>1. start = e + 1 /\ end = f /\ start <= Len(p)
    BY <1>0, <1>3, <1>4
  <2>2. ParseParse(pkt)[2] = SubSeq(p, start, end - 1)
    <3>1. <<SubSeq(p, 1, e - 1), SubSeq(p, e + 1, f - 1)>>[2] = SubSeq(p, e + 1, f - 1)
      OBVIOUS
    <3>2. ParseParse(pkt) = <<SubSeq(p, 1, e - 1), SubSeq(p, e + 1, f - 1)>>
      BY <1>1, <1>4, Zenon
    <3>3. SubSeq(p, start, end - 1) = SubSeq(p, e + 1, f - 1)
      <4> HIDE DEF end
      <4> QED
        BY <2>1, Zenon
    <3> QED
      BY <3>1, <3>2, <3>3, Zenon
  <2>3. Len(SubSeq(p, e + 1, f - 1)) = f - 1 - e /\ SubSeq(p, e + 1, f - 1) \in Seq(Byte)
    <3>1. e + 1 \in 1 .. Len(p) + 1 /\ f - 1 \in (e + 1) - 1 .. Len(p)
          /\ (f - 1) - (e + 1) + 1 = f - 1 - e
      BY <1>0, <1>4
    <3> QED
      BY <3>1, PartType DEF p
  <2>4. SubSeq(p, e + 1, f - 1) = <<>> <=> f = e + 1
    <3> DEFINE s == SubSeq(p, e + 1, f - 1)
    <3>1. s \in Seq(Byte) /\ Len(s) = f - 1 - e
      BY <2>3
    <3> HIDE DEF s
    <3>2. s = <<>> <=> Len(s) = 0
      BY <3>1, EmptySeq
    <3>3. f - 1 - e = 0 <=> f = e + 1
      BY <1>0
    <3> QED
      BY <3>1, <3>2, <3>3 DEF s
  <2> QED
    BY <1>2, <2>1, <2>2, <2>4
<1> QED
  BY <1>0, <1>1, <1>4, TwoStringsAre, Zenon

(* A payload with at most one NUL.                                         *)
LEMMA AtMostOne ==
  ASSUME NEW N, NEW e, N \subseteq {e}
  PROVE  Cardinality(N) < 2
<1>1. IsFiniteSet({e}) /\ Cardinality({e}) = 1
  BY FS_Singleton
<1>2. IsFiniteSet(N) /\ Cardinality(N) <= 1 /\ Cardinality(N) \in Nat
  BY <1>1, FS_Subset, FS_CardinalityType
<1> QED
  BY <1>2

(* What the two strings give back with their terminators is how the        *)
(* payload begins (ParseParse, ParseBind).                                 *)
LEMMA PairDecodes ==
  ASSUME NEW p \in Seq(Byte)
  PROVE  LET r == TwoStrings(p)
             s == r[1] \o <<0>> \o r[2] \o <<0>>
         IN  IF r = Nothing THEN Cardinality({k \in DOMAIN p : p[k] = 0}) < 2
             ELSE NulFree(r[1]) /\ NulFree(r[2]) /\ Len(s) <= Len(p) /\ SubSeq(p, 1, Len(s)) = s
<1> DEFINE N == {k \in DOMAIN p : p[k] = 0}
<1>0. Len(p) \in Nat /\ DOMAIN p = 1 .. Len(p)
  BY LenProperties
<1>1. CASE TwoStrings(p) = Nothing /\ \A k \in 1 .. Len(p) : p[k] # 0
  <2>1. N \subseteq {0}
    BY <1>0, <1>1
  <2>2. Cardinality(N) < 2
    <3> HIDE DEF N
    <3> QED
      BY <2>1, AtMostOne
  <2> QED
    BY <1>1, <2>2
<1>2. ASSUME NEW e \in 1 .. Len(p), TwoStrings(p) = Nothing,
             \A k \in 1 .. e - 1 : p[k] # 0, \A k \in e + 1 .. Len(p) : p[k] # 0
      PROVE  Cardinality(N) < 2
  <2>1. N \subseteq {e}
    <3>1. ASSUME NEW k \in N PROVE k = e
      <4>1. k \in 1 .. Len(p) /\ p[k] = 0
        BY <1>0
      <4>2. k \in 1 .. e - 1 \/ k = e \/ k \in e + 1 .. Len(p)
        BY <1>0, <4>1
      <4> QED
        BY <1>2, <4>1, <4>2
    <3> HIDE DEF N
    <3> QED
      BY <3>1
  <2> HIDE DEF N
  <2> QED
    BY <2>1, AtMostOne
<1>3. ASSUME NEW e \in 1 .. Len(p), NEW f \in 1 .. Len(p), e < f, p[e] = 0, p[f] = 0,
             TwoStrings(p) = <<SubSeq(p, 1, e - 1), SubSeq(p, e + 1, f - 1)>>,
             NulFree(SubSeq(p, 1, e - 1)), NulFree(SubSeq(p, e + 1, f - 1))
      PROVE  LET r == TwoStrings(p)
                 s == r[1] \o <<0>> \o r[2] \o <<0>>
             IN  NulFree(r[1]) /\ NulFree(r[2]) /\ Len(s) <= Len(p) /\ SubSeq(p, 1, Len(s)) = s
  <2> DEFINE a == SubSeq(p, 1, e - 1)
             b == SubSeq(p, e + 1, f - 1)
             z == <<0>>
  <2>0. /\ 1 \in 1 .. Len(p) + 1 /\ e \in 1 .. Len(p) /\ e - 1 \in 1 - 1 .. Len(p)
        /\ e + 1 \in 1 .. Len(p) + 1 /\ f \in e + 1 .. Len(p) /\ f - 1 \in (e + 1) - 1 .. Len(p)
        /\ (e + 1) - 1 = e /\ f \in 1 - 1 .. Len(p) /\ f - 1 + 1 = f
    BY <1>0, <1>3
  <2>1. a \o z = SubSeq(p, 1, e)
    BY <1>3, <2>0, Terminated
  <2>2. b \o z = SubSeq(p, e + 1, f) /\ SubSeq(p, 1, e) \o SubSeq(p, e + 1, f) = SubSeq(p, 1, f)
    BY <1>3, <2>0, Terminated
  <2>3. a \in Seq(Byte) /\ b \in Seq(Byte) /\ z \in Seq(Byte)
    <3>1. a \in Seq(Byte) /\ b \in Seq(Byte)
      BY <2>0, PartType
    <3>2. 0 \in Byte
      BY BytesAssumption DEF Byte
    <3> QED
      BY <3>1, <3>2
  <2>4. Len(SubSeq(p, 1, f)) = f
    <3>1. f - 1 + 1 = f
      BY <2>0
    <3> QED
      BY <2>0, <3>1, PartType
  <2>5. TwoStrings(p)[1] = a /\ TwoStrings(p)[2] = b
    BY <1>3
  <2> HIDE DEF a, b, z
  <2>6. a \o z \in Seq(Byte)
    BY <2>3, ConcatProperties
  <2>7. ((a \o z) \o b) \o z = (a \o z) \o (b \o z)
    BY <2>3, <2>6, Joined, Zenon
  <2>8. ((a \o z) \o b) \o z = SubSeq(p, 1, f)
    BY <2>1, <2>2, <2>7
  <2>9. f <= Len(p)
    BY <1>0
  <2> QED
    BY <1>3, <2>4, <2>5, <2>8, <2>9 DEF z, a, b
<1> QED
  BY <1>1, <1>2, <1>3, TwoStringsAre, Zenon

(* What ParseExecute gives with its terminator is how the payload begins.  *)
LEMMA OneDecodes ==
  ASSUME NEW p \in Seq(Byte)
  PROVE  LET r == CString(p, 1)
             s == r.text \o <<0>>
         IN  IF r = Nothing THEN Cardinality({k \in DOMAIN p : p[k] = 0}) < 1
             ELSE /\ r.text \in Seq(Byte) /\ NulFree(r.text)
                  /\ Len(s) <= Len(p) /\ SubSeq(p, 1, Len(s)) = s
<1> DEFINE N == {k \in DOMAIN p : p[k] = 0}
<1>0. Len(p) \in Nat /\ DOMAIN p = 1 .. Len(p) /\ 1 \in 1 .. Len(p) + 1
  BY LenProperties
<1>1. CASE CString(p, 1) = Nothing /\ \A k \in 1 .. Len(p) : p[k] # 0
  <2>1. N = {}
    BY <1>0, <1>1
  <2>2. Cardinality(N) < 1
    <3>1. Cardinality({}) = 0
      BY FS_EmptySet
    <3> HIDE DEF N
    <3> QED
      BY <2>1, <3>1
  <2> QED
    BY <1>1, <2>2
<1>2. ASSUME NEW e \in 1 .. Len(p), p[e] = 0,
             CString(p, 1) = [text |-> SubSeq(p, 1, e - 1), next |-> e + 1],
             SubSeq(p, 1, e - 1) \in Seq(Byte),
             \A k \in DOMAIN SubSeq(p, 1, e - 1) : SubSeq(p, 1, e - 1)[k] # 0
      PROVE  LET r == CString(p, 1)
                 s == r.text \o <<0>>
             IN  /\ r.text \in Seq(Byte) /\ NulFree(r.text)
                 /\ Len(s) <= Len(p) /\ SubSeq(p, 1, Len(s)) = s
  <2>1. CString(p, 1).text = SubSeq(p, 1, e - 1)
    BY <1>2
  <2>2. SubSeq(p, 1, e - 1) \o <<0>> = SubSeq(p, 1, e)
    BY <1>0, <1>2, Terminated
  <2>3. Len(SubSeq(p, 1, e)) = e /\ e <= Len(p)
    <3>1. e \in 1 - 1 .. Len(p) /\ e - 1 + 1 = e
      BY <1>0
    <3> QED
      BY <1>0, <3>1, PartType
  <2>4. NulFree(SubSeq(p, 1, e - 1))
    BY <1>2 DEF NulFree
  <2> QED
    BY <1>2, <2>1, <2>2, <2>3, <2>4
<1> QED
  BY <1>0, <1>1, <1>2, CStringIs, Zenon

(* The three parsers invert the encoding of their strings.                 *)
LEMMA DecodesAlways ==
  ASSUME pkt.payload \in Seq(Byte)
  PROVE  Decodes
<1>1. pkt.type = "P" => ParseParse(pkt) = TwoStrings(pkt.payload)
  BY DEF ParseParse
<1>2. pkt.type = "B" => ParseBind(pkt) = TwoStrings(pkt.payload)
  BY DEF ParseBind
<1> DEFINE p == pkt.payload
           c == CString(p, 1)
<1>3. pkt.type = "E" => ParseExecute(pkt) = IF c = Nothing THEN Nothing ELSE c.text
  BY DEF ParseExecute
<1>4. c # Nothing => c.text # Nothing
  <2>1. c # Nothing => c.text \in Seq(Byte)
    BY OneDecodes, Zenon
  <2> QED
    BY <2>1, BytesAssumption
<1>5. LET r == TwoStrings(p)
          s == r[1] \o <<0>> \o r[2] \o <<0>>
      IN  IF r = Nothing THEN Cardinality({k \in DOMAIN p : p[k] = 0}) < 2
          ELSE NulFree(r[1]) /\ NulFree(r[2]) /\ Len(s) <= Len(p) /\ SubSeq(p, 1, Len(s)) = s
  BY PairDecodes, Zenon
<1>6. LET s == c.text \o <<0>>
      IN  IF c = Nothing THEN Cardinality({k \in DOMAIN p : p[k] = 0}) < 1
          ELSE NulFree(c.text) /\ Len(s) <= Len(p) /\ SubSeq(p, 1, Len(s)) = s
  BY OneDecodes, Zenon
<1> HIDE DEF c
<1> QED
  BY <1>1, <1>2, <1>3, <1>4, <1>5, <1>6, Zenon DEF Decodes
-----------------------------------------------------------------------------
(* The powers of Base that numbers on the wire are made of.                *)
LEMMA Powers ==
  /\ Base \in Nat /\ Base >= 2 /\ Base * Base \in Nat /\ Base * Base >= 4
  /\ Base * Base * Base \in Nat /\ Base * Base * Base >= 8
  /\ Word \in Nat /\ Word >= 16 /\ Word = (Base * Base * Base) * Base
<1>1. Base \in Nat /\ Base >= 2
  BY BytesAssumption
<1>2. Base * Base \in Nat /\ Base * Base >= 4
  BY <1>1
<1> DEFINE b == Base * Base
<1>3. b * Base \in Nat /\ b * Base >= 8
  <2> HIDE DEF b
  <2>1. b \in Nat /\ b >= 4
    BY <1>2 DEF b
  <2> QED
    BY <1>1, <2>1
<1> DEFINE c == b * Base
<1>4. c * Base \in Nat /\ c * Base >= 16
  <2> HIDE DEF c
  <2>1. c \in Nat /\ c >= 8
    BY <1>3 DEF c
  <2> QED
    BY <1>1, <2>1
<1> QED
  BY <1>1, <1>2, <1>3, <1>4 DEF Word

(* Dividing twice is dividing by the product.                              *)
LEMMA DivTwice ==
  ASSUME NEW x \in Nat, NEW a \in Nat, a > 0, NEW b \in Nat, b > 0
  PROVE  x \div (a * b) = (x \div a) \div b
<1>1. PICK q \in Nat, r \in 0 .. a - 1 : x = q * a + r /\ x \div a = q
  BY DivSplit
<1>2. PICK s \in Nat, t \in 0 .. b - 1 : q = s * b + t /\ q \div b = s
  BY DivSplit
<1>3. x = s * (a * b) + (t * a + r)
  <2>1. (s * b + t) * a = (s * b) * a + t * a
    BY <1>2, Distributes
  <2>2. (s * b) * a = s * (a * b)
    OBVIOUS
  <2>3. s * b \in Nat /\ (s * b) * a \in Nat /\ t * a \in Nat
    BY <1>2, Distributes
  <2> DEFINE u == (s * b) * a
             v == t * a
  <2>4. x = (u + v) + r /\ u \in Nat /\ v \in Nat
    BY <1>1, <1>2, <2>1, <2>3
  <2> HIDE DEF u, v
  <2>5. x = u + (v + r)
    BY <1>1, <2>4
  <2> QED
    BY <2>2, <2>5 DEF u, v
<1>4. t * a + r \in Nat /\ t * a + r < a * b /\ a * b \in Nat /\ a * b > 0
  <2>1. a * t <= a * (b - 1) /\ a * t \in Nat
    BY <1>2, Mul
  <2>2. a * (b - 1) = a * b - a /\ a * t = t * a /\ a * b \in Nat
    OBVIOUS
  <2> DEFINE u == a * b
             v == t * a
  <2>3. v <= u - a /\ v \in Nat /\ u \in Nat
    BY <2>1, <2>2
  <2> HIDE DEF u, v
  <2>4. v + r \in Nat /\ v + r < u /\ u > 0
    BY <1>1, <2>3
  <2> QED
    BY <2>3, <2>4 DEF u, v
<1> DEFINE m == a * b
           e == t * a + r
<1>5. (s * m + e) \div m = s
  <2> HIDE DEF m, e
  <2> QED
    BY <1>2, <1>4, DivUnique DEF m, e
<1> QED
  BY <1>1, <1>2, <1>3, <1>5

(* The four bytes PutUint32 writes are what Uint32 reads back.             *)
LEMMA Encoded ==
  ASSUME NEW u \in Nat, u < Word
  PROVE  /\ PutUint32(u) \in Seq(Byte) /\ Len(PutUint32(u)) = 4
         /\ \A p, off : (/\ p[off] = PutUint32(u)[1] /\ p[off + 1] = PutUint32(u)[2]
                         /\ p[off + 2] = PutUint32(u)[3] /\ p[(off + 2) + 1] = PutUint32(u)[4])
                        => Uint32(p, off) = u
<1> DEFINE B == Base
<1>0. B \in Nat /\ B > 0 /\ B * B \in Nat /\ B * B > 0 /\ Word \in Nat
  BY Powers
<1>1. PICK q1 \in Nat, d4 \in 0 .. B - 1 : u = q1 * B + d4 /\ u \div B = q1
  BY <1>0, DivSplit
<1>2. PICK q2 \in Nat, d3 \in 0 .. B - 1 : q1 = q2 * B + d3 /\ q1 \div B = q2
  BY <1>0, DivSplit
<1>3. PICK q3 \in Nat, d2 \in 0 .. B - 1 : q2 = q3 * B + d2 /\ q2 \div B = q3
  BY <1>0, DivSplit
<1>4. u \div (B * B) = q2 /\ u \div (B * B * B) = q3
  <2>1. u \div (B * B) = q2
    BY <1>0, <1>1, <1>2, DivTwice
  <2>2. u \div ((B * B) * B) = (u \div (B * B)) \div B
    <3> DEFINE b == B * B
    <3>1. b \in Nat /\ b > 0
      BY <1>0
    <3> HIDE DEF b, B
    <3>2. u \div (b * B) = (u \div b) \div B
      BY <1>0, <3>1, DivTwice
    <3> QED
      BY <3>2 DEF b
  <2> QED
    BY <1>3, <2>1, <2>2
<1>5. q3 \in 0 .. B - 1
  <2> SUFFICES ASSUME q3 >= B PROVE FALSE
    BY <1>0
  <2>1. q2 >= B * B
    <3>1. B * B <= B * q3
      BY <1>0, Mul
    <3>2. B * q3 = q3 * B /\ q3 * B \in Nat
      BY <1>0, Distributes
    <3> DEFINE x == q3 * B
               y == B * B
    <3> HIDE DEF x, y
    <3>3. y <= x /\ x \in Nat /\ y \in Nat /\ q2 = x + d2
      BY <1>0, <1>3, <3>1, <3>2 DEF x, y
    <3>4. q2 >= y
      BY <1>3, <3>3
    <3> QED
      BY <3>4 DEF y
  <2>2. q1 >= B * B * B
    <3> DEFINE b == B * B
    <3>0. b \in Nat
      BY <1>0
    <3> HIDE DEF b
    <3>1. B * b <= B * q2
      BY <1>0, <2>1, <3>0, Mul DEF b
    <3>2. B * q2 = q2 * B /\ B * b = b * B /\ q2 * B \in Nat /\ b * B \in Nat
      BY <1>0, <3>0, Distributes
    <3> DEFINE x == q2 * B
               y == b * B
    <3> HIDE DEF x, y
    <3>3. y <= x /\ x \in Nat /\ y \in Nat /\ q1 = x + d3
      BY <1>2, <3>1, <3>2 DEF x, y
    <3>4. q1 >= y
      BY <1>2, <3>3
    <3> QED
      BY <3>4 DEF y, b
  <2>3. u >= Word
    <3> DEFINE b == B * B * B
    <3>0. b \in Nat /\ Word = b * B
      BY Powers
    <3> HIDE DEF b
    <3>1. B * b <= B * q1
      BY <1>0, <2>2, <3>0, Mul DEF b
    <3>2. B * q1 = q1 * B /\ B * b = b * B /\ q1 * B \in Nat /\ b * B \in Nat
      BY <1>0, <3>0, Distributes
    <3> DEFINE x == q1 * B
               y == b * B
    <3> HIDE DEF x, y
    <3>3. y <= x /\ x \in Nat /\ y \in Nat /\ u = x + d4
      BY <1>1, <3>1, <3>2 DEF x, y
    <3>4. u >= y
      BY <1>1, <3>3
    <3> QED
      BY <3>0, <3>4 DEF y
  <2> QED
    BY <1>0, <2>3
<1>6. u % B = d4 /\ q1 % B = d3 /\ q2 % B = d2 /\ q3 % B = q3
  <2> HIDE DEF B
  <2>1. u % B = d4
    BY <1>0, <1>1, DivUnique
  <2>2. q1 % B = d3
    BY <1>0, <1>2, DivUnique
  <2>3. q2 % B = d2
    BY <1>0, <1>3, DivUnique
  <2>4. (0 * B + q3) % B = q3
    BY <1>0, <1>5, DivUnique
  <2>5. 0 * B + q3 = q3
    BY <1>0
  <2> QED
    BY <2>1, <2>2, <2>3, <2>4, <2>5
<1>7. PutUint32(u) = <<q3, d2, d3, d4>>
  BY <1>1, <1>4, <1>6 DEF PutUint32
<1>8. q3 \in Byte /\ d2 \in Byte /\ d3 \in Byte /\ d4 \in Byte
  BY <1>5 DEF Byte
<1>9. ((q3 * B + d2) * B) * B + (d3 * B + d4) = u
  <2> HIDE DEF B
  <2>1. (q3 * B + d2) = q2
    BY <1>3
  <2>2. (q2 * B + d3) * B = (q2 * B) * B + d3 * B
    BY <1>0, <1>2, Distributes
  <2>3. (q2 * B) * B \in Nat /\ d3 * B \in Nat
    <3>1. q2 * B \in Nat
      BY <1>0, Distributes
    <3> QED
      BY <1>0, <1>2, <3>1, Distributes
  <2> DEFINE x == (q2 * B) * B
             y == d3 * B
  <2>4. u = (x + y) + d4 /\ x \in Nat /\ y \in Nat
    BY <1>1, <1>2, <2>2, <2>3
  <2> HIDE DEF x, y
  <2>5. u = x + (y + d4)
    BY <1>1, <2>4
  <2> QED
    BY <2>1, <2>5 DEF x, y
<1>10. ASSUME NEW p, NEW off, p[off] = q3, p[off + 1] = d2, p[off + 2] = d3, p[(off + 2) + 1] = d4
       PROVE  Uint32(p, off) = u
  BY <1>9, <1>10 DEF Uint32, Uint16
<1>11. <<q3, d2, d3, d4>> \in Seq(Byte) /\ Len(<<q3, d2, d3, d4>>) = 4
  BY <1>8
<1> QED
  BY <1>7, <1>10, <1>11

(* A length below 2^31 is read back as it is, and the mark of a NULL as a  *)
(* negative number (ParseDataRow).                                         *)
LEMMA Signs ==
  ASSUME NEW u \in Nat, NEW p, NEW off, Uint32(p, off) = u
  PROVE  /\ u < Word \div 2 => u < Word /\ Int32(p, off) = u
         /\ u = Word - 1 => u < Word /\ Int32(p, off) = 0 - 1
<1>1. Word \in Nat /\ Word >= 16
  BY Powers
<1>2. Word \div 2 \in Nat /\ Word \div 2 <= Word - 1
  BY <1>1
<1> QED
  BY <1>1, <1>2 DEF Int32
-----------------------------------------------------------------------------
(* The size of a column's value, and what its length field says.           *)
ValueLen(c) == IF c = Null THEN 0 ELSE Len(c)
Announced(c) == IF c = Null THEN 0 - 1 ELSE Len(c)

(* A column on the wire: four bytes that announce it, then the value.      *)
LEMMA ColumnIs ==
  ASSUME NEW r \in Rows, NEW k \in 1 .. Len(r)
  PROVE  /\ Column(r[k]) \in Seq(Byte) /\ ValueLen(r[k]) \in Nat
         /\ Len(Column(r[k])) = 4 + ValueLen(r[k])
         /\ r[k] # Null => r[k] \in Seq(Byte) /\ \A j \in 1 .. Len(r[k]) : Column(r[k])[4 + j] = r[k][j]
         /\ \A p, off : (/\ p[off] = Column(r[k])[1] /\ p[off + 1] = Column(r[k])[2]
                         /\ p[off + 2] = Column(r[k])[3] /\ p[(off + 2) + 1] = Column(r[k])[4])
                        => Int32(p, off) = Announced(r[k])
<1> DEFINE c == r[k]
<1>0. r \in Seq(Seq(Byte) \cup {Null}) /\ k \in DOMAIN r
  BY QueryAssumption, LenProperties
<1>1. c \in Seq(Byte) \cup {Null}
  BY <1>0, ElementOfSeq
<1>2. c # Null => Len(c) < Word \div 2
  BY <1>0, QueryAssumption
<1>3. Word \in Nat /\ Word >= 16
  BY Powers
<1> HIDE DEF c
<1>4. CASE c = Null
  <2> DEFINE u == Word - 1
             d == PutUint32(u)
  <2>1. u \in Nat /\ u < Word
    BY <1>3
  <2> HIDE DEF u
  <2>2. /\ d \in Seq(Byte) /\ Len(d) = 4
        /\ \A p, off : (/\ p[off] = d[1] /\ p[off + 1] = d[2] /\ p[off + 2] = d[3]
                        /\ p[(off + 2) + 1] = d[4]) => Uint32(p, off) = u
    BY <2>1, Encoded
  <2>3. Column(c) = d
    BY <1>4 DEF Column, u
  <2> HIDE DEF d
  <2>4. ASSUME NEW p, NEW off, Uint32(p, off) = u PROVE Int32(p, off) = 0 - 1
    BY <2>1, <2>4, Signs DEF u
  <2> QED
    BY <1>4, <2>2, <2>3, <2>4 DEF ValueLen, Announced, c
<1>5. CASE c # Null
  <2> DEFINE u == Len(c)
             d == PutUint32(u)
  <2>1. c \in Seq(Byte) /\ u \in Nat /\ u < Word \div 2 /\ u < Word
    <3>1. c \in Seq(Byte) /\ u < Word \div 2
      BY <1>1, <1>2, <1>5
    <3>2. u \in Nat
      BY <3>1, LenProperties
    <3> HIDE DEF u
    <3> QED
      BY <1>3, <3>1, <3>2
  <2> HIDE DEF u
  <2>2. /\ d \in Seq(Byte) /\ Len(d) = 4
        /\ \A p, off : (/\ p[off] = d[1] /\ p[off + 1] = d[2] /\ p[off + 2] = d[3]
                        /\ p[(off + 2) + 1] = d[4]) => Uint32(p, off) = u
    BY <2>1, Encoded
  <2>3. Column(c) = d \o c
    BY <1>5 DEF Column, u
  <2> HIDE DEF d
  <2>4. ASSUME NEW p, NEW off, Uint32(p, off) = u PROVE Int32(p, off) = u
    BY <2>1, <2>4, Signs
  <2>5. /\ d \o c \in Seq(Byte) /\ Len(d \o c) = 4 + u
        /\ \A j \in 1 .. 4 + u : (d \o c)[j] = IF j <= 4 THEN d[j] ELSE c[j - 4]
    <3>1. /\ d \o c \in Seq(Byte) /\ Len(d \o c) = Len(d) + Len(c)
          /\ \A j \in 1 .. Len(d) + Len(c) : (d \o c)[j] = IF j <= Len(d) THEN d[j] ELSE c[j - Len(d)]
      BY <2>1, <2>2, ConcatProperties
    <3> QED
      BY <2>2, <3>1, Zenon DEF u
  <2> DEFINE s == d \o c
  <2> HIDE DEF s
  <2>6. /\ s \in Seq(Byte) /\ Len(s) = 4 + u /\ Column(c) = s
        /\ \A j \in 1 .. 4 + u : s[j] = IF j <= 4 THEN d[j] ELSE c[j - 4]
    BY <2>3, <2>5 DEF s
  <2>7. s[1] = d[1] /\ s[2] = d[2] /\ s[3] = d[3] /\ s[4] = d[4]
    <3>1. 1 \in 1 .. 4 + u /\ 2 \in 1 .. 4 + u /\ 3 \in 1 .. 4 + u /\ 4 \in 1 .. 4 + u
      BY <2>1
    <3> QED
      BY <2>6, <3>1
  <2>8. ASSUME NEW j \in 1 .. u PROVE s[4 + j] = c[j]
    <3>1. 4 + j \in 1 .. 4 + u /\ ~(4 + j <= 4) /\ (4 + j) - 4 = j
      BY <2>1
    <3> QED
      BY <2>6, <3>1
  <2>9. ASSUME NEW p, NEW off, p[off] = s[1], p[off + 1] = s[2], p[off + 2] = s[3],
               p[(off + 2) + 1] = s[4]
        PROVE  Int32(p, off) = u
    <3>1. Uint32(p, off) = u
      BY <2>2, <2>7, <2>9
    <3> QED
      BY <2>4, <3>1
  <2>10. ValueLen(c) = u /\ Announced(c) = u
    BY <1>5 DEF ValueLen, Announced, u
  <2>11. \A j \in 1 .. Len(c) : s[4 + j] = c[j]
    BY <2>8 DEF u
  <2> HIDE DEF c
  <2>12. /\ s \in Seq(Byte) /\ ValueLen(c) \in Nat /\ Len(s) = 4 + ValueLen(c)
         /\ c \in Seq(Byte) /\ (\A j \in 1 .. Len(c) : s[4 + j] = c[j])
         /\ \A p, off : (/\ p[off] = s[1] /\ p[off + 1] = s[2]
                         /\ p[off + 2] = s[3] /\ p[(off + 2) + 1] = s[4])
                        => Int32(p, off) = Announced(c)
    BY <2>1, <2>6, <2>9, <2>10, <2>11
  <2> QED
    BY <2>6, <2>12, Zenon DEF c
<1> QED
  BY <1>4, <1>5

(* What the server has encoded after each column.                          *)
LEMMA ColumnsDef ==
  ASSUME NEW r \in Rows
  PROVE  /\ Len(r) \in Nat
         /\ Columns(r) \in [0 .. Len(r) -> Seq(Byte)]
         /\ Columns(r)[0] = <<>>
         /\ \A k \in 1 .. Len(r) : Columns(r)[k] = Columns(r)[k - 1] \o Column(r[k])
<1> DEFINE N == Len(r)
           Next1(k, s) == s \o Column(r[k])
           step == [k \in 1 .. N |-> [s \in Seq(Byte) |-> Next1(k, s)]]
           Is(f) == f = [k \in 0 .. N |-> IF k = 0 THEN <<>> ELSE Next1(k, f[k - 1])]
<1>0. N \in Nat /\ <<>> \in Seq(Byte)
  BY QueryAssumption, LenProperties, EmptySeq
<1>1. ASSUME NEW k \in 1 .. N, NEW s \in Seq(Byte) PROVE Next1(k, s) \in Seq(Byte)
  <2>1. Column(r[k]) \in Seq(Byte)
    BY ColumnIs
  <2> QED
    BY <2>1, ConcatProperties
<1>2. step \in [1 .. N -> [Seq(Byte) -> Seq(Byte)]]
  BY <1>1
<1>3. \E f : Is(f)
  <2>0. \E f \in [0 .. N -> Seq(Byte)] :
          f[0] = <<>> /\ \A k \in 1 .. N : f[k] = step[k][f[k - 1]]
    <3> DEFINE start == <<>>
               S == Seq(Byte)
    <3>1. start \in S /\ N \in Nat /\ step \in [1 .. N -> [S -> S]]
      BY <1>0, <1>2
    <3> HIDE DEF N, step, start, S
    <3>2. \E f : IsLoop(f, N, S, start, step)
      BY <3>1, LoopExists
    <3> QED
      BY <3>2 DEF IsLoop, start, S
  <2>1. PICK f \in [0 .. N -> Seq(Byte)] :
          f[0] = <<>> /\ \A k \in 1 .. N : f[k] = step[k][f[k - 1]]
    BY <2>0
  <2>2. ASSUME NEW k \in 1 .. N PROVE f[k] = Next1(k, f[k - 1])
    <3>1. k - 1 \in 0 .. N
      BY <1>0
    <3>2. f[k - 1] \in Seq(Byte)
      BY <2>1, <3>1
    <3> QED
      BY <2>1, <3>2
  <2>3. Is(f)
    <3> HIDE DEF Next1
    <3> QED
      BY <1>0, <2>1, <2>2
  <2> QED
    BY <2>3
<1>4. Columns(r) = CHOOSE f : Is(f)
  BY DEF Columns
<1>5. Is(Columns(r))
  <2> HIDE DEF Is
  <2> QED
    BY <1>3, <1>4
<1> DEFINE out == Columns(r)
<1> HIDE DEF out
<1>6. out = [k \in 0 .. N |-> IF k = 0 THEN <<>> ELSE Next1(k, out[k - 1])]
  BY <1>5 DEF out
<1>7. /\ DOMAIN out = 0 .. N /\ out[0] = <<>>
      /\ \A k \in 1 .. N : out[k] = Next1(k, out[k - 1])
  <2> HIDE DEF Next1
  <2> QED
    BY <1>0, <1>6
<1>8. \A k \in 0 .. N : out[k] \in Seq(Byte)
  <2> HIDE DEF N, Next1
  <2> DEFINE good == {k \in 0 .. N : out[k] \in Seq(Byte)}
  <2>0. out[0] \in Seq(Byte)
    BY <1>0, <1>7, Zenon
  <2>1. 0 \in good
    BY <1>0, <2>0
  <2>2. ASSUME NEW k \in 1 .. N, k - 1 \in good PROVE k \in good
    BY <1>1, <1>7, <2>2
  <2>3. \A k \in 1 .. N : k - 1 \in good => k \in good
    BY <2>2
  <2>4. \A k \in 0 .. N : k \in good
    <3> HIDE DEF good
    <3> QED
      BY <1>0, <2>1, <2>3, LoopInduction
  <2> QED
    BY <2>4
<1>9. out \in [0 .. N -> Seq(Byte)]
  BY <1>6, <1>7, <1>8
<1> QED
  BY <1>0, <1>7, <1>9 DEF out

(* A column adds its four bytes and its value to what was encoded before.  *)
LEMMA ColumnAdds ==
  ASSUME NEW r \in Rows, NEW k \in 1 .. Len(r)
  PROVE  /\ k - 1 \in 0 .. Len(r) /\ Columns(r)[k - 1] \in Seq(Byte) /\ Columns(r)[k] \in Seq(Byte)
         /\ Len(Columns(r)[k - 1]) \in Nat /\ ValueLen(r[k]) \in Nat
         /\ Len(Columns(r)[k]) = Len(Columns(r)[k - 1]) + (4 + ValueLen(r[k]))
         /\ \A j \in 1 .. Len(Columns(r)[k - 1]) : Columns(r)[k][j] = Columns(r)[k - 1][j]
         /\ \A j \in 1 .. 4 + ValueLen(r[k]) :
              Columns(r)[k][Len(Columns(r)[k - 1]) + j] = Column(r[k])[j]
<1> DEFINE a == Columns(r)[k - 1]
           b == Columns(r)[k]
           c == Column(r[k])
           v == ValueLen(r[k])
<1>0. Len(r) \in Nat /\ Columns(r) \in [0 .. Len(r) -> Seq(Byte)] /\ b = a \o c
  BY ColumnsDef
<1>1. k - 1 \in 0 .. Len(r) /\ k \in 0 .. Len(r)
  BY <1>0
<1>2. a \in Seq(Byte) /\ b \in Seq(Byte)
  BY <1>0, <1>1
<1>3. c \in Seq(Byte) /\ v \in Nat /\ Len(c) = 4 + v
  BY ColumnIs
<1> HIDE DEF a, b, c, v
<1>4. Len(a) \in Nat
  BY <1>2, LenProperties
<1>5. /\ Len(a \o c) = Len(a) + Len(c)
      /\ \A j \in 1 .. Len(a) + Len(c) : (a \o c)[j] = IF j <= Len(a) THEN a[j] ELSE c[j - Len(a)]
  BY <1>2, <1>3, ConcatProperties
<1>6. ASSUME NEW j \in 1 .. Len(a) PROVE b[j] = a[j]
  <2>1. j \in 1 .. Len(a) + Len(c) /\ j <= Len(a)
    BY <1>3, <1>4
  <2> QED
    BY <1>0, <1>5, <2>1
<1>7. ASSUME NEW j \in 1 .. 4 + v PROVE b[Len(a) + j] = c[j]
  <2>1. Len(a) + j \in 1 .. Len(a) + Len(c) /\ ~(Len(a) + j <= Len(a)) /\ (Len(a) + j) - Len(a) = j
    BY <1>3, <1>4
  <2> QED
    BY <1>0, <1>5, <2>1
<1> QED
  BY <1>0, <1>1, <1>2, <1>3, <1>4, <1>5, <1>6, <1>7 DEF a, b, c, v

(* What is encoded after a column is how everything encoded later begins.  *)
LEMMA ColumnsGrow ==
  ASSUME NEW r \in Rows, NEW k \in 0 .. Len(r)
  PROVE  \A m \in k .. Len(r) :
           /\ Len(Columns(r)[k]) \in Nat /\ Len(Columns(r)[m]) \in Nat
           /\ Len(Columns(r)[k]) <= Len(Columns(r)[m])
           /\ \A j \in 1 .. Len(Columns(r)[k]) : Columns(r)[m][j] = Columns(r)[k][j]
<1> DEFINE C(m) == Columns(r)[m]
           N == Len(r)
           Begins(m) == /\ Len(C(m)) \in Nat /\ Len(C(k)) <= Len(C(m))
                        /\ \A j \in 1 .. Len(C(k)) : C(m)[j] = C(k)[j]
           good == {m \in 0 .. N : m >= k => Begins(m)}
<1>0. N \in Nat /\ \A m \in 0 .. N : C(m) \in Seq(Byte) /\ Len(C(m)) \in Nat
  <2>1. N \in Nat /\ \A m \in 0 .. N : C(m) \in Seq(Byte)
    BY ColumnsDef
  <2> QED
    BY <2>1, LenProperties
<1>a. Begins(k)
  BY <1>0
<1>1. 0 \in good
  <2> HIDE DEF Begins
  <2> QED
    BY <1>0, <1>a
<1>2. ASSUME NEW m \in 1 .. N, m - 1 \in good PROVE m \in good
  <2>1. CASE m <= k
    <3> HIDE DEF Begins
    <3> QED
      BY <1>0, <1>a, <2>1
  <2>2. CASE m > k
    <3>1. Begins(m - 1)
      <4> HIDE DEF Begins
      <4> QED
        BY <1>0, <1>2, <2>2
    <3>2. /\ ValueLen(r[m]) \in Nat /\ Len(C(m)) = Len(C(m - 1)) + (4 + ValueLen(r[m]))
          /\ Len(C(m - 1)) \in Nat
          /\ \A j \in 1 .. Len(C(m - 1)) : C(m)[j] = C(m - 1)[j]
      BY ColumnAdds
    <3> HIDE DEF C
    <3>3. Begins(m)
      BY <1>0, <3>1, <3>2
    <3> HIDE DEF Begins
    <3> QED
      BY <1>0, <3>3
  <2>3. m <= k \/ m > k
    BY <1>0
  <2> QED
    BY <2>1, <2>2, <2>3
<1>3. \A m \in 1 .. N : m - 1 \in good => m \in good
  BY <1>2
<1>4. \A m \in 0 .. N : m \in good
  <2> HIDE DEF good, N
  <2> QED
    BY <1>0, <1>1, <1>3, LoopInduction
<1>5. ASSUME NEW m \in k .. N PROVE Begins(m)
  <2> HIDE DEF Begins
  <2>1. m \in 0 .. N /\ m >= k
    BY <1>0
  <2> QED
    BY <1>4, <2>1
<1> QED
  BY <1>0, <1>5
-----------------------------------------------------------------------------
(* The payload of a row: two bytes of the count, then the columns, cut     *)
(* somewhere.                                                              *)
LEMMA PayloadIs ==
  ASSUME NEW r \in Rows, NEW p \in RowPayloads(r)
  PROVE  /\ p \in Seq(Byte) /\ Len(p) \in Nat
         /\ Len(p) <= 2 + Len(Columns(r)[Len(r)])
         /\ \A j \in 3 .. Len(p) : p[j] = Columns(r)[Len(r)][j - 2]
<1> DEFINE col == Columns(r)[Len(r)]
<1>0. col \in Seq(Byte) /\ Len(col) \in Nat /\ Len(r) \in Nat
  <2>0. Len(r) \in Nat /\ Columns(r) \in [0 .. Len(r) -> Seq(Byte)]
    BY ColumnsDef
  <2>1. Len(r) \in 0 .. Len(r) /\ Len(r) \in Nat /\ col \in Seq(Byte)
    BY <2>0
  <2> QED
    BY <2>1, LenProperties
<1>1. PICK c \in Counts(r), cut \in 0 .. Len(col) + 2 :
        p = SubSeq(<<c \div Base, c % Base>> \o col, 1, cut)
  BY DEF RowPayloads
<1> HIDE DEF col
<1>2. c \in Nat /\ c < Base * Base
  <2>1. Len(r) + Slack < Base * Base /\ Slack \in Nat /\ Base * Base \in Nat
    BY QueryAssumption, Powers
  <2>2. c \in (Len(r) - Slack) .. (Len(r) + Slack) /\ c >= 0
    BY DEF Counts
  <2> DEFINE b == Base * Base
  <2> HIDE DEF b
  <2>3. Len(r) + Slack < b /\ b \in Nat
    BY <2>1 DEF b
  <2>4. c \in Nat /\ c < b
    BY <1>0, <2>1, <2>2, <2>3
  <2> QED
    BY <2>4 DEF b
<1>3. c \div Base \in Byte /\ c % Base \in Byte
  <2>0. Base \in Nat /\ Base >= 2
    BY Powers
  <2>1. PICK q \in Nat, d \in 0 .. Base - 1 : c = q * Base + d /\ c \div Base = q
    BY <1>2, <2>0, DivSplit
  <2>2. c % Base = d
    BY <2>0, <2>1, DivUnique
  <2>3. q <= Base - 1
    <3> SUFFICES ASSUME q >= Base PROVE FALSE
      BY <2>0
    <3>1. Base * Base <= Base * q /\ Base * q = q * Base /\ q * Base \in Nat /\ Base * Base \in Nat
      BY <2>0, Mul, Distributes
    <3> DEFINE x == q * Base
               b == Base * Base
    <3>2. b <= x /\ x \in Nat /\ b \in Nat /\ c = x + d /\ c < b
      BY <1>2, <2>1, <3>1
    <3> HIDE DEF x, b
    <3> QED
      BY <2>1, <3>2
  <2> QED
    BY <2>0, <2>1, <2>2, <2>3 DEF Byte
<1> DEFINE two == <<c \div Base, c % Base>>
           complete == two \o col
<1>4. two \in Seq(Byte) /\ Len(two) = 2
  BY <1>3
<1> HIDE DEF two
<1>5. /\ complete \in Seq(Byte) /\ Len(complete) = 2 + Len(col)
      /\ \A j \in 1 .. 2 + Len(col) : complete[j] = IF j <= 2 THEN two[j] ELSE col[j - 2]
  <2>1. /\ two \o col \in Seq(Byte) /\ Len(two \o col) = Len(two) + Len(col)
        /\ \A j \in 1 .. Len(two) + Len(col) :
             (two \o col)[j] = IF j <= Len(two) THEN two[j] ELSE col[j - Len(two)]
    BY <1>0, <1>4, ConcatProperties
  <2> QED
    BY <1>4, <2>1, Zenon
<1>6. p = SubSeq(complete, 1, cut)
  BY <1>1 DEF two
<1> HIDE DEF complete
<1>7. /\ p \in Seq(Byte) /\ Len(p) = cut
      /\ \A j \in 1 .. cut : p[j] = complete[j]
  <2>1. 1 \in 1 .. Len(complete) + 1 /\ cut \in 1 - 1 .. Len(complete) /\ cut - 1 + 1 = cut
    BY <1>0, <1>5
  <2>2. /\ p \in Seq(Byte) /\ Len(p) = cut
        /\ \A j \in 1 .. cut : p[j] = complete[1 + j - 1]
    BY <1>5, <1>6, <2>1, PartType
  <2>3. \A j \in 1 .. cut : 1 + j - 1 = j
    OBVIOUS
  <2> QED
    BY <2>2, <2>3
<1>8. ASSUME NEW j \in 3 .. cut PROVE p[j] = col[j - 2]
  <2>1. j \in 1 .. cut /\ j \in 1 .. 2 + Len(col) /\ ~(j <= 2)
    BY <1>0
  <2> QED
    BY <1>5, <1>7, <2>1
<1>9. Len(p) \in Nat /\ Len(p) <= 2 + Len(col)
  BY <1>0, <1>7
<1> QED
  BY <1>7, <1>8, <1>9 DEF col

(* Where a column starts in the payload its length can be read, and behind *)
(* that its value, as far as they were not cut (ParseDataRow).             *)
LEMMA FieldAt ==
  ASSUME NEW r \in Rows, NEW p \in RowPayloads(r), NEW k \in 1 .. Len(r),
         NEW at, at = 3 + Len(Columns(r)[k - 1])
  PROVE  /\ at \in Nat /\ at >= 3 /\ ValueLen(r[k]) \in Nat
         /\ 3 + Len(Columns(r)[k]) = at + 4 + ValueLen(r[k])
         /\ at + 3 <= Len(p) => Int32(p, at) = Announced(r[k])
         /\ r[k] # Null => r[k] \in Seq(Byte)
         /\ r[k] # Null /\ at + 3 + Len(r[k]) <= Len(p) =>
              SubSeq(p, at + 4, at + 3 + Len(r[k])) = r[k]
<1> DEFINE N == Len(r)
           before == Len(Columns(r)[k - 1])
           v == ValueLen(r[k])
           col == Columns(r)[N]
           after == Len(Columns(r)[k])
           L == Len(p)
<1>1. /\ before \in Nat /\ v \in Nat /\ Len(Columns(r)[k]) = before + (4 + v)
      /\ \A j \in 1 .. 4 + v : Columns(r)[k][before + j] = Column(r[k])[j]
  BY ColumnAdds
<1>2. N \in Nat /\ k \in 0 .. N /\ N \in k .. N
  <2>1. N \in Nat
    BY ColumnsDef
  <2> QED
    BY <2>1
<1>3. \A j \in 1 .. Len(Columns(r)[k]) : col[j] = Columns(r)[k][j]
  BY <1>2, ColumnsGrow
<1>4. p \in Seq(Byte) /\ L \in Nat /\ \A j \in 3 .. L : p[j] = col[j - 2]
  BY PayloadIs
<1>5. /\ r[k] # Null => r[k] \in Seq(Byte) /\ \A j \in 1 .. Len(r[k]) : Column(r[k])[4 + j] = r[k][j]
      /\ \A q, off : (/\ q[off] = Column(r[k])[1] /\ q[off + 1] = Column(r[k])[2]
                      /\ q[off + 2] = Column(r[k])[3] /\ q[(off + 2) + 1] = Column(r[k])[4])
                     => Int32(q, off) = Announced(r[k])
  BY ColumnIs
<1> HIDE DEF N, before, v, col, after, L
<1>6. L \in Nat /\ at = 3 + before /\ before \in Nat /\ v \in Nat /\ after = before + (4 + v)
  BY <1>1, <1>4 DEF before, after
<1>7. ASSUME NEW j \in 1 .. 4 + v, at + j - 1 <= L PROVE p[at + j - 1] = Column(r[k])[j]
  <2>1. at + j - 1 \in 3 .. L /\ (at + j - 1) - 2 = before + j
        /\ before + j \in 1 .. after
    BY <1>6, <1>7
  <2> QED
    BY <1>1, <1>3, <1>4, <2>1 DEF after
<1>8. ASSUME at + 3 <= L PROVE Int32(p, at) = Announced(r[k])
  <2>1. /\ 1 \in 1 .. 4 + v /\ at + 1 - 1 = at /\ at + 1 - 1 <= L
        /\ 2 \in 1 .. 4 + v /\ at + 2 - 1 = at + 1 /\ at + 2 - 1 <= L
        /\ 3 \in 1 .. 4 + v /\ at + 3 - 1 = at + 2 /\ at + 3 - 1 <= L
        /\ 4 \in 1 .. 4 + v /\ at + 4 - 1 = (at + 2) + 1 /\ at + 4 - 1 <= L
    BY <1>6, <1>8
  <2>2. /\ p[at] = Column(r[k])[1] /\ p[at + 1] = Column(r[k])[2]
        /\ p[at + 2] = Column(r[k])[3] /\ p[(at + 2) + 1] = Column(r[k])[4]
    BY <1>7, <2>1
  <2> QED
    BY <1>5, <2>2
<1>9. ASSUME r[k] # Null, at + 3 + Len(r[k]) <= L
      PROVE  SubSeq(p, at + 4, at + 3 + Len(r[k])) = r[k]
  <2> DEFINE l == Len(r[k])
             s == SubSeq(p, at + 4, at + 3 + l)
  <2>1. v = l
    BY <1>9 DEF v, ValueLen
  <2> HIDE DEF l
  <2>2. at + 4 \in 1 .. L + 1 /\ at + 3 + l \in (at + 4) - 1 .. L
        /\ (at + 3 + l) - (at + 4) + 1 = l
    <3>1. at + 3 + l <= L
      BY <1>9 DEF l
    <3> QED
      BY <1>6, <2>1, <3>1
  <2> HIDE DEF L
  <2>3. s \in Seq(Byte) /\ Len(s) = l /\ \A j \in 1 .. l : s[j] = p[(at + 4) + j - 1]
    <3>1. \A a \in 1 .. L + 1 : \A b \in a - 1 .. L :
            /\ SubSeq(p, a, b) \in Seq(Byte) /\ Len(SubSeq(p, a, b)) = b - a + 1
            /\ \A j \in 1 .. b - a + 1 : SubSeq(p, a, b)[j] = p[a + j - 1]
      BY <1>4, PartType DEF L
    <3> QED
      BY <2>2, <3>1
  <2> HIDE DEF s
  <2>4. ASSUME NEW j \in 1 .. l PROVE s[j] = r[k][j]
    <3>1. /\ (at + 4) + j - 1 = at + (4 + j) - 1 /\ 4 + j \in 1 .. 4 + v
          /\ at + (4 + j) - 1 <= L
      <4>1. at + 3 + l <= L
        BY <1>9 DEF l
      <4>2. \A x, y \in Nat : (x + 4) + y - 1 = x + (4 + y) - 1
        OBVIOUS
      <4>3. j \in Nat /\ 1 <= j /\ j <= l /\ l \in Nat /\ at \in Nat
        BY <1>6, <2>1
      <4>4. 4 + j \in 1 .. 4 + v
        BY <2>1, <4>3
      <4>5. at + (4 + j) - 1 <= L
        <5>1. \A a, b, c, d \in Nat : b <= c /\ a + 3 + c <= d => a + (4 + b) - 1 <= d
          OBVIOUS
        <5> QED
          BY <1>6, <4>1, <4>3, <5>1
      <4> QED
        BY <4>2, <4>3, <4>4, <4>5
    <3>2. p[at + (4 + j) - 1] = Column(r[k])[4 + j]
      BY <1>7, <3>1
    <3> QED
      BY <1>5, <1>9, <2>3, <3>1, <3>2 DEF l
  <2>5. s = r[k]
    BY <1>5, <1>9, <2>3, <2>4, SeqEqual DEF l
  <2> QED
    BY <2>5 DEF s, l
<1>10. at \in Nat /\ at >= 3 /\ 3 + after = at + 4 + v
  BY <1>6
<1> QED
  BY <1>1, <1>5, <1>8, <1>9, <1>10 DEF v, after, L

(* The columns that are not NULL are counted one by one.                   *)
LEMMA CountNotNulls ==
  ASSUME NEW r, NEW k \in Nat
  PROVE  /\ IsFiniteSet(NotNulls(r, k)) /\ Cardinality(NotNulls(r, k)) \in Nat
         /\ r[k + 1] = Null => NotNulls(r, k + 1) = NotNulls(r, k)
         /\ r[k + 1] # Null =>
              /\ NotNulls(r, k + 1) = NotNulls(r, k) \cup {k + 1}
              /\ Cardinality(NotNulls(r, k + 1)) = Cardinality(NotNulls(r, k)) + 1
         /\ \A j \in NotNulls(r, k) : Cardinality(NotNulls(r, j)) \in 1 .. Cardinality(NotNulls(r, k))
<1>0. ASSUME NEW m \in Nat PROVE IsFiniteSet(NotNulls(r, m)) /\ Cardinality(NotNulls(r, m)) \in Nat
  <2>1. IsFiniteSet(1 .. m)
    BY FS_Interval
  <2>2. NotNulls(r, m) \subseteq 1 .. m
    BY DEF NotNulls
  <2> QED
    BY <2>1, <2>2, FS_Subset, FS_CardinalityType
<1>1. r[k + 1] = Null => NotNulls(r, k + 1) = NotNulls(r, k)
  BY DEF NotNulls
<1>2. ASSUME r[k + 1] # Null
      PROVE  /\ NotNulls(r, k + 1) = NotNulls(r, k) \cup {k + 1}
             /\ Cardinality(NotNulls(r, k + 1)) = Cardinality(NotNulls(r, k)) + 1
  <2>1. NotNulls(r, k + 1) = NotNulls(r, k) \cup {k + 1} /\ k + 1 \notin NotNulls(r, k)
    BY <1>2 DEF NotNulls
  <2> QED
    BY <1>0, <2>1, FS_AddElement
<1>3. ASSUME NEW j \in NotNulls(r, k)
      PROVE  Cardinality(NotNulls(r, j)) \in 1 .. Cardinality(NotNulls(r, k))
  <2>1. j \in Nat /\ NotNulls(r, j) \subseteq NotNulls(r, k) /\ j \in NotNulls(r, j)
    BY DEF NotNulls
  <2>2. Cardinality(NotNulls(r, j)) <= Cardinality(NotNulls(r, k)) /\ Cardinality(NotNulls(r, j)) \in Nat
        /\ Cardinality(NotNulls(r, k)) \in Nat
    BY <1>0, <2>1, FS_Subset
  <2>3. Cardinality(NotNulls(r, j)) # 0
    BY <1>0, <2>1, FS_EmptySet
  <2> QED
    BY <2>2, <2>3
<1> QED
  BY <1>0, <1>1, <1>2, <1>3
-----------------------------------------------------------------------------
(* A field count is a number of two bytes (ParseDataRow).                  *)
LEMMA CountType ==
  ASSUME NEW p \in Seq(Byte), Len(p) >= 2
  PROVE  Uint16(p, 1) \in 0 .. Base * Base - 1
<1>1. p[1] \in Byte /\ p[2] \in Byte
  <2>1. Len(p) \in Nat
    BY LenProperties
  <2>2. 1 \in 1 .. Len(p) /\ 2 \in 1 .. Len(p)
    BY <2>1
  <2> QED
    BY <2>2, ElementOfSeq
<1> DEFINE a == p[1]
           b == p[2]
           B == Base
<1>2. a \in 0 .. B - 1 /\ b \in 0 .. B - 1 /\ B \in Nat /\ B >= 2
  BY <1>1, Powers DEF Byte
<1> HIDE DEF a, b, B
<1>3. B * a <= B * (B - 1) /\ B * a \in Nat /\ B * (B - 1) = B * B - B /\ B * a = a * B
      /\ B * B \in Nat
  <2>1. a \in Nat /\ B - 1 \in Nat /\ a <= B - 1
    BY <1>2
  <2>2. B * a <= B * (B - 1) /\ B * a \in Nat
    BY <1>2, <2>1, Mul
  <2>3. B * (B - 1) = B * B - B /\ B * a = a * B /\ B * B \in Nat
    BY <1>2, <2>1
  <2> QED
    BY <2>2, <2>3
<1> DEFINE x == a * B
           y == B * B
<1>4. x \in Nat /\ y \in Nat /\ x <= y - B
  BY <1>3
<1> HIDE DEF x, y
<1>5. x + b \in 0 .. y - 1
  BY <1>2, <1>4
<1> QED
  BY <1>5 DEF Uint16, x, y, a, b, B

(* The invariant holds when ParseDataRow is called.                        *)
LEMMA IInvInit == Init => IInv
<1> SUFFICES ASSUME Init PROVE IInv
  OBVIOUS
<1>0. pc = "start" /\ n = 0 /\ i = 0 /\ pos = 1 /\ vals = Nothing
  BY DEF Init
<1>1. /\ pkt.type \in {"Q", "P", "B", "E", "Z", "D"} /\ pkt.payload \in Seq(Byte)
      /\ pkt.type = "D" => row \in Rows /\ pkt.payload \in RowPayloads(row)
  <2>1. CASE \E t \in {"Q", "P", "B", "E", "Z"}, p \in Texts : pkt = [type |-> t, payload |-> p]
    BY <2>1, QueryAssumption
  <2>2. CASE row \in Rows /\ \E p \in RowPayloads(row) : pkt = [type |-> "D", payload |-> p]
    <3>1. PICK p \in RowPayloads(row) : pkt = [type |-> "D", payload |-> p]
      BY <2>2
    <3>2. p \in Seq(Byte)
      BY <2>2, PayloadIs
    <3> QED
      BY <2>2, <3>1, <3>2
  <2> QED
    BY <2>1, <2>2 DEF Init
<1>2. 0 \in 0 .. Base * Base - 1
  <2> DEFINE b == Base * Base
  <2>1. b \in Nat /\ b >= 4
    BY Powers
  <2> HIDE DEF b
  <2>2. 0 \in 0 .. b - 1
    BY <2>1
  <2> QED
    BY <2>2 DEF b
<1>3. 1 \in 1 .. Len(pkt.payload) + 1
  <2>1. Len(pkt.payload) \in Nat
    BY <1>1, LenProperties
  <2> QED
    BY <2>1
<1>4. TypeOK
  BY <1>0, <1>1, <1>2, <1>3 DEF TypeOK
<1>5. LoopInv
  BY <1>0 DEF LoopInv
<1>6. RowInv
  BY <1>0, <1>1 DEF RowInv
<1>7. RowValues
  BY <1>0 DEF RowValues
<1> QED
  BY <1>4, <1>5, <1>6, <1>7 DEF IInv

(* The call of ParseDataRow: nothing is read yet.                          *)
LEMMA BeginKeeps ==
  ASSUME IInv, Begin
  PROVE  IInv'
<1> USE DEF IInv
<1>1. pkt' = pkt /\ row' = row /\ i' = i /\ i = 0 /\ vals = Nothing /\ pc = "start"
  BY DEF Begin, LoopInv
<1>2. CASE pkt.type # "D" \/ Len(pkt.payload) < 2
  <2>1. pc' = "done" /\ n' = n /\ pos' = pos /\ vals' = vals
    BY <1>2 DEF Begin
  <2>2. TypeOK'
    BY <1>1, <2>1 DEF TypeOK
  <2>3. LoopInv'
    BY <1>1, <2>1 DEF LoopInv
  <2>4. RowInv'
    BY <1>1, <2>1 DEF RowInv
  <2>5. RowValues'
    BY <1>1, <1>2, <2>1 DEF RowValues
  <2> QED
    BY <2>2, <2>3, <2>4, <2>5
<1>3. CASE pkt.type = "D" /\ ~(Len(pkt.payload) < 2)
  <2>0. pc' = "row" /\ n' = Uint16(pkt.payload, 1) /\ pos' = 3 /\ vals' = <<>>
    BY <1>3 DEF Begin
  <2>1. pkt.payload \in Seq(Byte) /\ Len(pkt.payload) \in Nat /\ Len(pkt.payload) >= 2
    <3>1. pkt.payload \in Seq(Byte)
      BY DEF TypeOK
    <3>2. Len(pkt.payload) \in Nat
      BY <3>1, LenProperties
    <3> QED
      BY <1>3, <3>1, <3>2
  <2>2. n' \in 0 .. Base * Base - 1
    BY <2>0, <2>1, CountType
  <2>3. TypeOK'
    <3>1. i' \in 0 .. n'
      <4> DEFINE b == Base * Base
      <4> HIDE DEF b
      <4>1. n' \in 0 .. b - 1 /\ b \in Nat
        BY <2>2, Powers DEF b
      <4> QED
        BY <1>1, <4>1
    <3>2. pos' \in 1 .. Len(pkt'.payload) + 1
      BY <1>1, <2>0, <2>1
    <3>3. vals' \in Seq(Seq(Byte))
      BY <2>0, EmptySeq
    <3> QED
      BY <1>1, <2>0, <2>2, <3>1, <3>2, <3>3 DEF TypeOK
  <2>4. LoopInv'
    BY <1>1, <1>3, <2>0, <2>1, EmptySeq DEF LoopInv
  <2>5. row \in Rows /\ pkt.payload \in RowPayloads(row)
    BY <1>3 DEF RowInv
  <2>6. i' \in 0 .. Len(row') /\ pos' = 3 + Len(Columns(row')[i'])
    <3>1. Len(row) \in Nat /\ Columns(row)[0] = <<>>
      BY <2>5, ColumnsDef
    <3>2. Len(<<>>) = 0 /\ 0 \in 0 .. Len(row) /\ 3 = 3 + 0
      BY <3>1
    <3> QED
      BY <1>1, <2>0, <3>1, <3>2
  <2>7. ValuesOf(vals', row', i')
    <3>1. NotNulls(row, 0) = {}
      BY DEF NotNulls
    <3>2. Cardinality({}) = 0 /\ Len(<<>>) = 0
      BY FS_EmptySet
    <3> QED
      BY <1>1, <2>0, <3>1, <3>2 DEF ValuesOf
  <2>8. RowInv'
    BY <1>1, <2>5, <2>6, <2>7 DEF RowInv
  <2>9. RowValues'
    BY <2>0 DEF RowValues
  <2> QED
    BY <2>3, <2>4, <2>8, <2>9
<1> QED
  BY <1>2, <1>3
-----------------------------------------------------------------------------
(* Where the loop is: at the start of the next column, if there is one.    *)
LEMMA InTheLoop ==
  ASSUME IInv, pc = "row"
  PROVE  /\ pkt.type = "D" /\ row \in Rows /\ pkt.payload \in RowPayloads(row)
         /\ pkt.payload \in Seq(Byte) /\ vals \in Seq(Seq(Byte)) /\ Len(pkt.payload) >= 2
         /\ Len(row) \in Nat /\ Len(pkt.payload) \in Nat /\ i \in 0 .. Len(row) /\ i <= n
         /\ i \in Nat /\ n \in Nat /\ pos \in Nat /\ pos <= Len(pkt.payload) + 1
         /\ pos = 3 + Len(Columns(row)[i]) /\ Len(Columns(row)[i]) \in Nat
         /\ ValuesOf(vals, row, i)
<1>1. /\ pkt.type = "D" /\ row \in Rows /\ pkt.payload \in RowPayloads(row)
      /\ pkt.payload \in Seq(Byte) /\ vals \in Seq(Seq(Byte)) /\ Len(pkt.payload) >= 2
      /\ i \in 0 .. Len(row) /\ pos = 3 + Len(Columns(row)[i]) /\ ValuesOf(vals, row, i)
  BY DEF IInv, TypeOK, LoopInv, RowInv
<1>2. Len(row) \in Nat /\ Columns(row) \in [0 .. Len(row) -> Seq(Byte)]
  BY <1>1, ColumnsDef
<1>3. Len(pkt.payload) \in Nat /\ Len(Columns(row)[i]) \in Nat
  BY <1>1, <1>2, LenProperties
<1>4. i \in Nat /\ n \in Nat /\ i <= n
  <2> DEFINE b == Base * Base
  <2> HIDE DEF b
  <2>1. n \in 0 .. b - 1 /\ b \in Nat /\ i \in 0 .. n
    BY Powers DEF IInv, TypeOK, b
  <2> QED
    BY <2>1
<1>5. pos \in Nat /\ pos <= Len(pkt.payload) + 1
  BY <1>3 DEF IInv, TypeOK
<1> QED
  BY <1>1, <1>2, <1>3, <1>4, <1>5

(* The next column and its value are read, or its NULL is skipped.         *)
LEMMA FieldKeeps ==
  ASSUME IInv, Field
  PROVE  IInv'
<1> DEFINE p == pkt.payload
           l == Int32(p, pos)
           k == i + 1
           c == row[k]
           L == Len(p)
<1>0. pc = "row" /\ FieldFits
  BY DEF Field
<1>1. /\ pkt.type = "D" /\ row \in Rows /\ p \in RowPayloads(row)
      /\ p \in Seq(Byte) /\ vals \in Seq(Seq(Byte)) /\ L >= 2
      /\ Len(row) \in Nat /\ L \in Nat /\ i \in 0 .. Len(row) /\ i <= n
      /\ i \in Nat /\ n \in Nat /\ pos \in Nat /\ pos <= L + 1
      /\ pos = 3 + Len(Columns(row)[i]) /\ Len(Columns(row)[i]) \in Nat
      /\ ValuesOf(vals, row, i)
  BY <1>0, InTheLoop
<1>2. i < n /\ pos + 3 <= L /\ pos + 3 + l <= L
  BY <1>0 DEF FieldFits
<1>3. pkt' = pkt /\ row' = row /\ n' = n /\ pc' = pc /\ i' = k
  BY DEF Field
<1>4. k \in 1 .. Len(row)
  <2>1. L <= 2 + Len(Columns(row)[Len(row)])
    BY <1>1, PayloadIs
  <2>2. i # Len(row)
    <3> SUFFICES ASSUME i = Len(row) PROVE FALSE
      OBVIOUS
    <3> DEFINE m == Len(Columns(row)[i])
    <3>1. L <= 2 + m /\ m \in Nat /\ pos = 3 + m
      BY <1>1, <2>1
    <3> HIDE DEF m, L
    <3> QED
      BY <1>2, <3>1, <1>1
  <2> QED
    BY <1>1, <2>2
<1>5. /\ ValueLen(c) \in Nat /\ 3 + Len(Columns(row)[k]) = pos + 4 + ValueLen(c)
      /\ l = Announced(c)
      /\ c # Null => c \in Seq(Byte)
      /\ c # Null /\ pos + 3 + Len(c) <= L => SubSeq(p, pos + 4, pos + 3 + Len(c)) = c
  <2>1. k - 1 = i
    BY <1>1
  <2>2. pos = 3 + Len(Columns(row)[k - 1])
    BY <1>1, <2>1
  <2> HIDE DEF k, p
  <2> QED
    BY <1>1, <1>2, <1>4, <2>2, FieldAt
<1>6. /\ IsFiniteSet(NotNulls(row, i)) /\ Cardinality(NotNulls(row, i)) \in Nat
      /\ c = Null => NotNulls(row, k) = NotNulls(row, i)
      /\ c # Null => /\ NotNulls(row, k) = NotNulls(row, i) \cup {k}
                     /\ Cardinality(NotNulls(row, k)) = Cardinality(NotNulls(row, i)) + 1
      /\ \A j \in NotNulls(row, i) : Cardinality(NotNulls(row, j)) \in 1 .. Cardinality(NotNulls(row, i))
  BY <1>1, CountNotNulls
<1>7. /\ pos' \in 1 .. L + 1 /\ vals' \in Seq(Seq(Byte))
      /\ pos' = 3 + Len(Columns(row)[k]) /\ ValuesOf(vals', row, k)
  <2>1. CASE c = Null
    <3>1. l = 0 - 1 /\ ValueLen(c) = 0
      BY <1>5, <2>1 DEF Announced, ValueLen
    <3>2. l < 0 /\ ~(l >= 0)
      BY <3>1
    <3>3. pos' = pos + 4 /\ vals' = vals
      BY <3>2 DEF Field
    <3>4. ValuesOf(vals', row, k)
      BY <1>1, <1>6, <2>1, <3>3 DEF ValuesOf
    <3> HIDE DEF p, l, k, c, L
    <3>5. pos' \in 1 .. L + 1
      BY <1>1, <1>2, <3>3
    <3>6. pos' = 3 + Len(Columns(row)[k])
      BY <1>1, <1>5, <3>1, <3>3
    <3> QED
      BY <1>1, <3>3, <3>4, <3>5, <3>6
  <2>2. CASE c # Null
    <3>1. l = Len(c) /\ ValueLen(c) = l /\ l \in Nat /\ c \in Seq(Byte)
      BY <1>5, <2>2 DEF Announced, ValueLen
    <3>2. l >= 0 /\ ~(l < 0)
      BY <3>1
    <3>3. pos' = pos + 4 + l /\ vals' = Append(vals, SubSeq(p, pos + 4, pos + 3 + l))
      BY <3>2 DEF Field
    <3> HIDE DEF p, l, k, c, L
    <3>4. vals' = Append(vals, c)
      BY <1>2, <1>5, <2>2, <3>1, <3>3
    <3>5. pos' \in 1 .. L + 1
      <4>1. \A x, y, z \in Nat : x + 3 + y <= z => x + 4 + y \in 1 .. z + 1
        OBVIOUS
      <4> QED
        BY <1>1, <1>2, <3>1, <3>3, <4>1
    <3>6. pos' = 3 + Len(Columns(row)[k])
      BY <1>5, <3>1, <3>3
    <3>7. /\ vals' \in Seq(Seq(Byte)) /\ Len(vals') = Len(vals) + 1
          /\ \A j \in 1 .. Len(vals) : vals'[j] = vals[j]
          /\ vals'[Len(vals) + 1] = c
      BY <1>1, <3>1, <3>4, AppendProperties
    <3>8. Len(vals) = Cardinality(NotNulls(row, i))
          /\ \A j \in NotNulls(row, i) : vals[Cardinality(NotNulls(row, j))] = row[j]
      BY <1>1 DEF ValuesOf
    <3>9. ASSUME NEW j \in NotNulls(row, k) PROVE vals'[Cardinality(NotNulls(row, j))] = row[j]
      <4>1. CASE j = k
        BY <1>6, <2>2, <3>7, <3>8, <4>1 DEF c
      <4>2. CASE j \in NotNulls(row, i)
        BY <1>6, <3>7, <3>8, <4>2
      <4> QED
        BY <1>6, <2>2, <4>1, <4>2
    <3>10. ValuesOf(vals', row, k)
      BY <1>6, <2>2, <3>7, <3>8, <3>9 DEF ValuesOf
    <3> QED
      BY <3>5, <3>6, <3>7, <3>10
  <2> QED
    BY <2>1, <2>2
<1>8. TypeOK'
  <2>1. i' \in 0 .. n'
    BY <1>1, <1>2, <1>3
  <2>2. n' \in 0 .. Base * Base - 1 /\ pkt'.type \in {"Q", "P", "B", "E", "Z", "D"}
        /\ pkt'.payload \in Seq(Byte) /\ pc' \in {"start", "row", "done"}
    BY <1>3 DEF IInv, TypeOK
  <2> QED
    BY <1>3, <1>7, <2>1, <2>2 DEF TypeOK
<1>9. LoopInv'
  BY <1>0, <1>1, <1>3, <1>7 DEF LoopInv
<1>10. RowInv'
  <2>1. k \in 0 .. Len(row)
    BY <1>1, <1>4
  <2> QED
    BY <1>1, <1>3, <1>7, <2>1 DEF RowInv
<1>11. RowValues'
  BY <1>0, <1>3 DEF RowValues
<1> QED
  BY <1>8, <1>9, <1>10, <1>11 DEF IInv

(* When the loop is left, the columns passed are those announced that are  *)
(* wholly in the payload.                                                  *)
LEMMA LastWhole ==
  ASSUME IInv, pc = "row", ~FieldFits
  PROVE  Max(Whole) = i
<1> DEFINE p == pkt.payload
           L == Len(p)
<1>1. /\ row \in Rows /\ p \in RowPayloads(row)
      /\ Len(row) \in Nat /\ L \in Nat /\ i \in 0 .. Len(row) /\ i <= n
      /\ i \in Nat /\ n \in Nat /\ pos \in Nat /\ pos <= L + 1
      /\ pos = 3 + Len(Columns(row)[i]) /\ Len(Columns(row)[i]) \in Nat
  BY InTheLoop
<1>2. i \in Whole
  <2>1. 2 + Len(Columns(row)[i]) <= L
    <3> DEFINE m == Len(Columns(row)[i])
    <3>1. m \in Nat /\ pos = 3 + m
      BY <1>1
    <3> HIDE DEF m, L
    <3>2. 2 + m <= L
      BY <1>1, <3>1
    <3> QED
      BY <3>2 DEF m
  <2> QED
    BY <1>1, <2>1 DEF Whole
<1>3. ASSUME NEW k \in Whole PROVE i >= k
  <2> SUFFICES ASSUME k > i PROVE FALSE
    BY <1>1 DEF Whole
  <2> DEFINE j == i + 1
             v == ValueLen(row[j])
             m == Len(Columns(row)[j])
             w == Len(Columns(row)[k])
  <2>1. k \in 0 .. Len(row) /\ k <= n /\ 2 + w <= L
    BY DEF Whole
  <2>2. j \in 1 .. Len(row) /\ j \in 0 .. Len(row) /\ k \in j .. Len(row) /\ i < n /\ j - 1 = i
    BY <1>1, <2>1
  <2>3. m \in Nat /\ w \in Nat /\ m <= w
    <3> HIDE DEF j
    <3> QED
      BY <1>1, <2>2, ColumnsGrow
  <2>4. /\ v \in Nat /\ 3 + m = pos + 4 + v
        /\ pos + 3 <= L => Int32(p, pos) = Announced(row[j])
    <3>1. pos = 3 + Len(Columns(row)[j - 1])
      BY <1>1, <2>2
    <3> HIDE DEF j, p
    <3> QED
      BY <1>1, <2>2, <3>1, FieldAt
  <2> HIDE DEF m, w, v, L
  <2>5. pos + 3 + v <= L /\ pos + 3 <= L
    <3>1. \A a, b, c, d, e \in Nat : 3 + a = b + 4 + c /\ a <= d /\ 2 + d <= e => b + 3 + c <= e /\ b + 3 <= e
      OBVIOUS
    <3> QED
      BY <1>1, <2>1, <2>3, <2>4, <3>1
  <2>6. Announced(row[j]) = v \/ Announced(row[j]) = 0 - 1
    BY DEF Announced, ValueLen, v
  <2>7. pos + 3 + Int32(p, pos) <= L
    <3>1. pos + 3 + (0 - 1) <= L
      BY <1>1, <2>5
    <3> QED
      BY <2>4, <2>5, <2>6, <3>1
  <2>8. FieldFits
    BY <2>2, <2>5, <2>7 DEF FieldFits, L
  <2> QED
    BY <2>8
<1>4. \A k \in Whole : k \in Nat
  BY <1>1 DEF Whole
<1> DEFINE W == Whole
           x == CHOOSE x \in W : \A y \in W : x >= y
<1>5. x \in W /\ \A y \in W : x >= y
  <2> HIDE DEF W
  <2>1. i \in W /\ \A y \in W : i >= y
    BY <1>2, <1>3 DEF W
  <2> QED
    BY <2>1
<1>6. Max(Whole) = x
  BY DEF Max
<1> HIDE DEF x, W
<1>7. x = i
  BY <1>1, <1>2, <1>3, <1>4, <1>5 DEF W
<1> QED
  BY <1>6, <1>7

(* The return from the loop: what was collected is what the row says.      *)
LEMMA LeaveKeeps ==
  ASSUME IInv, Leave
  PROVE  IInv'
<1>0. pc = "row" /\ ~FieldFits
  BY DEF Leave
<1>1. /\ pc' = "done" /\ pkt' = pkt /\ row' = row /\ n' = n /\ i' = i
      /\ pos' = pos /\ vals' = vals
  BY DEF Leave
<1>2. pkt.type = "D" /\ Len(pkt.payload) >= 2 /\ ValuesOf(vals, row, i) /\ Len(pkt.payload) \in Nat
  BY <1>0, InTheLoop
<1>3. Max(Whole) = i
  BY <1>0, LastWhole
<1>4. TypeOK'
  BY <1>1 DEF IInv, TypeOK
<1>5. LoopInv'
  BY <1>1, <1>2 DEF IInv, LoopInv
<1>6. RowInv'
  BY <1>1 DEF IInv, RowInv
<1>7. RowValues'
  <2>1. Whole' = Whole
    BY <1>1 DEF Whole
  <2>2. Max(Whole') = i
    BY <1>3, <2>1
  <2>3. ~(Len(pkt.payload) < 2)
    BY <1>2
  <2> HIDE DEF Whole
  <2> QED
    BY <1>1, <1>2, <2>2, <2>3 DEF RowValues
<1> QED
  BY <1>4, <1>5, <1>6, <1>7 DEF IInv

(* Every step keeps the invariant.                                         *)
LEMMA IInvStep == IInv /\ [Next]_vars => IInv'
<1> SUFFICES ASSUME IInv, [Next]_vars PROVE IInv'
  OBVIOUS
<1>1. CASE Begin
  BY <1>1, BeginKeeps
<1>2. CASE Field
  BY <1>2, FieldKeeps
<1>3. CASE Leave
  BY <1>3, LeaveKeeps
<1>4. CASE UNCHANGED vars
  BY <1>4 DEF vars, IInv, TypeOK, LoopInv, RowInv, RowValues, Whole
<1> QED
  BY <1>1, <1>2, <1>3, <1>4 DEF Next

(* The invariant holds throughout ParseDataRow.                            *)
LEMMA IInvAlways == Spec => []IInv
<1>1. Init => IInv
  BY IInvInit
<1>2. IInv /\ [Next]_vars => IInv'
  BY IInvStep
<1> QED
  BY <1>1, <1>2, PTL DEF Spec

(* Fingerprinting reads what ParseDataRow returned and disturbs nothing,   *)
(* so that what is proved below holds with it as well.                     *)
LEMMA TokensKeepParsing == TokenSpec => Spec
<1>1. TokenInit => Init
  BY DEF TokenInit
<1>2. [TokenNext]_<<vars, tokenVars>> => [Next]_vars
  BY DEF TokenNext, Parse, Fingerprinted, Finished, vars, tokenVars
<1> QED
  BY <1>1, <1>2, PTL DEF TokenSpec, Spec

(* ParseDataRow stays inside the payload, whatever count it announces and  *)
(* wherever it is cut, and passes no more fields than announced.           *)
THEOREM TypeCorrect == Spec => []TypeOK
<1>1. IInv => TypeOK
  BY DEF IInv
<1> QED
  BY <1>1, IInvAlways, PTL

(* The text of a Parse message that ExtractSQL gives to be checked is the  *)
(* one ParseParse gives to be remembered for its executions, on every      *)
(* payload ParseParse accepts, and that of a simple query is the string    *)
(* the message holds.                                                      *)
THEOREM TextsAgree == Spec => []SameText
<1>1. IInv => SameText
  <2> SUFFICES ASSUME IInv PROVE SameText
    OBVIOUS
  <2>1. pkt.payload \in Seq(Byte)
    BY DEF IInv, TypeOK
  <2> QED
    BY <2>1, SameTextAlways
<1> QED
  BY <1>1, IInvAlways, PTL

(* ParseParse, ParseBind and ParseExecute return the strings the payload   *)
(* begins with and refuse only payloads with too few terminators.          *)
THEOREM ParsersDecode == Spec => []Decodes
<1>1. IInv => Decodes
  <2> SUFFICES ASSUME IInv PROVE Decodes
    OBVIOUS
  <2>1. pkt.payload \in Seq(Byte)
    BY DEF IInv, TypeOK
  <2> QED
    BY <2>1, DecodesAlways
<1> QED
  BY <1>1, IInvAlways, PTL

(* ParseDataRow returns the columns of the row that are not NULL, in       *)
(* order, as far as they were announced and not cut.                       *)
THEOREM RowsAreRead == Spec => []RowValues
<1>1. IInv => RowValues
  BY DEF IInv
<1> QED
  BY <1>1, IInvAlways, PTL

(* What is left of a number after each division by the base (PutUint32 and *)
(* the like).                                                              *)
LEMMA QuotientsDef ==
  ASSUME NEW u \in Nat, NEW size \in Nat, NEW base \in Nat, base > 0
  PROVE  /\ Quotients(u, size, base) \in [0 .. size -> Nat]
         /\ Quotients(u, size, base)[0] = u
         /\ \A k \in 1 .. size : Quotients(u, size, base)[k] = Quotients(u, size, base)[k - 1] \div base
<1> DEFINE Next1(x) == x \div base
           step == [k \in 1 .. size |-> [x \in Nat |-> Next1(x)]]
           Is(f) == f = [k \in 0 .. size |-> IF k = 0 THEN u ELSE Next1(f[k - 1])]
<1>1. ASSUME NEW x \in Nat PROVE Next1(x) \in Nat
  OBVIOUS
<1>2. step \in [1 .. size -> [Nat -> Nat]]
  BY <1>1
<1>3. \E f : Is(f)
  <2>0. \E f : IsLoop(f, size, Nat, u, step)
    <3> HIDE DEF step
    <3> QED
      BY <1>2, LoopExists
  <2>1. PICK f : IsLoop(f, size, Nat, u, step)
    BY <2>0
  <2>2. ASSUME NEW k \in 1 .. size PROVE f[k] = Next1(f[k - 1])
    <3>1. f[k - 1] \in Nat
      BY <2>1 DEF IsLoop
    <3> QED
      BY <2>1, <3>1 DEF IsLoop
  <2>3. Is(f)
    <3> HIDE DEF Next1
    <3> QED
      BY <2>1, <2>2 DEF IsLoop
  <2> QED
    BY <2>3
<1>4. Quotients(u, size, base) = CHOOSE f : Is(f)
  BY DEF Quotients
<1>5. Is(Quotients(u, size, base))
  <2> HIDE DEF Is
  <2> QED
    BY <1>3, <1>4
<1> DEFINE out == Quotients(u, size, base)
<1> HIDE DEF out
<1>6. out = [k \in 0 .. size |-> IF k = 0 THEN u ELSE Next1(out[k - 1])]
  BY <1>5 DEF out
<1>7. /\ DOMAIN out = 0 .. size /\ out[0] = u
      /\ \A k \in 1 .. size : out[k] = Next1(out[k - 1])
  <2> HIDE DEF Next1
  <2> QED
    BY <1>6
<1>8. \A k \in 0 .. size : out[k] \in Nat
  <2> HIDE DEF Next1
  <2> DEFINE good == {k \in 0 .. size : out[k] \in Nat}
  <2>1. 0 \in good
    BY <1>7
  <2>2. ASSUME NEW k \in 1 .. size, k - 1 \in good PROVE k \in good
    <3>1. k - 1 \in 0 .. size /\ out[k - 1] \in Nat
      BY <2>2
    <3>2. out[k] \in Nat
      BY <1>1, <1>7, <3>1
    <3> QED
      BY <3>2
  <2>3. \A k \in 0 .. size : k \in good
    <3> HIDE DEF good
    <3> QED
      BY <2>1, <2>2, LoopInduction
  <2> QED
    BY <2>3
<1>9. out \in [0 .. size -> Nat]
  BY <1>6, <1>7, <1>8
<1> QED
  BY <1>7, <1>9 DEF out

(* The number the first bytes make up, most significant first.             *)
IsHighest(h, p, off, size, base) ==
  /\ h \in [0 .. size -> Nat] /\ h[0] = 0
  /\ \A k \in 1 .. size : h[k] = h[k - 1] * base + p[off + (size - k)]

(* The loop that reads a number computes what it says.                     *)
LEMMA HighestDef ==
  ASSUME NEW p, NEW off \in Nat, NEW size \in Nat, NEW base \in Nat,
         \A k \in 0 .. size - 1 : p[off + k] \in Nat
  PROVE  IsHighest(Highest(p, off, size, base), p, off, size, base)
<1> DEFINE Next1(k, x) == x * base + p[off + (size - k)]
           step == [k \in 1 .. size |-> [x \in Nat |-> Next1(k, x)]]
           Is(f) == f = [k \in 0 .. size |-> IF k = 0 THEN 0 ELSE Next1(k, f[k - 1])]
<1>1. ASSUME NEW k \in 1 .. size, NEW x \in Nat PROVE Next1(k, x) \in Nat
  <2>1. size - k \in 0 .. size - 1 /\ x * base \in Nat
    OBVIOUS
  <2>2. p[off + (size - k)] \in Nat
    BY <2>1
  <2> QED
    BY <2>1, <2>2
<1>2. step \in [1 .. size -> [Nat -> Nat]]
  BY <1>1
<1>3. \E f : Is(f)
  <2>0. \E f : IsLoop(f, size, Nat, 0, step)
    <3> HIDE DEF step
    <3> QED
      BY <1>2, LoopExists
  <2>1. PICK f : IsLoop(f, size, Nat, 0, step)
    BY <2>0
  <2>2. ASSUME NEW k \in 1 .. size PROVE f[k] = Next1(k, f[k - 1])
    <3>1. f[k - 1] \in Nat
      BY <2>1 DEF IsLoop
    <3> QED
      BY <2>1, <3>1 DEF IsLoop
  <2>3. Is(f)
    <3> HIDE DEF Next1
    <3> QED
      BY <2>1, <2>2 DEF IsLoop
  <2> QED
    BY <2>3
<1>4. Highest(p, off, size, base) = CHOOSE f : Is(f)
  BY DEF Highest
<1>5. Is(Highest(p, off, size, base))
  <2> HIDE DEF Is
  <2> QED
    BY <1>3, <1>4
<1> DEFINE out == Highest(p, off, size, base)
<1> HIDE DEF out
<1>6. out = [k \in 0 .. size |-> IF k = 0 THEN 0 ELSE Next1(k, out[k - 1])]
  BY <1>5 DEF out
<1>7. /\ DOMAIN out = 0 .. size /\ out[0] = 0
      /\ \A k \in 1 .. size : out[k] = Next1(k, out[k - 1])
  <2> HIDE DEF Next1
  <2> QED
    BY <1>6
<1>8. \A k \in 0 .. size : out[k] \in Nat
  <2> HIDE DEF Next1
  <2> DEFINE good == {k \in 0 .. size : out[k] \in Nat}
  <2>1. 0 \in good
    BY <1>7
  <2>2. ASSUME NEW k \in 1 .. size, k - 1 \in good PROVE k \in good
    <3>1. k - 1 \in 0 .. size /\ out[k - 1] \in Nat
      BY <2>2
    <3>2. out[k] \in Nat
      BY <1>1, <1>7, <3>1
    <3> QED
      BY <3>2
  <2>3. \A k \in 0 .. size : k \in good
    <3> HIDE DEF good
    <3> QED
      BY <2>1, <2>2, LoopInduction
  <2> QED
    BY <2>3
<1>9. out \in [0 .. size -> Nat]
  BY <1>6, <1>7, <1>8
<1> QED
  BY <1>7, <1>9 DEF out, IsHighest

(* The bytes of a number.                                                  *)
LEMMA PutLittleIs ==
  ASSUME NEW u \in Nat, NEW size \in Nat, NEW base \in Nat, base > 0
  PROVE  /\ PutLittle(u, size, base) \in Seq(0 .. base - 1)
         /\ Len(PutLittle(u, size, base)) = size
         /\ \A k \in 1 .. size : PutLittle(u, size, base)[k] = Quotients(u, size, base)[k - 1] % base
<1> DEFINE q == Quotients(u, size, base)
           s == [k \in 1 .. size |-> q[k - 1] % base]
<1>1. q \in [0 .. size -> Nat]
  BY QuotientsDef
<1> HIDE DEF q
<1>2. ASSUME NEW k \in 1 .. size PROVE q[k - 1] % base \in 0 .. base - 1
  <2>1. q[k - 1] \in Nat
    BY <1>1
  <2> QED
    BY <2>1
<1>3. s \in Seq(0 .. base - 1) /\ Len(s) = size
  <2>1. s \in [1 .. size -> 0 .. base - 1]
    BY <1>2
  <2> QED
    BY <2>1
<1>4. PutLittle(u, size, base) = s
  BY DEF PutLittle, q
<1> QED
  BY <1>3, <1>4 DEF q

(* Little reads back the number whose bytes PutLittle wrote, when they are *)
(* enough of them.                                                         *)
FitsIn(u, size, base) == Quotients(u, size, base)[size] = 0
Spells(p, off, u, size, base) ==
  \A k \in 1 .. size : p[off + k - 1] = PutLittle(u, size, base)[k]

(* A number is read back from the bytes it was put into.                   *)
LEMMA LittleInverts ==
  ASSUME NEW u \in Nat, NEW size \in Nat, NEW base \in Nat, base > 0,
         FitsIn(u, size, base), NEW p, NEW off \in Nat, Spells(p, off, u, size, base)
  PROVE  Little(p, off, size, base) = u
<1> DEFINE q == Quotients(u, size, base)
           h == Highest(p, off, size, base)
<1>1. q \in [0 .. size -> Nat] /\ q[0] = u /\ q[size] = 0
      /\ \A k \in 1 .. size : q[k] = q[k - 1] \div base
  <2>1. q \in [0 .. size -> Nat]
    BY QuotientsDef
  <2>2. q[0] = u
    BY QuotientsDef
  <2>3. q[size] = 0
    BY DEF FitsIn
  <2>4. \A k \in 1 .. size : q[k] = q[k - 1] \div base
    BY QuotientsDef
  <2> QED
    BY <2>1, <2>2, <2>3, <2>4
<1>2. ASSUME NEW k \in 1 .. size PROVE p[off + k - 1] = q[k - 1] % base
  <2>1. PutLittle(u, size, base)[k] = q[k - 1] % base
    BY PutLittleIs, Zenon
  <2> QED
    BY <2>1 DEF Spells
<1> HIDE DEF q
<1>3. ASSUME NEW k \in 0 .. size - 1
      PROVE  p[off + k] = q[k] % base /\ q[k] = q[k + 1] * base + p[off + k]
             /\ p[off + k] \in Nat /\ q[k + 1] \in Nat
  <2>1. k + 1 \in 1 .. size /\ off + (k + 1) - 1 = off + k /\ (k + 1) - 1 = k /\ k \in 0 .. size /\ k + 1 \in 0 .. size
    OBVIOUS
  <2>2. p[off + k] = q[k] % base /\ q[k + 1] = q[k] \div base /\ q[k] \in Nat /\ q[k + 1] \in Nat
    BY <1>1, <1>2, <2>1
  <2>3. \A x \in Nat : x = (x \div base) * base + (x % base) /\ (x % base) \in Nat
    OBVIOUS
  <2> QED
    BY <2>2, <2>3
<1>4. /\ h \in [0 .. size -> Nat] /\ h[0] = 0
      /\ \A k \in 1 .. size : h[k] = h[k - 1] * base + p[off + (size - k)]
  <2>1. \A k \in 0 .. size - 1 : p[off + k] \in Nat
    BY <1>3
  <2>2. IsHighest(h, p, off, size, base)
    BY <2>1, HighestDef
  <2> QED
    BY <2>2 DEF IsHighest
<1> HIDE DEF h
<1> DEFINE good == {k \in 0 .. size : h[k] = q[size - k]}
<1>5. 0 \in good
  BY <1>1, <1>4
<1>6. ASSUME NEW k \in 1 .. size, k - 1 \in good PROVE k \in good
  <2>1. size - k \in 0 .. size - 1 /\ (size - k) + 1 = size - (k - 1)
    OBVIOUS
  <2>2. h[k - 1] = q[(size - k) + 1]
    BY <1>6, <2>1
  <2>3. q[size - k] = q[(size - k) + 1] * base + p[off + (size - k)]
    BY <1>3, <2>1
  <2>4. h[k] = q[size - k]
    BY <1>4, <2>2, <2>3
  <2> QED
    BY <2>4
<1>7. size \in good
  <2>1. \A k \in 0 .. size : k \in good
    <3> HIDE DEF good
    <3> QED
      BY <1>5, <1>6, LoopInduction
  <2> QED
    BY <2>1
<1>8. h[size] = u
  BY <1>1, <1>7
<1> QED
  BY <1>8 DEF Little, h

(* A quotient is small when the number is.                                 *)
LEMMA DivLess ==
  ASSUME NEW x \in Nat, NEW a \in Nat, NEW b \in Nat, b > 0, x < a * b
  PROVE  x \div b < a /\ x \div b \in Nat
<1>1. PICK q \in Nat, r \in 0 .. b - 1 : x = q * b + r /\ x \div b = q
  BY DivSplit
<1>2. ASSUME a <= q PROVE FALSE
  <2>1. b * a <= b * q
    BY <1>2, Mul
  <2> DEFINE c == a * b
             d == q * b
  <2>2. c \in Nat /\ d \in Nat /\ c <= d /\ x = d + r /\ x < c
    BY <1>1, <2>1
  <2> HIDE DEF c, d
  <2> QED
    BY <1>1, <2>2
<1> QED
  BY <1>1, <1>2

(* The numbers that have room in two, three and four bytes.                *)
LEMMA Fits ==
  ASSUME NEW u \in Nat, NEW base \in Nat, base > 0
  PROVE  /\ u < base * base => FitsIn(u, 2, base)
         /\ u < base * base * base => FitsIn(u, 3, base)
         /\ u < base * base * base * base => FitsIn(u, 4, base)
<1> DEFINE b2 == base * base
           b3 == b2 * base
<1>0. b2 \in Nat /\ b3 \in Nat
  OBVIOUS
<1>1. ASSUME NEW x \in Nat, x < base PROVE x \div base = 0
  <2>1. x < 1 * base
    BY <1>1
  <2>2. x \div base < 1 /\ x \div base \in Nat
    BY <2>1, DivLess
  <2> QED
    BY <2>2
<1>2. ASSUME NEW x \in Nat, x < b2 PROVE (x \div base) \div base = 0
  <2>1. x \div base < base /\ x \div base \in Nat
    BY <1>2, DivLess
  <2> QED
    BY <1>1, <2>1
<1>3. ASSUME NEW x \in Nat, x < b3 PROVE ((x \div base) \div base) \div base = 0
  <2> HIDE DEF b2
  <2>1. x \div base < b2 /\ x \div base \in Nat
    BY <1>0, <1>3, DivLess
  <2> QED
    BY <1>2, <2>1
<1>4. ASSUME NEW x \in Nat, x < b3 * base
      PROVE  (((x \div base) \div base) \div base) \div base = 0
  <2> HIDE DEF b3
  <2>1. x \div base < b3 /\ x \div base \in Nat
    BY <1>0, <1>4, DivLess
  <2> QED
    BY <1>3, <2>1
<1>5. Quotients(u, 2, base)[2] = (u \div base) \div base
  <2> DEFINE q == Quotients(u, 2, base)
  <2>1. q[0] = u /\ \A k \in 1 .. 2 : q[k] = q[k - 1] \div base
    BY QuotientsDef
  <2> HIDE DEF q
  <2>2. q[1] = q[0] \div base /\ q[2] = q[1] \div base
    BY <2>1
  <2> QED
    BY <2>1, <2>2 DEF q
<1>6. Quotients(u, 3, base)[3] = ((u \div base) \div base) \div base
  <2> DEFINE q == Quotients(u, 3, base)
  <2>1. q[0] = u /\ \A k \in 1 .. 3 : q[k] = q[k - 1] \div base
    BY QuotientsDef
  <2> HIDE DEF q
  <2>2. q[1] = q[0] \div base /\ q[2] = q[1] \div base /\ q[3] = q[2] \div base
    BY <2>1
  <2> QED
    BY <2>1, <2>2 DEF q
<1>7. Quotients(u, 4, base)[4] = (((u \div base) \div base) \div base) \div base
  <2> DEFINE q == Quotients(u, 4, base)
  <2>1. q[0] = u /\ \A k \in 1 .. 4 : q[k] = q[k - 1] \div base
    BY QuotientsDef
  <2> HIDE DEF q
  <2>2. q[1] = q[0] \div base /\ q[2] = q[1] \div base /\ q[3] = q[2] \div base
        /\ q[4] = q[3] \div base
    BY <2>1
  <2> QED
    BY <2>1, <2>2 DEF q
<1> QED
  BY <1>2, <1>3, <1>4, <1>5, <1>6, <1>7 DEF FitsIn
-----------------------------------------------------------------------------
(* What InspectionAssumption says of one client.                           *)
LEMMA ClientIs ==
  ASSUME NEW l \in Logins
  PROVE  /\ l.caps \in Nat /\ l.caps < Word
         /\ \A f \in Flags : f \in l.flags <=> Has(l.caps, f)
         /\ l.user \in Seq(Byte) /\ l.auth \in Seq(Byte) /\ l.database \in Seq(Byte)
         /\ NulFree(l.user) /\ NulFree(l.database)
         /\ NulFree(l.auth) \/ "secure" \in l.flags \/ "lenenc" \in l.flags
         /\ "lenenc" \in l.flags => Len(l.auth) < Base * Base
         /\ "secure" \in l.flags => "lenenc" \in l.flags \/ Len(l.auth) < Base
         /\ Len(LoginSent(l)) < (Word * Word) \div 2
<1>1. l.caps \in 0 .. Word - 1 /\ Word \in Nat
  BY InspectionAssumption, Powers
<1> QED
  BY <1>1, InspectionAssumption

(* Bytes and the strings of one or several zeros.                          *)
LEMMA ByteFacts ==
  /\ Base \in Nat /\ Base >= 8 /\ Base > 0 /\ \A x \in Byte : x \in Nat /\ x < Base
  /\ Byte = 0 .. Base - 1
  /\ 0 \in Byte /\ 1 \in Byte /\ 2 \in Byte /\ 3 \in Byte /\ 4 \in Byte /\ Base - 1 \in Byte
  /\ <<0>> \in Seq(Byte) /\ Len(<<0>>) = 1 /\ <<0>>[1] = 0
  /\ <<>> \in Seq(Byte) /\ Len(<<>>) = 0
<1>1. Base \in Nat /\ Base >= 8
  BY BytesAssumption, InspectionAssumption
<1>2. 0 \in Byte
  BY <1>1 DEF Byte
<1>3. <<0>> \in Seq(Byte) /\ Len(<<0>>) = 1 /\ <<0>>[1] = 0
  BY <1>2
<1> QED
  BY <1>1, <1>3 DEF Byte

(* The bytes of a number of the SQL protocols.                             *)
LEMMA PutBytes ==
  ASSUME NEW u \in Nat, NEW size \in Nat
  PROVE  PutLittle(u, size, Base) \in Seq(Byte) /\ Len(PutLittle(u, size, Base)) = size
<1>1. Base \in Nat /\ Base > 0 /\ Byte = 0 .. Base - 1
  BY ByteFacts
<1>2. PutLittle(u, size, Base) \in Seq(0 .. Base - 1) /\ Len(PutLittle(u, size, Base)) = size
  BY <1>1, PutLittleIs
<1> QED
  BY <1>1, <1>2, Zenon

(* A run of zero bytes.                                                    *)
LEMMA ZerosAre ==
  ASSUME NEW size \in Nat
  PROVE  Zeros(size) \in Seq(Byte) /\ Len(Zeros(size)) = size /\ \A k \in 1 .. size : Zeros(size)[k] = 0
<1>1. Zeros(size) \in [1 .. size -> Byte]
  BY ByteFacts DEF Zeros
<1> QED
  BY <1>1 DEF Zeros

(* Two strings put together, as an operator, so that it can be cited for   *)
(* long ones.                                                              *)
IsConcat(w, u, v) ==
  /\ w \in Seq(Byte) /\ Len(w) = Len(u) + Len(v)
  /\ \A k \in 1 .. Len(u) : w[k] = u[k]
  /\ \A k \in 1 .. Len(v) : w[Len(u) + k] = v[k]

(* What \o gives, in that form.                                            *)
LEMMA Concats ==
  ASSUME NEW u \in Seq(Byte), NEW v \in Seq(Byte)
  PROVE  IsConcat(u \o v, u, v) /\ Len(u) \in Nat /\ Len(v) \in Nat
<1>0. Len(u) \in Nat /\ Len(v) \in Nat
  BY LenProperties
<1> DEFINE w == u \o v
           U == Len(u)
           V == Len(v)
<1>1. /\ w \in Seq(Byte) /\ Len(w) = U + V
      /\ \A k \in 1 .. U + V : w[k] = IF k <= U THEN u[k] ELSE v[k - U]
  BY ConcatProperties
<1> HIDE DEF w, U, V
<1>2. U \in Nat /\ V \in Nat
  BY <1>0 DEF U, V
<1>3. ASSUME NEW k \in 1 .. U PROVE w[k] = u[k]
  BY <1>1, <1>2
<1>4. ASSUME NEW k \in 1 .. V PROVE w[U + k] = v[k]
  <2>1. U + k \in 1 .. U + V /\ ~(U + k <= U) /\ (U + k) - U = k
    BY <1>2
  <2> QED
    BY <1>1, <2>1
<1>5. IsConcat(w, u, v)
  BY <1>1, <1>3, <1>4 DEF IsConcat, U, V
<1> QED
  BY <1>0, <1>5 DEF w

(* How every login of a client begins.                                     *)
IsHead(h, l) ==
  /\ h \in Seq(Byte) /\ Len(h) = 33 + Len(l.user)
  /\ \A k \in 1 .. 4 : h[k] = PutLittle(l.caps, 4, Base)[k]
  /\ \A k \in 1 .. Len(l.user) : h[32 + k] = l.user[k]
  /\ h[33 + Len(l.user)] = 0

(* The fixed part of a login and its user.                                 *)
LEMMA HeadIs ==
  ASSUME NEW l \in Logins
  PROVE  IsHead(LoginHead(l), l)
<1> DEFINE a == PutLittle(l.caps, 4, Base)
           z == Zeros(28)
           u == l.user
           e == <<0>>
           U == Len(u)
<1>1. a \in Seq(Byte) /\ Len(a) = 4 /\ z \in Seq(Byte) /\ Len(z) = 28 /\ u \in Seq(Byte)
      /\ e \in Seq(Byte) /\ Len(e) = 1 /\ e[1] = 0 /\ U \in Nat
  <2>1. a \in Seq(Byte) /\ Len(a) = 4
    BY ClientIs, PutBytes
  <2>2. z \in Seq(Byte) /\ Len(z) = 28
    BY ZerosAre
  <2>3. u \in Seq(Byte) /\ U \in Nat
    BY ClientIs, LenProperties
  <2>4. e \in Seq(Byte) /\ Len(e) = 1 /\ e[1] = 0
    BY ByteFacts
  <2> QED
    BY <2>1, <2>2, <2>3, <2>4
<1> HIDE DEF a, z, u, e
<1>2. IsConcat(a \o z, a, z)
  BY <1>1, Concats
<1> DEFINE w1 == a \o z
<1> HIDE DEF w1
<1>3. w1 \in Seq(Byte) /\ Len(w1) = 32 /\ \A k \in 1 .. 4 : w1[k] = a[k]
  <2>1. w1 \in Seq(Byte) /\ Len(w1) = Len(a) + Len(z) /\ \A k \in 1 .. Len(a) : w1[k] = a[k]
    BY <1>2 DEF IsConcat, w1
  <2>2. Len(w1) = 32
    BY <1>1, <2>1
  <2> QED
    BY <1>1, <2>1, <2>2, Zenon
<1>4. IsConcat(w1 \o u, w1, u)
  BY <1>1, <1>3, Concats
<1> DEFINE w2 == w1 \o u
<1> HIDE DEF w2
<1>5. w2 \in Seq(Byte) /\ Len(w2) = 32 + U /\ \A k \in 1 .. U : w2[32 + k] = u[k]
  BY <1>1, <1>3, <1>4 DEF IsConcat, w2
<1>6. \A k \in 1 .. 4 : w2[k] = a[k]
  <2>1. \A k \in 1 .. Len(w1) : w2[k] = w1[k]
    BY <1>4 DEF IsConcat, w2
  <2>2. \A k \in 1 .. 4 : k \in 1 .. Len(w1)
    BY <1>3
  <2> QED
    BY <1>3, <2>1, <2>2, Zenon
<1>7. IsConcat(w2 \o e, w2, e)
  BY <1>1, <1>5, Concats
<1> DEFINE w3 == w2 \o e
<1> HIDE DEF w3, U
<1>8. w3 \in Seq(Byte) /\ Len(w3) = 33 + U /\ w3[33 + U] = 0
  <2>1. Len(w2) + 1 = 33 + U /\ 1 \in 1 .. Len(e) /\ (32 + U) + 1 = 33 + U
    BY <1>1, <1>5
  <2> QED
    BY <1>1, <1>5, <1>7, <2>1 DEF IsConcat, w3
<1>9. \A k \in 1 .. 4 : w3[k] = a[k]
  BY <1>1, <1>5, <1>6, <1>7 DEF IsConcat, w3
<1>10. \A k \in 1 .. U : w3[32 + k] = u[k]
  BY <1>1, <1>5, <1>7 DEF IsConcat, w3
<1>11. LoginHead(l) = w3
  BY DEF LoginHead, w3, w2, w1, a, z, u, e
<1> QED
  BY <1>8, <1>9, <1>10, <1>11 DEF IsHead, a, u, U
(* Where the first NUL is.                                                 *)
LEMMA NulAt ==
  ASSUME NEW S, NEW p \in Seq(S), NEW off \in 1 .. Len(p) + 1
  PROVE  /\ \A e \in off .. Len(p) :
              p[e] = 0 /\ (\A k \in off .. e - 1 : p[k] # 0) => NulFrom(p, off) = e
         /\ (\A k \in off .. Len(p) : p[k] # 0) => NulFrom(p, off) = Len(p) + 1
<1> DEFINE m == NulFrom(p, off)
           L == Len(p)
<1>0. L \in Nat
  BY LenProperties
<1>1. /\ m \in off .. L + 1 /\ (\A k \in off .. m - 1 : p[k] # 0)
      /\ (m <= L => p[m] = 0)
  BY FirstNul
<1> HIDE DEF m, L
<1>2. off \in 1 .. L + 1
  BY DEF L
<1>3. ASSUME NEW e \in off .. L, p[e] = 0, \A k \in off .. e - 1 : p[k] # 0 PROVE m = e
  <2>1. ~(m > e)
    <3> SUFFICES ASSUME m > e PROVE FALSE
      OBVIOUS
    <3>1. e \in off .. m - 1
      BY <1>0, <1>1, <1>2
    <3> QED
      BY <1>1, <1>3, <3>1
  <2>2. ~(m < e)
    <3> SUFFICES ASSUME m < e PROVE FALSE
      OBVIOUS
    <3>1. m \in off .. e - 1 /\ m <= L
      BY <1>0, <1>1, <1>2
    <3> QED
      BY <1>1, <1>3, <3>1
  <2> QED
    BY <1>0, <1>1, <1>2, <2>1, <2>2
<1>4. ASSUME \A k \in off .. L : p[k] # 0 PROVE m = L + 1
  <2> SUFFICES ASSUME m # L + 1 PROVE FALSE
    OBVIOUS
  <2>1. m \in off .. L /\ m <= L
    BY <1>0, <1>1, <1>2
  <2> QED
    BY <1>1, <1>4, <2>1
<1> QED
  BY <1>3, <1>4 DEF m, L

(* A login, however it was cut, begins as the client's logins do.          *)
BeginsLike(p, l) ==
  /\ p \in Seq(Byte)
  /\ \A k \in 1 .. Len(p) : k <= 33 + Len(l.user) => p[k] = LoginHead(l)[k]

(* The two forms of a length a client sends.                               *)
LEMMA LengthBytes ==
  ASSUME NEW size \in Nat
  PROVE  /\ LenEncOf(size) \in Seq(Byte)
         /\ size < Base - 5 => LenEncOf(size) = <<size>>
         /\ ~(size < Base - 5) => LenEncOf(size) = <<Base - 4>> \o PutLittle(size, 2, Base)
<1>1. Base \in Nat /\ Base >= 8 /\ Byte = 0 .. Base - 1
  BY ByteFacts
<1>2. (size < Base - 5 => size \in Byte) /\ Base - 4 \in Byte
  BY <1>1
<1>3. (size < Base - 5 => <<size>> \in Seq(Byte)) /\ <<Base - 4>> \in Seq(Byte)
  BY <1>2
<1>4. PutLittle(size, 2, Base) \in Seq(Byte)
  BY PutBytes
<1>5. <<Base - 4>> \o PutLittle(size, 2, Base) \in Seq(Byte)
  BY <1>3, <1>4, ConcatProperties
<1> QED
  BY <1>3, <1>5 DEF LenEncOf

(* The authentication data and the database of a login are bytes.          *)
LEMMA TailBytes ==
  ASSUME NEW l \in Logins, NEW length \in Seq(Byte)
  PROVE  AuthBytes(l, length) \in Seq(Byte) /\ DatabaseBytes(l) \in Seq(Byte)
<1>1. /\ l.auth \in Seq(Byte) /\ l.database \in Seq(Byte)
      /\ "secure" \in l.flags => "lenenc" \in l.flags \/ Len(l.auth) < Base
  BY ClientIs
<1>2. Len(l.auth) \in Nat
  BY <1>1, LenProperties
<1>3. Base \in Nat /\ Byte = 0 .. Base - 1 /\ <<0>> \in Seq(Byte) /\ <<>> \in Seq(Byte)
  BY ByteFacts
<1>4. "secure" \in l.flags => "lenenc" \in l.flags \/ Len(l.auth) \in Byte
  BY <1>1, <1>2, <1>3
<1>5. "secure" \in l.flags => "lenenc" \in l.flags \/ <<Len(l.auth)>> \in Seq(Byte)
  BY <1>4
<1>6. length \o l.auth \in Seq(Byte)
  BY <1>1, ConcatProperties
<1>7. "secure" \in l.flags => "lenenc" \in l.flags \/ <<Len(l.auth)>> \o l.auth \in Seq(Byte)
  BY <1>1, <1>5, ConcatProperties
<1>8. l.auth \o <<0>> \in Seq(Byte)
  BY <1>1, <1>3, ConcatProperties
<1>9. l.database \o <<0>> \in Seq(Byte)
  BY <1>1, <1>3, ConcatProperties
<1> QED
  BY <1>3, <1>6, <1>7, <1>8, <1>9 DEF AuthBytes, DatabaseBytes

(* A login begins with its head whatever length it announces,              *)
LEMMA LoginBegins ==
  ASSUME NEW l \in Logins, NEW length \in Seq(Byte)
  PROVE  BeginsLike(LoginBytes(l, length), l)
<1> DEFINE h == LoginHead(l)
           a == AuthBytes(l, length)
           d == DatabaseBytes(l)
           U == Len(l.user)
<1>1. h \in Seq(Byte) /\ Len(h) = 33 + U
  BY HeadIs DEF IsHead
<1>2. a \in Seq(Byte) /\ d \in Seq(Byte)
  BY TailBytes
<1>3. LoginBytes(l, length) = (h \o a) \o d
  BY DEF LoginBytes
<1>4. U \in Nat
  BY ClientIs, LenProperties
<1> DEFINE w1 == h \o a
           w2 == w1 \o d
<1> HIDE DEF h, a, d, U
<1>5. IsConcat(w1, h, a) /\ Len(a) \in Nat
  BY <1>1, <1>2, Concats
<1>6. w1 \in Seq(Byte) /\ Len(w1) = Len(h) + Len(a)
  BY <1>5 DEF IsConcat
<1>7. IsConcat(w2, w1, d) /\ Len(w1) \in Nat
  BY <1>2, <1>6, Concats
<1> HIDE DEF w1, w2
<1>8. ASSUME NEW k \in 1 .. Len(w2), k <= 33 + U PROVE w2[k] = h[k]
  <2>1. k \in 1 .. Len(h) /\ k \in 1 .. Len(w1)
    BY <1>1, <1>4, <1>5, <1>6, <1>8
  <2>2. w1[k] = h[k] /\ w2[k] = w1[k]
    BY <1>5, <1>7, <2>1 DEF IsConcat
  <2> QED
    BY <2>2
<1>9. w2 \in Seq(Byte)
  BY <1>7 DEF IsConcat
<1>10. BeginsLike(w2, l)
  BY <1>8, <1>9 DEF BeginsLike, h, U
<1> QED
  BY <1>3, <1>10 DEF w1, w2

(* and so does all that can arrive of one.                                 *)
LEMMA SentBegins ==
  ASSUME NEW l \in Logins,
         NEW p \in Cuts(LoginSent(l)) \cup {LoginBytes(l, o) : o \in OddLengths}
  PROVE  BeginsLike(p, l)
<1>1. Len(l.auth) \in Nat
  BY ClientIs, LenProperties
<1>2. LenEncOf(Len(l.auth)) \in Seq(Byte)
  BY <1>1, LengthBytes
<1>3. BeginsLike(LoginSent(l), l)
  BY <1>2, LoginBegins DEF LoginSent
<1>4. CASE p \in {LoginBytes(l, o) : o \in OddLengths}
  <2>1. PICK o \in OddLengths : p = LoginBytes(l, o)
    BY <1>4
  <2>2. o \in Seq(Byte)
    BY InspectionAssumption
  <2> QED
    BY <2>1, <2>2, LoginBegins
<1>5. CASE p \in Cuts(LoginSent(l))
  <2> DEFINE w == LoginSent(l)
  <2>1. PICK c \in 0 .. Len(w) : p = SubSeq(w, 1, c)
    BY <1>5 DEF Cuts
  <2>2. w \in Seq(Byte) /\ \A k \in 1 .. Len(w) : k <= 33 + Len(l.user) => w[k] = LoginHead(l)[k]
    BY <1>3 DEF BeginsLike
  <2> HIDE DEF w
  <2>3. Len(w) \in Nat /\ 1 \in 1 .. Len(w) + 1 /\ c \in 1 - 1 .. Len(w) /\ c - 1 + 1 = c
    BY <2>2, LenProperties
  <2>4. p \in Seq(Byte) /\ Len(p) = c /\ \A k \in 1 .. c : p[k] = w[1 + k - 1]
    BY <2>1, <2>2, <2>3, PartType
  <2>5. ASSUME NEW k \in 1 .. Len(p), k <= 33 + Len(l.user) PROVE p[k] = LoginHead(l)[k]
    <3>1. k \in 1 .. c /\ 1 + k - 1 = k /\ k \in 1 .. Len(w)
      BY <2>3, <2>4
    <3> QED
      BY <2>2, <2>4, <2>5, <3>1
  <2> QED
    BY <2>4, <2>5 DEF BeginsLike
<1> QED
  BY <1>4, <1>5
(* The capabilities are read as they were sent.                            *)
LEMMA CapsRead ==
  ASSUME NEW l \in Logins, NEW p, BeginsLike(p, l), Len(p) >= 4
  PROVE  ClientCapabilitiesFromHandshakeResponse(p) = l.caps
<1> DEFINE h == LoginHead(l)
           U == Len(l.user)
           c == PutLittle(l.caps, 4, Base)
<1>1. p \in Seq(Byte) /\ \A k \in 1 .. Len(p) : k <= 33 + U => p[k] = h[k]
  BY DEF BeginsLike
<1>2. Len(p) \in Nat /\ U \in Nat
  BY <1>1, ClientIs, LenProperties
<1>3. \A k \in 1 .. 4 : h[k] = c[k]
  BY HeadIs DEF IsHead
<1>4. ASSUME NEW k \in 1 .. 4 PROVE p[1 + k - 1] = c[k]
  <2> HIDE DEF h, U, c
  <2>1. k \in 1 .. Len(p) /\ k <= 33 + U /\ 1 + k - 1 = k
    BY <1>2
  <2> QED
    BY <1>1, <1>3, <2>1
<1>5. FitsIn(l.caps, 4, Base) /\ Spells(p, 1, l.caps, 4, Base)
  <2>1. l.caps \in Nat /\ l.caps < Base * Base * Base * Base
    BY ClientIs DEF Word
  <2>2. Base \in Nat /\ Base > 0
    BY ByteFacts
  <2>3. FitsIn(l.caps, 4, Base)
    BY <2>1, <2>2, Fits
  <2> QED
    BY <1>4, <2>3 DEF Spells
<1>6. l.caps \in Nat /\ Base \in Nat /\ Base > 0
  BY ClientIs, ByteFacts
<1>7. Little(p, 1, 4, Base) = l.caps
  BY <1>5, <1>6, LittleInverts
<1> QED
  BY <1>2, <1>7 DEF ClientCapabilitiesFromHandshakeResponse

(* The user is read as it was sent, if its end was.                        *)
UserIsRead(p, l) ==
  LET e == 33 + Len(l.user)
  IN  /\ e <= Len(p) => NulFrom(p, 33) = e /\ UserOf(p) = l.user
      /\ ~(e <= Len(p)) => NulFrom(p, 33) = Len(p) + 1

(* ParseHandshakeResponse finds the capabilities and the user of any login *)
(* it can find them in.                                                    *)
LEMMA UserRead ==
  ASSUME NEW l \in Logins, NEW p, BeginsLike(p, l), Len(p) >= 32
  PROVE  UserIsRead(p, l)
<1> DEFINE h == LoginHead(l)
           u == l.user
           U == Len(u)
           L == Len(p)
<1>1. p \in Seq(Byte) /\ \A k \in 1 .. L : k <= 33 + U => p[k] = h[k]
  BY DEF BeginsLike
<1>2. L \in Nat /\ U \in Nat /\ L >= 32 /\ u \in Seq(Byte)
  BY <1>1, ClientIs, LenProperties
<1>3. (\A k \in 1 .. U : h[32 + k] = u[k]) /\ h[33 + U] = 0
  BY HeadIs DEF IsHead
<1>4. \A k \in 1 .. U : u[k] # 0
  <2>1. DOMAIN u = 1 .. U
    BY <1>2, LenProperties
  <2> QED
    BY <2>1, ClientIs DEF NulFree
<1> HIDE DEF h, u, U
<1>5. ASSUME NEW j \in 33 .. L, j < 33 + U PROVE p[j] = u[j - 32] /\ p[j] # 0
  <2>1. j \in 1 .. L /\ j <= 33 + U /\ j - 32 \in 1 .. U /\ 32 + (j - 32) = j
    BY <1>2, <1>5
  <2> QED
    BY <1>1, <1>3, <1>4, <2>1
<1>6. CASE 33 + U <= L
  <2> DEFINE e == 33 + U
  <2>1. 33 \in 1 .. Len(p) + 1 /\ e \in 33 .. Len(p) /\ e \in 1 .. L /\ e <= 33 + U
    BY <1>2, <1>6
  <2>2. p[e] = 0
    BY <1>1, <1>3, <2>1
  <2>3. \A k \in 33 .. e - 1 : p[k] # 0
    BY <1>2, <1>5, <1>6
  <2>4. NulFrom(p, 33) = e
    <3> HIDE DEF e
    <3> QED
      BY <1>1, <2>1, <2>2, <2>3, NulAt
  <2>5. UserOf(p) = u
    <3> DEFINE s == SubSeq(p, 33, e - 1)
    <3>1. e - 1 \in 33 - 1 .. Len(p) /\ (e - 1) - 33 + 1 = U
      BY <1>2, <1>6
    <3>2. s \in Seq(Byte) /\ Len(s) = (e - 1) - 33 + 1
          /\ \A k \in 1 .. (e - 1) - 33 + 1 : s[k] = p[33 + k - 1]
      <4> HIDE DEF e
      <4> QED
        BY <1>1, <2>1, <3>1, PartType
    <3> HIDE DEF s
    <3>3. ASSUME NEW k \in 1 .. Len(s) PROVE s[k] = u[k]
      <4>1. k \in 1 .. U /\ 33 + k - 1 = 32 + k /\ 32 + k \in 33 .. L /\ 32 + k < 33 + U
            /\ (32 + k) - 32 = k
        BY <1>2, <1>6, <3>1, <3>2
      <4>2. p[32 + k] = u[(32 + k) - 32]
        BY <1>5, <4>1
      <4> QED
        BY <3>1, <3>2, <4>1, <4>2
    <3>4. Len(s) = Len(u)
      BY <3>1, <3>2 DEF U
    <3>5. s = u
      BY <1>2, <3>2, <3>3, <3>4, SeqEqual
    <3> QED
      BY <2>4, <3>5 DEF UserOf, s
  <2> QED
    BY <1>6, <2>4, <2>5 DEF UserIsRead, u, U
<1>7. CASE ~(33 + U <= L)
  <2>1. 33 \in 1 .. Len(p) + 1
    BY <1>2
  <2>2. \A k \in 33 .. Len(p) : p[k] # 0
    BY <1>2, <1>5, <1>7
  <2>3. NulFrom(p, 33) = Len(p) + 1
    BY <1>1, <2>1, <2>2, NulAt
  <2> QED
    BY <1>7, <2>3 DEF UserIsRead, u, U
<1> QED
  BY <1>6, <1>7
(* Two's complement: a number in the lower half is itself, and only one    *)
(* past it is negative (the conversion of a length to int).                *)
LEMMA SignedIs ==
  ASSUME NEW x \in Nat, NEW size \in Nat, size > 0
  PROVE  /\ Signed(x, size) \in Int
         /\ x < size \div 2 => Signed(x, size) = x
         /\ Signed(x, size) < 0 => x >= size \div 2
<1> DEFINE half == size \div 2
<1>1. half \in Nat /\ half + half <= size
  OBVIOUS
<1> HIDE DEF half
<1>2. (x + half) % size \in Nat
  BY <1>1
<1>3. ASSUME x < half PROVE (x + half) % size = x + half
  <2>1. x + half \in Nat /\ x + half < size
    BY <1>1, <1>3
  <2>2. \A y \in Nat : y < size => y % size = y
    <3>1. ASSUME NEW y \in Nat, y < size PROVE y % size = y
      <4>1. (0 * size + y) % size = y
        BY <3>1, DivUnique
      <4> QED
        BY <4>1
    <3> QED
      BY <3>1
  <2> QED
    BY <2>1, <2>2
<1>4. Signed(x, size) = ((x + half) % size) - half
  BY DEF Signed, half
<1> DEFINE y == (x + half) % size
<1> HIDE DEF y
<1>5. Signed(x, size) = y - half /\ y \in Nat /\ (x < half => y = x + half)
  BY <1>2, <1>3, <1>4 DEF y
<1>6. Signed(x, size) \in Int /\ (x < half => Signed(x, size) = x)
      /\ (Signed(x, size) < 0 => x >= half)
  BY <1>1, <1>5
<1> QED
  BY <1>6 DEF half

(* What readLenEncInt returns.                                             *)
IsLength(r, q) == r = Nothing \/ (r \in [value : Nat, n : Nat] /\ r # Nothing /\ r.n <= Len(q))

(* A length-encoded integer is a number and fits the bytes it was read     *)
(* from,                                                                   *)
LEMMA LenEncIs ==
  ASSUME NEW q \in Seq(Byte), NEW size \in Nat
  PROVE  IsLength(LenEnc(q, size), q)
<1>0. Len(q) \in Nat /\ Base \in Nat
  BY LenProperties, ByteFacts
<1>1. CASE Len(q) < size + 1
  BY <1>1 DEF LenEnc, IsLength
<1>2. CASE ~(Len(q) < size + 1)
  <2>1. ASSUME NEW k \in 0 .. size - 1 PROVE q[2 + k] \in Nat
    <3>1. 2 + k \in 1 .. Len(q)
      BY <1>0, <1>2
    <3>2. q[2 + k] \in Byte
      BY <3>1, ElementOfSeq
    <3> QED
      BY <3>2, ByteFacts
  <2>2. IsHighest(Highest(q, 2, size, Base), q, 2, size, Base)
    BY <1>0, <2>1, HighestDef
  <2>3. Little(q, 2, size, Base) \in Nat
    <3>1. size \in 0 .. size
      OBVIOUS
    <3> QED
      BY <2>2, <3>1 DEF IsHighest, Little
  <2> DEFINE v == Little(q, 2, size, Base)
  <2> HIDE DEF v
  <2>4. LenEnc(q, size) = [value |-> v, n |-> size + 1]
    BY <1>2 DEF LenEnc, v
  <2>5. v \in Nat
    BY <2>3 DEF v
  <2>6. [value |-> v, n |-> size + 1] \in [value : Nat, n : Nat]
    BY <2>5
  <2>7. [value |-> v, n |-> size + 1] # Nothing
    BY <2>6, CommandAssumption
  <2>8. size + 1 <= Len(q)
    BY <1>0, <1>2
  <2> QED
    BY <2>4, <2>6, <2>7, <2>8 DEF IsLength
<1> QED
  BY <1>1, <1>2

(* in each of its forms.                                                   *)
LEMMA ReadLenEncIntIs ==
  ASSUME NEW q \in Seq(Byte)
  PROVE  IsLength(ReadLenEncInt(q), q)
<1>1. CASE q = <<>>
  BY <1>1 DEF ReadLenEncInt, IsLength
<1>2. CASE q # <<>>
  <2>1. Len(q) \in Nat /\ Len(q) >= 1 /\ q[1] \in Byte
    BY <1>2, LenProperties, ElementOfSeq, EmptySeq
  <2>2. q[1] \in Nat /\ Base \in Nat /\ Base >= 8
    BY <2>1, ByteFacts
  <2>3. IsLength(LenEnc(q, 2), q) /\ IsLength(LenEnc(q, 3), q) /\ IsLength(LenEnc(q, 8), q)
    BY LenEncIs
  <2>4. IsLength([value |-> q[1], n |-> 1], q)
    <3>1. [value |-> q[1], n |-> 1] \in [value : Nat, n : Nat]
      BY <2>2
    <3>2. [value |-> q[1], n |-> 1] # Nothing
      BY <3>1, CommandAssumption
    <3> QED
      BY <2>1, <3>1, <3>2 DEF IsLength
  <2>5. IsLength(Nothing, q)
    BY DEF IsLength
  <2> DEFINE A == q[1] < Base - 5
             B == q[1] = Base - 4
             C == q[1] = Base - 3
             D == q[1] = Base - 2
  <2>6. ReadLenEncInt(q) = CASE A -> [value |-> q[1], n |-> 1]
                             [] B -> LenEnc(q, 2) [] C -> LenEnc(q, 3) [] D -> LenEnc(q, 8)
                             [] OTHER -> Nothing
    BY <1>2 DEF ReadLenEncInt
  <2>7. \/ A /\ ~B /\ ~C /\ ~D
        \/ B /\ ~A /\ ~C /\ ~D
        \/ C /\ ~A /\ ~B /\ ~D
        \/ D /\ ~A /\ ~B /\ ~C
        \/ ~A /\ ~B /\ ~C /\ ~D
    BY <2>2
  <2> DEFINE R == ReadLenEncInt(q)
  <2> HIDE DEF A, B, C, D, R
  <2>8. R = [value |-> q[1], n |-> 1] \/ R = LenEnc(q, 2) \/ R = LenEnc(q, 3)
        \/ R = LenEnc(q, 8) \/ R = Nothing
    BY <2>6, <2>7 DEF R
  <2> QED
    BY <2>3, <2>4, <2>5, <2>8 DEF R
<1> QED
  BY <1>1, <1>2
(* The number of ints.                                                     *)
LEMMA IntSize == Word * Word \in Nat /\ Word * Word > 0
<1>1. Word \in Nat /\ Word >= 16
  BY Powers
<1> HIDE DEF Word
<1> QED
  BY <1>1

(* The rest of a payload.                                                  *)
LEMMA FromIs ==
  ASSUME NEW p \in Seq(Byte), NEW off \in 1 .. Len(p) + 1
  PROVE  /\ From(p, off) \in Seq(Byte) /\ Len(From(p, off)) = Len(p) - off + 1
         /\ \A k \in 1 .. Len(p) - off + 1 : From(p, off)[k] = p[off + k - 1]
<1>1. Len(p) \in Nat /\ Len(p) \in off - 1 .. Len(p)
  BY LenProperties
<1> QED
  BY <1>1, PartType DEF From

(* Where the authentication data ends: before the payload only when its    *)
(* length is past the largest int.                                         *)
IsPast(a, p, off, caps) ==
  LET len == ReadLenEncInt(From(p, off))
  IN  \/ a = Nothing
      \/ /\ a \in Int /\ a # Nothing
         /\ a < 1 => Has(caps, "lenenc") /\ len.value >= (Word * Word) \div 2 - Len(p)

(* Where the database of a login begins: behind the authentication data,   *)
(* unless the announced length wraps around.                               *)
LEMMA PastAuthIs ==
  ASSUME NEW p \in Seq(Byte), NEW off \in 1 .. Len(p) + 1, NEW caps
  PROVE  IsPast(PastAuth(p, off, caps), p, off, caps)
<1> DEFINE L == Len(p)
<1>0. L \in Nat /\ off \in Nat /\ off >= 1
  BY LenProperties
<1>1. \A a \in Int : a # Nothing
  BY CommandAssumption
<1>2. CASE Has(caps, "lenenc")
  <2> DEFINE q == From(p, off)
             len == ReadLenEncInt(q)
             half == (Word * Word) \div 2
             x == off - 1 + len.n + len.value
  <2>1. q \in Seq(Byte) /\ Len(q) = L - off + 1
    BY FromIs
  <2>2. IsLength(len, q)
    BY <2>1, ReadLenEncIntIs
  <2>3. PastAuth(p, off, caps) = PastLenEnc(p, off)
    BY <1>2 DEF PastAuth
  <2>4. PastLenEnc(p, off) = IF len = Nothing THEN Nothing ELSE Wrap(x) + 1
    BY DEF PastLenEnc
  <2> HIDE DEF q, len
  <2>5. CASE len = Nothing
    BY <2>3, <2>4, <2>5 DEF IsPast
  <2>6. CASE len # Nothing
    <3>1. len.n \in Nat /\ len.value \in Nat /\ len.n <= L - off + 1
      BY <2>1, <2>2, <2>6 DEF IsLength
    <3>2. x \in Nat /\ x <= L + len.value
      BY <1>0, <3>1
    <3> HIDE DEF x
    <3>3. Wrap(x) \in Int /\ (Wrap(x) < 0 => x >= half)
      BY <3>2, IntSize, SignedIs DEF Wrap
    <3>4. half \in Int
      BY IntSize
    <3> HIDE DEF half
    <3>5. Wrap(x) + 1 \in Int /\ (Wrap(x) + 1 < 1 => len.value >= half - L)
      BY <1>0, <3>1, <3>2, <3>3, <3>4
    <3>6. PastAuth(p, off, caps) = Wrap(x) + 1
      BY <2>3, <2>4, <2>6
    <3> QED
      BY <1>1, <1>2, <3>5, <3>6 DEF IsPast, q, len, half
  <2> QED
    BY <2>5, <2>6
<1>3. CASE ~Has(caps, "lenenc") /\ Has(caps, "secure")
  <2>1. PastAuth(p, off, caps) = IF off > L THEN Nothing ELSE off + 1 + p[off]
    BY <1>3 DEF PastAuth, PastSecure
  <2>2. CASE off > L
    BY <2>1, <2>2 DEF IsPast
  <2>3. CASE ~(off > L)
    <3>1. p[off] \in Byte
      BY <1>0, <2>3, ElementOfSeq
    <3>2. p[off] \in Nat
      BY <3>1, ByteFacts
    <3>3. off + 1 + p[off] \in Int /\ ~(off + 1 + p[off] < 1)
      BY <1>0, <3>2
    <3> QED
      BY <1>1, <2>1, <2>3, <3>3 DEF IsPast
  <2> QED
    BY <2>2, <2>3
<1>4. CASE ~Has(caps, "lenenc") /\ ~Has(caps, "secure")
  <2> DEFINE e == NulFrom(p, off)
  <2>1. PastAuth(p, off, caps) = IF e > L THEN L + 1 ELSE e + 1
    BY <1>4 DEF PastAuth
  <2>2. e \in off .. L + 1
    BY FirstNul
  <2> HIDE DEF e, L
  <2>3. PastAuth(p, off, caps) \in Int /\ ~(PastAuth(p, off, caps) < 1)
    BY <1>0, <2>1, <2>2
  <2> QED
    BY <1>1, <2>3 DEF IsPast
<1> QED
  BY <1>2, <1>3, <1>4

(* What ParseHandshakeResponse makes of a login that begins as the         *)
(* client's do: nothing, or the client's capabilities and user.            *)
IsParsed(w, p, l) ==
  /\ Len(p) < 32 => w = Nothing
  /\ Len(p) = 32 => w = Identity(l.caps, <<>>, <<>>)
  /\ Len(p) > 32 =>
       \/ w \in {Nothing, Panic}
       \/ \E d \in Seq(Byte) : NulFree(d) /\ w = Identity(l.caps, l.user, d)

PanicIsWrap(w, p, l) ==
  w = Panic =>
    /\ Has(l.caps, "lenenc") /\ Has(l.caps, "db")
    /\ ReadLenEncInt(From(p, 34 + Len(l.user))).value >= (Word * Word) \div 2 - Len(p)

(* An identity is neither of the two failures.                             *)
LEMMA NotPanic ==
  /\ Nothing # Panic
  /\ \A c \in Nat, u \in Seq(Byte), d \in Seq(Byte) :
       Identity(c, u, d) # Panic /\ Identity(c, u, d) # Nothing
<1>1. ASSUME NEW c \in Nat, NEW u \in Seq(Byte), NEW d \in Seq(Byte)
      PROVE  Identity(c, u, d) \in [caps : Nat, user : Seq(Byte), database : Seq(Byte)]
  BY DEF Identity
<1> QED
  BY <1>1, CommandAssumption

(* ParseHandshakeResponse on anything that can arrive of a login.          *)
LEMMA AnyLogin ==
  ASSUME NEW l \in Logins, NEW p, BeginsLike(p, l)
  PROVE  IsParsed(ParseHandshakeResponse(p), p, l) /\ PanicIsWrap(ParseHandshakeResponse(p), p, l)
<1> DEFINE L == Len(p)
           w == ParseHandshakeResponse(p)
           e == NulFrom(p, 33)
           caps == ClientCapabilitiesFromHandshakeResponse(p)
           a == PastAuth(p, e + 1, caps)
<1>0. p \in Seq(Byte) /\ L \in Nat /\ l.caps \in Nat /\ l.user \in Seq(Byte) /\ Len(l.user) \in Nat
      /\ <<>> \in Seq(Byte)
  BY ClientIs, LenProperties, ByteFacts DEF BeginsLike
<1>1. w = IF L < 32 THEN Nothing
          ELSE IF L = 32 THEN Identity(caps, <<>>, <<>>)
          ELSE IF e > L THEN Nothing
          ELSE IF a = Nothing THEN Nothing
          ELSE IF ~Has(caps, "db") \/ a > L THEN Identity(caps, UserOf(p), <<>>)
          ELSE IF a < 1 THEN Panic
          ELSE Identity(caps, UserOf(p), SubSeq(p, a, NulFrom(p, a) - 1))
  BY DEF ParseHandshakeResponse
<1> HIDE DEF w, e, a, caps
<1>8. /\ L < 32 => ~(L = 32) /\ ~(L > 32)
      /\ L > 32 => ~(L < 32) /\ ~(L = 32)
      /\ L >= 32 => L = 32 \/ L > 32
  <2>1. \A x \in Nat : /\ x < 32 => ~(x = 32) /\ ~(x > 32)
                       /\ x > 32 => ~(x < 32) /\ ~(x = 32)
                       /\ x >= 32 => x = 32 \/ x > 32
    OBVIOUS
  <2> QED
    BY <1>0, <2>1, Zenon
<1>9. Nothing # Panic
  BY NotPanic
<1>2. CASE L < 32
  <2>1. w = Nothing
    BY <1>1, <1>2
  <2>2. ~(L = 32) /\ ~(L > 32)
    BY <1>2, <1>8
  <2> QED
    BY <1>9, <2>1, <2>2, Zenon DEF IsParsed, PanicIsWrap, w
<1>3. CASE L >= 32
  <2>1. caps = l.caps
    BY <1>0, <1>3, CapsRead DEF caps
  <2>2. UserIsRead(p, l)
    BY <1>3, UserRead
  <2>3. CASE L = 32
    <3>1. w = Identity(l.caps, <<>>, <<>>)
      BY <1>1, <2>1, <2>3
    <3>2. w # Panic
      BY <1>0, <3>1, NotPanic
    <3> QED
      BY <2>3, <3>1, <3>2 DEF IsParsed, PanicIsWrap, w
  <2>4. CASE L > 32 /\ (e > L \/ a = Nothing)
    <3>0. ~(L < 32) /\ ~(L = 32)
      BY <1>8, <2>4
    <3>1. w = Nothing
      BY <1>1, <2>4, <3>0, Zenon
    <3>2. w # Panic /\ w \in {Nothing, Panic}
      BY <1>9, <3>1
    <3> QED
      BY <3>0, <3>2, Zenon DEF IsParsed, PanicIsWrap, w
  <2>5. CASE L > 32 /\ ~(e > L) /\ a # Nothing
    <3>0. ~(L < 32) /\ ~(L = 32)
      BY <1>8, <2>5
    <3>1. 33 + Len(l.user) <= L /\ e = 33 + Len(l.user) /\ UserOf(p) = l.user
      BY <1>0, <2>2, <2>5 DEF UserIsRead, e
    <3>2. e + 1 = 34 + Len(l.user) /\ e + 1 \in 1 .. L + 1
      BY <1>0, <3>1
    <3>3. IsPast(a, p, e + 1, caps)
      BY <1>0, <3>2, PastAuthIs DEF a
    <3>4. a \in Int
      BY <2>5, <3>3 DEF IsPast
    <3>5. CASE ~Has(caps, "db") \/ a > L
      <4>1. w = Identity(l.caps, l.user, <<>>)
        BY <1>1, <2>1, <2>5, <3>0, <3>1, <3>5, Zenon
      <4>2. NulFree(<<>>)
        BY DEF NulFree
      <4>3. w # Panic
        BY <1>0, <4>1, NotPanic
      <4> QED
        BY <1>0, <3>0, <4>1, <4>2, <4>3, Zenon DEF IsParsed, PanicIsWrap, w
    <3>6. CASE Has(caps, "db") /\ ~(a > L) /\ a < 1
      <4>1. w = Panic
        BY <1>1, <2>5, <3>0, <3>6, Zenon
      <4>2. Has(caps, "lenenc")
            /\ ReadLenEncInt(From(p, e + 1)).value >= (Word * Word) \div 2 - Len(p)
        BY <2>5, <3>3, <3>6 DEF IsPast
      <4>3. IsParsed(w, p, l)
        <5>1. w \in {Nothing, Panic}
          BY <4>1
        <5> QED
          BY <3>0, <5>1, Zenon DEF IsParsed
      <4>4. PanicIsWrap(w, p, l)
        BY <2>1, <3>2, <3>6, <4>2 DEF PanicIsWrap
      <4> QED
        BY <4>3, <4>4 DEF w
    <3>7. CASE Has(caps, "db") /\ ~(a > L) /\ ~(a < 1)
      <4> DEFINE f == NulFrom(p, a)
                 d == SubSeq(p, a, f - 1)
      <4>0. a \in 1 .. L + 1
        BY <1>0, <3>4, <3>7
      <4>1. f \in a .. L + 1 /\ \A k \in a .. f - 1 : p[k] # 0
        BY <1>0, <4>0, FirstNul
      <4> HIDE DEF f
      <4>2. f - 1 \in a - 1 .. L
        BY <1>0, <3>4, <4>1
      <4>3. d \in Seq(Byte) /\ Len(d) = (f - 1) - a + 1
            /\ \A k \in 1 .. (f - 1) - a + 1 : d[k] = p[a + k - 1]
        BY <1>0, <4>0, <4>2, PartType
      <4>4. w = Identity(l.caps, l.user, d)
        BY <1>1, <2>1, <2>5, <3>0, <3>1, <3>7, Zenon DEF f
      <4> HIDE DEF d
      <4>5. NulFree(d)
        <5>1. DOMAIN d = 1 .. (f - 1) - a + 1
          BY <4>3, LenProperties
        <5>2. ASSUME NEW k \in 1 .. (f - 1) - a + 1 PROVE d[k] # 0
          <6>1. a + k - 1 \in a .. f - 1
            BY <1>0, <3>4, <4>1
          <6> QED
            BY <4>1, <4>3, <6>1
        <5> QED
          BY <5>1, <5>2 DEF NulFree
      <4>6. w # Panic
        BY <1>0, <4>3, <4>4, NotPanic
      <4> QED
        BY <1>0, <3>0, <4>3, <4>4, <4>5, <4>6, Zenon DEF IsParsed, PanicIsWrap, w
    <3> QED
      BY <3>5, <3>6, <3>7
  <2>6. L = 32 \/ L > 32
    BY <1>3, <1>8
  <2> QED
    BY <2>3, <2>4, <2>5, <2>6, Zenon
<1> QED
  BY <1>0, <1>2, <1>3

(* The three parts of a login that arrived whole.                          *)
IsSent(p, l, a, d) ==
  /\ p \in Seq(Byte) /\ a \in Seq(Byte) /\ d \in Seq(Byte)
  /\ Len(p) = ((33 + Len(l.user)) + Len(a)) + Len(d)
  /\ \A k \in 1 .. Len(a) : p[(33 + Len(l.user)) + k] = a[k]
  /\ \A k \in 1 .. Len(d) : p[((33 + Len(l.user)) + Len(a)) + k] = d[k]

(* A login is its head, its authentication data and its database.          *)
LEMMA SentParts ==
  ASSUME NEW l \in Logins, NEW length \in Seq(Byte)
  PROVE  IsSent(LoginBytes(l, length), l, AuthBytes(l, length), DatabaseBytes(l))
<1> DEFINE h == LoginHead(l)
           a == AuthBytes(l, length)
           d == DatabaseBytes(l)
           H == 33 + Len(l.user)
<1>1. h \in Seq(Byte) /\ Len(h) = H
  BY HeadIs DEF IsHead
<1>2. a \in Seq(Byte) /\ d \in Seq(Byte)
  BY TailBytes
<1>3. LoginBytes(l, length) = (h \o a) \o d
  BY DEF LoginBytes
<1>4. H \in Nat
  BY ClientIs, LenProperties
<1> DEFINE w1 == h \o a
           w2 == w1 \o d
           A == Len(a)
           D == Len(d)
<1> HIDE DEF h, a, d, H
<1>5. IsConcat(w1, h, a) /\ A \in Nat
  BY <1>1, <1>2, Concats
<1>6. w1 \in Seq(Byte) /\ Len(w1) = H + A /\ \A k \in 1 .. A : w1[H + k] = a[k]
  BY <1>1, <1>5 DEF IsConcat
<1>7. IsConcat(w2, w1, d) /\ D \in Nat
  BY <1>2, <1>6, Concats
<1> HIDE DEF w1, w2, A, D
<1>8. w2 \in Seq(Byte) /\ Len(w2) = (H + A) + D /\ \A k \in 1 .. D : w2[(H + A) + k] = d[k]
  BY <1>6, <1>7 DEF IsConcat, D
<1>9. ASSUME NEW k \in 1 .. A PROVE w2[H + k] = a[k]
  <2>1. H + k \in 1 .. H + A
    BY <1>4, <1>5
  <2>2. w2[H + k] = w1[H + k]
    BY <1>6, <1>7, <2>1 DEF IsConcat
  <2> QED
    BY <1>6, <2>2
<1>10. IsSent(w2, l, a, d)
  BY <1>2, <1>8, <1>9 DEF IsSent, H, A, D
<1> QED
  BY <1>3, <1>10 DEF w1, w2, a, d

(* A login that arrived at least up to the end of its user's name, with    *)
(* its authentication data as far as it goes.                              *)
IsBegun(p, l, a) ==
  /\ p \in Seq(Byte) /\ a \in Seq(Byte)
  /\ Len(p) >= 33 + Len(l.user)
  /\ \A k \in 1 .. Len(a) :
       (33 + Len(l.user)) + k <= Len(p) => p[(33 + Len(l.user)) + k] = a[k]

(* Where the part after the authentication data is looked for: where it    *)
(* is, or nowhere, or, in a login that was cut before, at its end.         *)
IsPassed(past, p, l, a) ==
  \/ past = ((33 + Len(l.user)) + Len(a)) + 1
  \/ Len(p) < (33 + Len(l.user)) + Len(a) /\ past \in {Nothing, Len(p) + 1}

(* In each of its forms the authentication data is passed exactly.         *)
LEMMA PastSent ==
  ASSUME NEW l \in Logins, NEW p, NEW a,
         a = AuthBytes(l, LenEncOf(Len(l.auth))), IsBegun(p, l, a),
         (33 + Len(l.user)) + Len(a) < (Word * Word) \div 2
  PROVE  IsPassed(PastAuth(p, (33 + Len(l.user)) + 1, l.caps), p, l, a)
<1> DEFINE U == Len(l.user)
           H == 33 + U
           A == Len(a)
           L == Len(p)
           s == l.auth
           size == Len(s)
<1>0. /\ p \in Seq(Byte) /\ a \in Seq(Byte) /\ s \in Seq(Byte)
      /\ U \in Nat /\ H \in Nat /\ H >= 33 /\ A \in Nat /\ L \in Nat /\ size \in Nat
      /\ L >= H
      /\ Base \in Nat /\ Base >= 8 /\ Base > 0
  <2>1. p \in Seq(Byte) /\ a \in Seq(Byte) /\ L >= H
    BY DEF IsBegun
  <2>2. s \in Seq(Byte) /\ l.user \in Seq(Byte)
    BY ClientIs
  <2>3. U \in Nat /\ A \in Nat /\ L \in Nat /\ size \in Nat
    BY <2>1, <2>2, LenProperties
  <2>4. Base \in Nat /\ Base >= 8 /\ Base > 0
    BY ByteFacts
  <2> HIDE DEF U, A, L, size
  <2>5. H \in Nat /\ H >= 33
    BY <2>3
  <2> QED
    BY <2>1, <2>2, <2>3, <2>4, <2>5
<1>1. \A k \in 1 .. A : H + k <= L => p[H + k] = a[k]
  BY DEF IsBegun
<1>2. ("lenenc" \in l.flags <=> Has(l.caps, "lenenc")) /\ ("secure" \in l.flags <=> Has(l.caps, "secure"))
  BY ClientIs DEF Flags
<1>3. H + A < (Word * Word) \div 2
  OBVIOUS
<1>4. a = AuthBytes(l, LenEncOf(size))
  OBVIOUS
<1>5. NulFree(s) \/ "secure" \in l.flags \/ "lenenc" \in l.flags
  BY ClientIs
<1>6. /\ "lenenc" \in l.flags => size < Base * Base
      /\ "secure" \in l.flags => "lenenc" \in l.flags \/ size < Base
  BY ClientIs
<1> DEFINE past == PastAuth(p, H + 1, l.caps)
<1> SUFFICES past = (H + A) + 1 \/ (L < H + A /\ past \in {Nothing, L + 1})
  BY DEF IsPassed
<1> HIDE DEF past, U, H, A, L, s, size
<1>7. CASE "lenenc" \in l.flags
  <2> DEFINE r == From(p, H + 1)
             len == LenEncOf(size)
             n1 == Len(len)
  <2>1. a = len \o s
    BY <1>4, <1>7 DEF AuthBytes, s
  <2>2. /\ len \in Seq(Byte)
        /\ size < Base - 5 => len = <<size>>
        /\ ~(size < Base - 5) => len = <<Base - 4>> \o PutLittle(size, 2, Base)
    BY <1>0, LengthBytes
  <2> HIDE DEF len
  <2>3. IsConcat(a, len, s) /\ n1 \in Nat
    BY <1>0, <2>1, <2>2, Concats
  <2>4. A = n1 + size /\ \A k \in 1 .. n1 : a[k] = len[k]
    BY <2>3 DEF IsConcat, A, size
  <2>5. H + 1 \in 1 .. Len(p) + 1 /\ L - (H + 1) + 1 = L - H
    BY <1>0 DEF L
  <2>6. /\ r \in Seq(Byte) /\ Len(r) = L - (H + 1) + 1
        /\ \A k \in 1 .. L - (H + 1) + 1 : r[k] = p[(H + 1) + k - 1]
    <3>1. p \in Seq(Byte) /\ H + 1 \in 1 .. Len(p) + 1
      BY <1>0, <2>5
    <3> QED
      BY <3>1, FromIs DEF L
  <2> HIDE DEF r, n1
  <2>7. Len(r) = L - H /\ \A k \in 1 .. L - H : r[k] = p[(H + 1) + k - 1]
    BY <2>5, <2>6, Zenon
  <2>8. ASSUME NEW k \in 1 .. n1, k <= L - H PROVE r[k] = len[k]
    <3>1. k \in 1 .. L - H /\ (H + 1) + k - 1 = H + k /\ H + k <= L /\ k \in 1 .. A
      BY <1>0, <2>3, <2>4, <2>8
    <3> QED
      BY <1>1, <2>4, <2>7, <3>1
  <2>9. L - H >= 1 => r # <<>>
    <3>1. L - H >= 1 => Len(r) # 0
      BY <1>0, <2>7
    <3> QED
      BY <3>1, ByteFacts
  <2>20. past = PastLenEnc(p, H + 1)
    BY <1>2, <1>7 DEF PastAuth, past
  <2>21. ASSUME ReadLenEncInt(r) = Nothing, L - H < n1
         PROVE  L < H + A /\ past = Nothing
    <3>1. L < H + A
      BY <1>0, <2>3, <2>4, <2>21
    <3>2. past = Nothing
      BY <2>20, <2>21 DEF PastLenEnc, r
    <3> QED
      BY <3>1, <3>2
  <2>22. ASSUME L - H < 1 PROVE ReadLenEncInt(r) = Nothing
    <3>1. Len(r) = 0
      BY <1>0, <2>7, <2>22
    <3>2. r = <<>>
      BY <2>6, <3>1, EmptySeq
    <3> QED
      BY <3>2 DEF ReadLenEncInt
  <2>10. \/ ReadLenEncInt(r) = [value |-> size, n |-> n1]
         \/ ReadLenEncInt(r) = Nothing /\ L - H < n1
    <3>1. CASE size < Base - 5
      <4>1. len = <<size>>
        BY <2>2, <3>1
      <4>2. n1 = 1 /\ len[1] = size
        BY <4>1 DEF n1
      <4> SUFFICES ASSUME ~(L - H < 1) PROVE ReadLenEncInt(r) = [value |-> size, n |-> n1]
        BY <2>22, <4>2
      <4>0. L - H >= 1 /\ 1 \in 1 .. n1
        BY <1>0, <4>2
      <4>3. r[1] = size
        BY <2>8, <4>0, <4>2
      <4>4. r # <<>>
        BY <2>9, <4>0
      <4>5. r[1] < Base - 5 /\ ~(r[1] = Base - 4) /\ ~(r[1] = Base - 3) /\ ~(r[1] = Base - 2)
        BY <1>0, <3>1, <4>3
      <4> QED
        BY <4>2, <4>3, <4>4, <4>5 DEF ReadLenEncInt
    <3>2. CASE ~(size < Base - 5)
      <4> DEFINE z == <<Base - 4>>
                 c == PutLittle(size, 2, Base)
      <4>0. Base - 4 \in Byte
        BY <1>0, ByteFacts
      <4>1. z \in Seq(Byte) /\ Len(z) = 1 /\ z[1] = Base - 4
        BY <4>0
      <4>2. c \in Seq(Byte) /\ Len(c) = 2
        BY <1>0, PutBytes
      <4>3. len = z \o c
        BY <2>2, <3>2
      <4> HIDE DEF z, c
      <4>4. IsConcat(len, z, c)
        BY <4>1, <4>2, <4>3, Concats
      <4>5. n1 = 3 /\ len[1] = Base - 4 /\ len[2] = c[1] /\ len[3] = c[2]
        <5>1. n1 = Len(z) + Len(c) /\ len[1] = z[1] /\ len[Len(z) + 1] = c[1] /\ len[Len(z) + 2] = c[2]
          BY <4>1, <4>2, <4>4 DEF IsConcat, n1
        <5> QED
          BY <4>1, <4>2, <5>1
      <4> SUFFICES ASSUME ~(L - H < 1)
                   PROVE  \/ ReadLenEncInt(r) = [value |-> size, n |-> n1]
                          \/ ReadLenEncInt(r) = Nothing /\ L - H < n1
        <5>1. L - H < 1 => L - H < n1
          BY <1>0, <4>5
        <5> QED
          BY <2>22, <5>1
      <4>20. L - H >= 1 /\ 1 \in 1 .. n1 /\ 2 \in 1 .. n1 /\ 3 \in 1 .. n1
        BY <1>0, <4>5
      <4>21. r[1] = Base - 4 /\ r # <<>>
        BY <2>8, <2>9, <4>5, <4>20
      <4>12. ~(r[1] < Base - 5) /\ r[1] = Base - 4 /\ ~(r[1] = Base - 3) /\ ~(r[1] = Base - 2)
        BY <1>0, <4>21
      <4>22. ReadLenEncInt(r) = LenEnc(r, 2)
        BY <4>12, <4>21 DEF ReadLenEncInt
      <4>23. CASE L - H < 3
        <5>1. Len(r) < 2 + 1 /\ L - H < n1
          BY <1>0, <2>7, <4>5, <4>23
        <5>2. LenEnc(r, 2) = Nothing
          BY <5>1 DEF LenEnc
        <5> QED
          BY <4>22, <5>1, <5>2
      <4> SUFFICES ASSUME ~(L - H < 3) PROVE ReadLenEncInt(r) = [value |-> size, n |-> n1]
        BY <4>23
      <4>24. 2 <= L - H /\ 3 <= L - H
        BY <1>0
      <4>6. r[2] = c[1] /\ r[3] = c[2]
        BY <2>8, <4>5, <4>20, <4>24
      <4>7. Len(r) >= 3
        BY <2>7, <4>24
      <4>8. FitsIn(size, 2, Base) /\ Spells(r, 2, size, 2, Base)
        <5>1. size < Base * Base
          BY <1>7, <1>6
        <5>2. FitsIn(size, 2, Base)
          BY <1>0, <5>1, Fits
        <5>3. \A k \in 1 .. 2 : r[2 + k - 1] = c[k]
          BY <4>6
        <5> QED
          BY <5>2, <5>3 DEF Spells, c
      <4>9. Little(r, 2, 2, Base) = size
        BY <1>0, <4>8, LittleInverts
      <4>10. ~(Len(r) < 2 + 1)
        BY <1>0, <2>7, <4>7
      <4>11. LenEnc(r, 2) = [value |-> size, n |-> 3]
        BY <4>9, <4>10 DEF LenEnc
      <4> QED
        BY <4>5, <4>11, <4>22
    <3> QED
      BY <3>1, <3>2
  <2>11. [value |-> size, n |-> n1] # Nothing
    <3>1. [value |-> size, n |-> n1] \in [value : Nat, n : Nat]
      BY <1>0, <2>3
    <3> QED
      BY <3>1, CommandAssumption
  <2> SUFFICES ASSUME ReadLenEncInt(r) = [value |-> size, n |-> n1] PROVE past = (H + A) + 1
    BY <2>10, <2>21
  <2>12. past = Wrap((H + 1) - 1 + n1 + size) + 1
    <3> DEFINE y == [value |-> size, n |-> n1]
    <3>1. y.value = size /\ y.n = n1
      OBVIOUS
    <3>2. ReadLenEncInt(From(p, H + 1)) = y /\ y # Nothing
      BY <2>11 DEF r
    <3> HIDE DEF y
    <3>3. past = Wrap((H + 1) - 1 + y.n + y.value) + 1
      BY <2>20, <3>2, Zenon DEF PastLenEnc
    <3> QED
      BY <3>1, <3>3, Zenon
  <2> DEFINE x == (H + 1) - 1 + n1 + size
  <2>13. x = H + A /\ x \in Nat
    BY <1>0, <2>3, <2>4
  <2> HIDE DEF x
  <2>14. Wrap(x) = x
    <3> DEFINE half == (Word * Word) \div 2
    <3>2. x < half
      BY <1>3, <2>13
    <3>3. x < half => Wrap(x) = x
      BY <2>13, IntSize, SignedIs DEF Wrap
    <3> HIDE DEF half
    <3> QED
      BY <3>2, <3>3
  <2> QED
    BY <2>12, <2>13, <2>14 DEF x
<1>8. CASE "lenenc" \notin l.flags /\ "secure" \in l.flags
  <2> DEFINE z == <<size>>
  <2>1. a = z \o s
    BY <1>4, <1>8 DEF AuthBytes, s, size
  <2>2. size \in Byte
    <3>1. size < Base
      BY <1>8, <1>6
    <3> QED
      BY <1>0, <3>1, ByteFacts
  <2>3. z \in Seq(Byte) /\ Len(z) = 1 /\ z[1] = size
    BY <2>2
  <2> HIDE DEF z
  <2>4. IsConcat(a, z, s)
    BY <1>0, <2>1, <2>3, Concats
  <2>5. A = 1 + size /\ a[1] = size
    BY <2>3, <2>4 DEF IsConcat, A, size
  <2>6. past = IF H + 1 > L THEN Nothing ELSE (H + 1) + 1 + p[H + 1]
    BY <1>2, <1>8 DEF PastAuth, PastSecure, L, past
  <2>7. CASE H + 1 > L
    <3>1. L < H + A
      BY <1>0, <2>5, <2>7
    <3> QED
      BY <2>6, <2>7, <3>1
  <2>8. CASE ~(H + 1 > L)
    <3>1. H + 1 <= L /\ 1 \in 1 .. A
      BY <1>0, <2>5, <2>8
    <3>2. p[H + 1] = size
      BY <1>1, <2>5, <3>1
    <3>3. (H + 1) + 1 + size = (H + A) + 1
      BY <1>0, <2>5
    <3> QED
      BY <2>6, <2>8, <3>2, <3>3
  <2> QED
    BY <2>7, <2>8
<1>9. CASE "lenenc" \notin l.flags /\ "secure" \notin l.flags
  <2> DEFINE z == <<0>>
  <2>1. a = s \o z
    BY <1>4, <1>9 DEF AuthBytes, s
  <2>2. z \in Seq(Byte) /\ Len(z) = 1 /\ z[1] = 0
    BY ByteFacts
  <2> HIDE DEF z
  <2>3. IsConcat(a, s, z)
    BY <1>0, <2>1, <2>2, Concats
  <2>4. A = size + 1 /\ a[size + 1] = 0 /\ \A k \in 1 .. size : a[k] = s[k]
    BY <2>2, <2>3 DEF IsConcat, A, size
  <2>5. \A k \in 1 .. size : s[k] # 0
    <3>1. NulFree(s)
      BY <1>5, <1>9
    <3>2. DOMAIN s = 1 .. size
      BY <1>0, LenProperties DEF size
    <3> QED
      BY <3>1, <3>2 DEF NulFree
  <2>6. ASSUME NEW k \in H + 1 .. L, k < H + A PROVE p[k] # 0
    <3>1. k - H \in 1 .. size /\ k - H \in 1 .. A /\ H + (k - H) = k /\ H + (k - H) <= L
      BY <1>0, <2>4, <2>6
    <3> QED
      BY <1>1, <2>4, <2>5, <3>1
  <2>7. past = IF NulFrom(p, H + 1) > L THEN L + 1 ELSE NulFrom(p, H + 1) + 1
    BY <1>2, <1>9 DEF PastAuth, L, past
  <2>8. H + 1 \in 1 .. Len(p) + 1
    BY <1>0 DEF L
  <2>9. CASE H + A <= L
    <3> DEFINE e == H + A
    <3>1. A \in 1 .. A
      BY <1>0, <2>4
    <3>2. p[e] = 0
      BY <1>1, <2>4, <2>9, <3>1
    <3>3. e \in H + 1 .. Len(p) /\ ~(e > L)
      BY <1>0, <2>4, <2>9 DEF L
    <3>4. \A k \in H + 1 .. e - 1 : p[k] # 0
      BY <1>0, <2>6, <2>9
    <3> HIDE DEF e
    <3>5. NulFrom(p, H + 1) = e
      BY <1>0, <2>8, <3>2, <3>3, <3>4, NulAt
    <3>6. past = e + 1
      BY <2>7, <3>3, <3>5
    <3> QED
      BY <3>6 DEF e
  <2>10. CASE ~(H + A <= L)
    <3>1. \A k \in H + 1 .. Len(p) : p[k] # 0
      BY <1>0, <2>6, <2>10 DEF L
    <3>2. NulFrom(p, H + 1) = L + 1
      BY <1>0, <2>8, <3>1, NulAt DEF L
    <3>3. L + 1 > L /\ L < H + A
      BY <1>0, <2>10
    <3> QED
      BY <2>7, <3>2, <3>3
  <2> QED
    BY <1>0, <2>9, <2>10
<1> QED
  BY <1>7, <1>8, <1>9

(* A login that holds all of its authentication data.                      *)
LEMMA PastWhole ==
  ASSUME NEW l \in Logins, NEW p, NEW a, NEW d,
         a = AuthBytes(l, LenEncOf(Len(l.auth))), IsSent(p, l, a, d),
         Len(p) < (Word * Word) \div 2
  PROVE  PastAuth(p, (33 + Len(l.user)) + 1, l.caps) = ((33 + Len(l.user)) + Len(a)) + 1
<1> DEFINE U == Len(l.user)
           A == Len(a)
           D == Len(d)
           L == Len(p)
           half == (Word * Word) \div 2
<1>1. p \in Seq(Byte) /\ a \in Seq(Byte) /\ d \in Seq(Byte) /\ L = ((33 + U) + A) + D
      /\ \A k \in 1 .. A : p[(33 + U) + k] = a[k]
  BY DEF IsSent
<1>2. U \in Nat /\ A \in Nat /\ D \in Nat /\ L \in Nat
  BY <1>1, ClientIs, LenProperties
<1>3. L < half /\ half \in Nat
  BY IntSize
<1> HIDE DEF U, A, D, L, half
<1>4. L >= 33 + U /\ (33 + U) + A < half /\ ~(L < (33 + U) + A)
  BY <1>1, <1>2, <1>3
<1>5. IsBegun(p, l, a)
  BY <1>1, <1>4 DEF IsBegun, U, A, L
<1>6. IsPassed(PastAuth(p, (33 + Len(l.user)) + 1, l.caps), p, l, a)
  BY <1>4, <1>5, PastSent DEF half, U, A
<1> QED
  BY <1>4, <1>6 DEF IsPassed, U, A, L

(* A login that arrived whole gives the client's user and database.        *)
LEMMA WholeLogin ==
  ASSUME NEW l \in Logins
  PROVE  ParseHandshakeResponse(LoginSent(l))
           = Identity(l.caps, l.user, IF "db" \in l.flags THEN l.database ELSE <<>>)
<1> DEFINE length == LenEncOf(Len(l.auth))
           p == LoginSent(l)
           a == AuthBytes(l, length)
           d == DatabaseBytes(l)
           U == Len(l.user)
           H == 33 + U
           A == Len(a)
           D == Len(d)
           L == Len(p)
           e == NulFrom(p, 33)
           off == (H + A) + 1
<1>1. Len(l.auth) \in Nat
  BY ClientIs, LenProperties
<1>2. length \in Seq(Byte)
  BY <1>1, LengthBytes
<1>3. IsSent(p, l, a, d)
  BY <1>2, SentParts DEF LoginSent
<1>4. BeginsLike(p, l)
  BY <1>2, LoginBegins DEF LoginSent
<1>5. PastAuth(p, H + 1, l.caps) = off
  <2>1. L < (Word * Word) \div 2
    BY ClientIs
  <2> HIDE DEF p, d
  <2> QED
    BY <1>3, <2>1, PastWhole
<1>6. p \in Seq(Byte) /\ a \in Seq(Byte) /\ d \in Seq(Byte) /\ L = (H + A) + D
      /\ \A k \in 1 .. D : p[(H + A) + k] = d[k]
  BY <1>3 DEF IsSent
<1>7. d = IF "db" \in l.flags THEN l.database \o <<0>> ELSE <<>>
  BY DEF DatabaseBytes
<1> HIDE DEF p, a, d
<1>8. U \in Nat /\ A \in Nat /\ D \in Nat /\ L \in Nat
  BY <1>6, ClientIs, LenProperties
<1> HIDE DEF U, A, D, L
<1>9. L >= H /\ L >= 32 /\ ~(L < 32) /\ ~(L = 32) /\ H + 1 \in Nat
  BY <1>6, <1>8
<1>10. ClientCapabilitiesFromHandshakeResponse(p) = l.caps
  <2>1. Len(p) >= 4
    BY <1>8, <1>9 DEF L
  <2> QED
    BY <1>4, <2>1, CapsRead
<1>11. e = H /\ UserOf(p) = l.user
  <2>1. UserIsRead(p, l)
    BY <1>4, <1>9, UserRead DEF L
  <2> QED
    BY <1>9, <2>1 DEF UserIsRead, U, L
<1>12. ~(e > L)
  BY <1>8, <1>9, <1>11
<1>13. off \in Int /\ off # Nothing /\ ~(off < 1)
  <2>1. off \in Int /\ ~(off < 1)
    BY <1>8
  <2> HIDE DEF off
  <2> QED
    BY <2>1, CommandAssumption
<1> HIDE DEF e, H, off
<1>14. PastAuth(p, e + 1, l.caps) = off
  BY <1>5, <1>11
<1>15. "db" \in l.flags <=> Has(l.caps, "db")
  BY ClientIs DEF Flags
<1>16. ParseHandshakeResponse(p) =
         IF ~Has(l.caps, "db") \/ off > L THEN Identity(l.caps, l.user, <<>>)
         ELSE Identity(l.caps, l.user, SubSeq(p, off, NulFrom(p, off) - 1))
  BY <1>9, <1>10, <1>11, <1>12, <1>13, <1>14, Zenon DEF ParseHandshakeResponse, e, L
<1>17. CASE "db" \notin l.flags
  BY <1>15, <1>16, <1>17 DEF p
<1>18. CASE "db" \in l.flags
  <2> DEFINE b == l.database
             z == <<0>>
             B == Len(b)
             f == off + B
             s == SubSeq(p, off, f - 1)
  <2>1. b \in Seq(Byte) /\ z \in Seq(Byte) /\ Len(z) = 1 /\ z[1] = 0 /\ B \in Nat
    <3>1. b \in Seq(Byte) /\ z \in Seq(Byte) /\ Len(z) = 1 /\ z[1] = 0
      BY ClientIs, ByteFacts
    <3> QED
      BY <3>1, LenProperties
  <2>2. d = b \o z
    BY <1>7, <1>18
  <2>3. \A k \in 1 .. B : b[k] # 0
    <3>1. DOMAIN b = 1 .. B
      BY <2>1, LenProperties
    <3>2. NulFree(b)
      BY ClientIs
    <3> QED
      BY <3>1, <3>2 DEF NulFree
  <2> HIDE DEF b, z
  <2>4. IsConcat(d, b, z)
    BY <2>1, <2>2, Concats
  <2>5. D = B + 1 /\ d[B + 1] = 0 /\ \A k \in 1 .. B : d[k] = b[k]
    BY <2>1, <2>4 DEF IsConcat, D
  <2> HIDE DEF B
  <2>6. off = (H + A) + 1 /\ H \in Nat
    BY <1>8 DEF off, H
  <2>7. /\ off \in 1 .. Len(p) + 1 /\ f \in off .. Len(p) /\ ~(off > L)
        /\ f - 1 \in off - 1 .. Len(p) /\ (f - 1) - off + 1 = B
    <3>1. off \in 1 .. L + 1 /\ f \in off .. L /\ ~(off > L)
          /\ f - 1 \in off - 1 .. L /\ (f - 1) - off + 1 = B
      BY <1>6, <1>8, <2>1, <2>5, <2>6
    <3> QED
      BY <3>1 DEF L
  <2>8. ASSUME NEW k \in 1 .. B PROVE p[off + k - 1] = b[k]
    <3>1. off + k - 1 = (H + A) + k /\ k \in 1 .. D
      BY <1>8, <2>1, <2>5, <2>6
    <3> QED
      BY <1>6, <2>5, <3>1
  <2>9. p[f] = 0
    <3>1. f = (H + A) + (B + 1) /\ B + 1 \in 1 .. D
      BY <1>8, <2>1, <2>5, <2>6
    <3> QED
      BY <1>6, <2>5, <3>1
  <2>10. ASSUME NEW k \in off .. f - 1 PROVE p[k] # 0
    <3>1. k - off + 1 \in 1 .. B /\ off + (k - off + 1) - 1 = k
      BY <1>13, <2>1
    <3> QED
      BY <2>3, <2>8, <3>1
  <2> HIDE DEF f
  <2>11. NulFrom(p, off) = f
    BY <1>6, <2>7, <2>9, <2>10, NulAt
  <2>12. /\ s \in Seq(Byte) /\ Len(s) = (f - 1) - off + 1
         /\ \A k \in 1 .. (f - 1) - off + 1 : s[k] = p[off + k - 1]
    BY <1>6, <2>7, PartType
  <2> HIDE DEF s
  <2>13. Len(s) = B /\ \A k \in 1 .. B : s[k] = b[k]
    BY <2>7, <2>8, <2>12, Zenon
  <2>14. s = b
    BY <2>1, <2>12, <2>13, SeqEqual DEF B
  <2>15. ParseHandshakeResponse(p) = Identity(l.caps, l.user, b)
    BY <1>15, <1>16, <1>18, <2>7, <2>11, <2>14, Zenon DEF s
  <2> QED
    BY <1>18, <2>15 DEF p, b
<1> QED
  BY <1>17, <1>18

(* The empty string is a beginning of any.                                 *)
LEMMA EmptyCut ==
  ASSUME NEW u \in Seq(Byte)
  PROVE  <<>> \in Cuts(u)
<1>1. SubSeq(u, 1, 0) = <<>> /\ 0 \in 0 .. Len(u)
  BY SubSeqEmpty, LenProperties
<1> QED
  BY <1>1 DEF Cuts

(* A login that was cut gives, if anything, the beginning of the client's  *)
(* database.                                                               *)
LEMMA CutLogin ==
  ASSUME NEW l \in Logins, NEW p \in Cuts(LoginSent(l)), Len(p) > 32,
         ParseHandshakeResponse(p) \notin {Nothing, Panic}
  PROVE  ParseHandshakeResponse(p).database
           \in Cuts(IF "db" \in l.flags THEN l.database ELSE <<>>)
<1> DEFINE length == LenEncOf(Len(l.auth))
           q == LoginSent(l)
           a == AuthBytes(l, length)
           d == DatabaseBytes(l)
           U == Len(l.user)
           H == 33 + U
           A == Len(a)
           D == Len(d)
           L == Len(p)
           Q == Len(q)
           e == NulFrom(p, 33)
           past == PastAuth(p, e + 1, l.caps)
           off == (H + A) + 1
           name == IF "db" \in l.flags THEN l.database ELSE <<>>
<1>1. Len(l.auth) \in Nat
  BY ClientIs, LenProperties
<1>2. length \in Seq(Byte)
  BY <1>1, LengthBytes
<1>3. IsSent(q, l, a, d) /\ Q < (Word * Word) \div 2
  BY <1>2, SentParts, ClientIs DEF LoginSent
<1>4. BeginsLike(p, l)
  BY SentBegins
<1>5. q \in Seq(Byte) /\ a \in Seq(Byte) /\ d \in Seq(Byte) /\ Q = (H + A) + D
      /\ (\A k \in 1 .. A : q[H + k] = a[k]) /\ (\A k \in 1 .. D : q[(H + A) + k] = d[k])
  BY <1>3 DEF IsSent
<1>6. d = IF "db" \in l.flags THEN l.database \o <<0>> ELSE <<>>
  BY DEF DatabaseBytes
<1>7. PICK c \in 0 .. Q : p = SubSeq(q, 1, c)
  BY DEF Cuts
<1>8. l.database \in Seq(Byte) /\ <<>> \in Seq(Byte) /\ name \in Seq(Byte)
  BY ClientIs, ByteFacts
<1>9. <<>> \in Cuts(name)
  BY <1>8, EmptyCut
<1> HIDE DEF q, a, d, name
<1>10. U \in Nat /\ A \in Nat /\ D \in Nat /\ Q \in Nat
  BY <1>5, ClientIs, LenProperties
<1>11. p \in Seq(Byte) /\ L = c /\ \A k \in 1 .. c : p[k] = q[1 + k - 1]
  <2>1. 1 \in 1 .. Len(q) + 1 /\ c \in 1 - 1 .. Len(q) /\ c - 1 + 1 = c
    BY <1>10
  <2> QED
    BY <1>5, <1>7, <2>1, PartType
<1>12. L > 32
  OBVIOUS
<1> HIDE DEF U, A, D, Q, L
<1>13. L \in Nat /\ L <= Q /\ \A k \in 1 .. L : p[k] = q[k]
  <2>1. L \in Nat /\ L <= Q
    BY <1>10, <1>11
  <2>2. ASSUME NEW k \in 1 .. L PROVE p[k] = q[k]
    <3>1. k \in 1 .. c /\ 1 + k - 1 = k
      BY <1>11
    <3> QED
      BY <1>11, <3>1
  <2> QED
    BY <2>1, <2>2
<1>14. ~(L < 32) /\ ~(L = 32) /\ L >= 32 /\ L >= 4
  BY <1>12, <1>13
<1>15. ClientCapabilitiesFromHandshakeResponse(p) = l.caps
  BY <1>4, <1>14, CapsRead DEF L
<1>16. UserIsRead(p, l)
  BY <1>4, <1>14, UserRead DEF L
<1> HIDE DEF e, past
<1>17. ParseHandshakeResponse(p) =
         IF e > L THEN Nothing
         ELSE IF past = Nothing THEN Nothing
         ELSE IF ~Has(l.caps, "db") \/ past > L THEN Identity(l.caps, UserOf(p), <<>>)
         ELSE IF past < 1 THEN Panic
         ELSE Identity(l.caps, UserOf(p), SubSeq(p, past, NulFrom(p, past) - 1))
  BY <1>14, <1>15, Zenon DEF ParseHandshakeResponse, e, past, L
<1>18. ~(e > L) /\ past # Nothing
  BY <1>17
<1>19. H <= L /\ e = H
  <2>1. (H <= L => e = H) /\ (~(H <= L) => e = L + 1)
    BY <1>16 DEF UserIsRead, e, L, U
  <2>2. L + 1 > L
    BY <1>13
  <2> QED
    BY <1>18, <2>1, <2>2
<1>20. past = off \/ past = L + 1
  <2>1. L >= H /\ H + A < (Word * Word) \div 2
    <3> DEFINE half == (Word * Word) \div 2
    <3>1. Q < half /\ half \in Nat
      BY <1>3, IntSize DEF Q
    <3> HIDE DEF half
    <3>2. L >= H /\ H + A < half
      BY <1>5, <1>10, <1>13, <1>19, <3>1 DEF Q
    <3> QED
      BY <3>2 DEF half
  <2>2. ASSUME NEW k \in 1 .. A, H + k <= L PROVE p[H + k] = a[k]
    <3>1. H + k \in 1 .. L
      BY <1>10, <1>13, <2>2
    <3> QED
      BY <1>5, <1>13, <3>1
  <2>3. IsBegun(p, l, a)
    BY <1>5, <1>11, <2>1, <2>2 DEF IsBegun, A, L, U
  <2>4. IsPassed(PastAuth(p, H + 1, l.caps), p, l, a)
    BY <2>1, <2>3, PastSent DEF a, A, U
  <2>5. past = PastAuth(p, H + 1, l.caps)
    BY <1>19 DEF past
  <2> QED
    BY <1>18, <2>4, <2>5 DEF IsPassed, A, L, U
<1>21. CASE ~Has(l.caps, "db") \/ past > L
  <2>1. ParseHandshakeResponse(p) = Identity(l.caps, UserOf(p), <<>>)
    BY <1>17, <1>18, <1>21, Zenon
  <2>2. ParseHandshakeResponse(p).database = <<>>
    BY <2>1 DEF Identity
  <2> QED
    BY <1>9, <2>2 DEF name
<1>22. CASE Has(l.caps, "db") /\ ~(past > L)
  <2> DEFINE b == l.database
             z == <<0>>
             B == Len(b)
             f == NulFrom(p, off)
             s == SubSeq(p, off, f - 1)
  <2>1. b \in Seq(Byte) /\ z \in Seq(Byte) /\ Len(z) = 1 /\ z[1] = 0 /\ B \in Nat
    <3>1. b \in Seq(Byte) /\ z \in Seq(Byte) /\ Len(z) = 1 /\ z[1] = 0
      BY ClientIs, ByteFacts
    <3> QED
      BY <3>1, LenProperties
  <2>2. "db" \in l.flags
    BY <1>22, ClientIs DEF Flags
  <2>3. d = b \o z /\ name = b
    BY <1>6, <2>2 DEF name
  <2>4. past = off
    <3>1. L + 1 > L
      BY <1>13
    <3> QED
      BY <1>20, <1>22, <3>1
  <2> HIDE DEF b, z
  <2>5. IsConcat(d, b, z)
    BY <2>1, <2>3, Concats
  <2>6. D = B + 1 /\ d[B + 1] = 0 /\ \A k \in 1 .. B : d[k] = b[k]
    BY <2>1, <2>5 DEF IsConcat, D
  <2> HIDE DEF B
  <2>7. off \in 1 .. L + 1 /\ L <= off + B /\ ~(off < 1) /\ off <= L
    <3>1. Q = (H + A) + D
      BY <1>5
    <3> QED
      BY <1>10, <1>13, <1>22, <2>1, <2>4, <2>6, <3>1
  <2>8. ASSUME NEW k \in 1 .. D, off + k - 1 <= L PROVE p[off + k - 1] = d[k]
    <3>1. off + k - 1 = (H + A) + k /\ off + k - 1 \in 1 .. L
      BY <1>10, <2>8
    <3> QED
      BY <1>5, <1>13, <3>1
  <2> HIDE DEF f
  <2>9. f \in off .. L + 1 /\ \A k \in off .. f - 1 : p[k] # 0
    BY <1>11, <2>7, FirstNul DEF f, L
  <2>10. f <= off + B
    <3> SUFFICES ASSUME f > off + B PROVE FALSE
      BY <1>10, <2>1, <2>9
    <3>1. off + B <= L /\ off + B \in off .. f - 1 /\ off + (B + 1) - 1 = off + B /\ B + 1 \in 1 .. D
      BY <1>10, <1>13, <2>1, <2>6, <2>9
    <3>2. p[off + B] = 0
      BY <2>6, <2>8, <3>1
    <3> QED
      BY <2>9, <3>1, <3>2
  <2>11. f - 1 \in off - 1 .. L /\ (f - 1) - off + 1 = f - off /\ f - off \in 0 .. B
    BY <1>10, <1>13, <2>1, <2>9, <2>10
  <2>12. s \in Seq(Byte) /\ Len(s) = f - off /\ \A k \in 1 .. f - off : s[k] = p[off + k - 1]
    <3>1. off \in 1 .. Len(p) + 1 /\ f - 1 \in off - 1 .. Len(p)
      BY <2>7, <2>11 DEF L
    <3>2. /\ s \in Seq(Byte) /\ Len(s) = (f - 1) - off + 1
          /\ \A k \in 1 .. (f - 1) - off + 1 : s[k] = p[off + k - 1]
      BY <1>11, <3>1, PartType
    <3> QED
      BY <2>11, <3>2, Zenon
  <2> DEFINE m == f - off
             v == SubSeq(b, 1, m)
  <2>13. v \in Seq(Byte) /\ Len(v) = m /\ \A k \in 1 .. m : v[k] = b[1 + k - 1]
    <3>1. 1 \in 1 .. Len(b) + 1 /\ m \in 1 - 1 .. Len(b) /\ m - 1 + 1 = m
      BY <2>1, <2>11 DEF B
    <3> HIDE DEF m
    <3> QED
      BY <2>1, <3>1, PartType
  <2> HIDE DEF s, v
  <2>14. ASSUME NEW k \in 1 .. m PROVE s[k] = v[k]
    <3>1. k \in 1 .. B /\ k \in 1 .. D /\ off + k - 1 <= L /\ 1 + k - 1 = k
      BY <1>10, <1>13, <2>1, <2>6, <2>9, <2>11
    <3> QED
      BY <2>6, <2>8, <2>12, <2>13, <3>1
  <2>15. s = v
    BY <2>12, <2>13, <2>14, SeqEqual
  <2>16. v \in Cuts(b)
    <3>1. m \in 0 .. Len(b)
      BY <2>11 DEF B
    <3> QED
      BY <3>1 DEF Cuts, v
  <2>17. ParseHandshakeResponse(p) = Identity(l.caps, UserOf(p), s)
    BY <1>17, <1>18, <1>22, <2>4, <2>7, Zenon DEF s, f
  <2>18. ParseHandshakeResponse(p).database = s
    BY <2>17 DEF Identity
  <2> QED
    BY <2>3, <2>15, <2>16, <2>18, Zenon DEF name
<1> QED
  BY <1>21, <1>22

(* Strings are equal when their bytes are.                                 *)
LEMMA SameBytes ==
  ASSUME NEW u \in Seq(Byte), NEW v \in Seq(Byte), NEW size, Len(u) = size, Len(v) = size,
         \A k \in 1 .. size : u[k] = v[k]
  PROVE  u = v
BY SeqEqual

(* What Tail leaves.                                                       *)
LEMMA TailIs ==
  ASSUME NEW p \in Seq(Byte), Len(p) > 0
  PROVE  /\ Tail(p) \in Seq(Byte) /\ Len(Tail(p)) = Len(p) - 1 /\ p # <<>>
         /\ \A k \in 1 .. Len(p) - 1 : Tail(p)[k] = p[k + 1]
<1>1. p # <<>> /\ Len(p) \in Nat
  BY LenProperties
<1>2. Tail(p) = SubSeq(p, 2, Len(p))
  BY <1>1, TailIsSubSeq
<1>3. 2 \in 1 .. Len(p) + 1 /\ Len(p) \in 2 - 1 .. Len(p) /\ Len(p) - 2 + 1 = Len(p) - 1
  BY <1>1
<1>4. /\ Tail(p) \in Seq(Byte) /\ Len(Tail(p)) = Len(p) - 2 + 1
      /\ \A k \in 1 .. Len(p) - 2 + 1 : Tail(p)[k] = p[2 + k - 1]
  BY <1>2, <1>3, PartType
<1>5. \A k \in 1 .. Len(p) - 1 : 2 + k - 1 = k + 1
  OBVIOUS
<1> QED
  BY <1>1, <1>3, <1>4, <1>5

(* A small number is its own length-encoded form (readLenEncInt).          *)
LEMMA ShortLength ==
  ASSUME NEW q \in Seq(Byte), Len(q) > 0, q[1] < Base - 5
  PROVE  ReadLenEncInt(q) = [value |-> q[1], n |-> 1] /\ ReadLenEncInt(q) # Nothing
<1>1. Len(q) \in Nat /\ Base \in Nat /\ q # <<>>
  BY LenProperties, ByteFacts
<1>2. 1 \in 1 .. Len(q)
  BY <1>1
<1>3. q[1] \in Nat
  BY <1>2, ElementOfSeq, ByteFacts
<1>4. ~(q[1] = Base - 4) /\ ~(q[1] = Base - 3) /\ ~(q[1] = Base - 2)
  BY <1>1, <1>3
<1>5. ReadLenEncInt(q) = [value |-> q[1], n |-> 1]
  BY <1>1, <1>4 DEF ReadLenEncInt
<1>6. [value |-> q[1], n |-> 1] \in [value : Nat, n : Nat]
  BY <1>3
<1> QED
  BY <1>5, <1>6, CommandAssumption

(* A command byte, more bytes and a text: what is left behind the command. *)
IsQuery(p, q, c, t) ==
  /\ q \in Seq(Byte) /\ Len(q) = (Len(c) - 1) + Len(t)
  /\ p # <<>> /\ p[1] = ComQuery
  /\ \A k \in 1 .. Len(c) - 1 : q[k] = c[k + 1]
  /\ \A k \in 1 .. Len(t) : q[(Len(c) - 1) + k] = t[k]

(* What is left of a query behind the command byte.                        *)
LEMMA QueryTail ==
  ASSUME NEW t \in Seq(Byte), NEW c \in Seq(Byte), Len(c) > 0, c[1] = 3
  PROVE  IsQuery(c \o t, Tail(c \o t), c, t)
<1> DEFINE C == Len(c)
           T == Len(t)
           p == c \o t
<1>0. T \in Nat /\ C \in Nat /\ C > 0
  BY LenProperties
<1>1. IsConcat(p, c, t)
  BY Concats
<1>2. /\ p \in Seq(Byte) /\ Len(p) = C + T
      /\ \A k \in 1 .. C : p[k] = c[k]
      /\ \A k \in 1 .. T : p[C + k] = t[k]
  BY <1>1 DEF IsConcat
<1> HIDE DEF C, T, p
<1>4. Len(p) > 0 /\ Len(p) - 1 = (C - 1) + T
  BY <1>0, <1>2
<1>5. /\ Tail(p) \in Seq(Byte) /\ Len(Tail(p)) = Len(p) - 1 /\ p # <<>>
      /\ \A k \in 1 .. Len(p) - 1 : Tail(p)[k] = p[k + 1]
  BY <1>2, <1>4, TailIs
<1>6. ASSUME NEW k \in 1 .. C - 1 PROVE Tail(p)[k] = c[k + 1]
  <2>1. k \in 1 .. Len(p) - 1 /\ k + 1 \in 1 .. C
    BY <1>0, <1>4
  <2> QED
    BY <1>2, <1>5, <2>1
<1>7. ASSUME NEW k \in 1 .. T PROVE Tail(p)[(C - 1) + k] = t[k]
  <2>1. (C - 1) + k \in 1 .. Len(p) - 1 /\ ((C - 1) + k) + 1 = C + k
    BY <1>0, <1>4
  <2> QED
    BY <1>2, <1>5, <2>1
<1>8. p[1] = ComQuery
  BY <1>0, <1>2 DEF ComQuery
<1>9. Len(Tail(p)) = (C - 1) + T
  BY <1>4, <1>5
<1>10. IsQuery(p, Tail(p), c, t)
  BY <1>5, <1>6, <1>7, <1>8, <1>9, Zenon DEF C, T, IsQuery
<1> QED
  BY <1>10 DEF p

(* ExtractQuery gives the text of a query, or none when it has parameters. *)
LEMMA QueryRead ==
  ASSUME NEW t \in SqlTexts, NEW params \in 0 .. 1, NEW attrs \in BOOLEAN
  PROVE  ExtractQuery(QueryBytes(t, params, attrs), attrs)
           = IF params > 0 /\ attrs THEN Nothing ELSE t
<1> DEFINE p == QueryBytes(t, params, attrs)
           T == Len(t)
<1>0. t \in Seq(Byte) /\ T \in Nat /\ Base \in Nat /\ Base >= 8
  BY InspectionAssumption, LenProperties, ByteFacts
<1>1. 0 \in Byte /\ 1 \in Byte /\ 3 \in Byte
  BY ByteFacts
<1>3. CASE attrs = FALSE
  <2> DEFINE c == <<3>>
  <2>1. p = c \o t
    BY <1>3 DEF QueryBytes, ComQuery
  <2>2. c \in Seq(Byte) /\ Len(c) = 1 /\ c[1] = 3
    BY <1>1
  <2> HIDE DEF p, c
  <2>0. IsQuery(p, Tail(p), c, t)
    BY <1>0, <2>1, <2>2, QueryTail
  <2>3. /\ Tail(p) \in Seq(Byte) /\ Len(Tail(p)) = (1 - 1) + T /\ p # <<>> /\ p[1] = ComQuery
        /\ \A k \in 1 .. T : Tail(p)[(1 - 1) + k] = t[k]
    BY <2>0, <2>2, Zenon DEF IsQuery
  <2>4. Len(Tail(p)) = T /\ \A k \in 1 .. T : Tail(p)[k] = t[k]
    BY <1>0, <2>3
  <2>5. Tail(p) = t
    BY <1>0, <2>3, <2>4, SameBytes
  <2>6. ExtractQuery(p, attrs) = t
    BY <1>3, <2>3, <2>5 DEF ExtractQuery
  <2> QED
    BY <1>3, <2>6 DEF p
<1>4. CASE attrs = TRUE /\ params = 0
  <2> DEFINE c == <<3, 0, 1>>
             q == Tail(p)
             r == From(q, 2)
  <2>1. p = c \o t
    BY <1>4 DEF QueryBytes, ComQuery
  <2>2. c \in Seq(Byte) /\ Len(c) = 3 /\ c[1] = 3 /\ c[2] = 0 /\ c[3] = 1
    BY <1>1
  <2> HIDE DEF p, c
  <2>0. IsQuery(p, q, c, t)
    BY <1>0, <2>1, <2>2, QueryTail
  <2>3. /\ q \in Seq(Byte) /\ Len(q) = (3 - 1) + T /\ p # <<>> /\ p[1] = ComQuery
        /\ \A k \in 1 .. 3 - 1 : q[k] = c[k + 1]
        /\ \A k \in 1 .. T : q[(3 - 1) + k] = t[k]
    BY <2>0, <2>2, Zenon DEF IsQuery
  <2> HIDE DEF q
  <2>4. q[1] = 0 /\ q[2] = 1
    BY <2>2, <2>3
  <2>5. ReadLenEncInt(q) = [value |-> 0, n |-> 1] /\ ReadLenEncInt(q) # Nothing
    <3>1. Len(q) > 0 /\ q[1] < Base - 5
      BY <1>0, <2>3, <2>4
    <3> QED
      BY <2>3, <2>4, <3>1, ShortLength
  <2>6. /\ r \in Seq(Byte) /\ Len(r) = Len(q) - 2 + 1
        /\ \A k \in 1 .. Len(q) - 2 + 1 : r[k] = q[2 + k - 1]
    <3>1. 2 \in 1 .. Len(q) + 1
      BY <1>0, <2>3
    <3> QED
      BY <2>3, <3>1, FromIs
  <2> HIDE DEF r
  <2>7. ReadLenEncInt(r) = [value |-> 1, n |-> 1] /\ ReadLenEncInt(r) # Nothing
    <3>1. Len(r) > 0 /\ 1 \in 1 .. Len(q) - 2 + 1 /\ 2 + 1 - 1 = 2
      BY <1>0, <2>3, <2>6
    <3>2. r[1] = 1
      BY <2>4, <2>6, <3>1
    <3>3. r[1] < Base - 5
      BY <1>0, <3>2
    <3> QED
      BY <2>6, <3>1, <3>2, <3>3, ShortLength
  <2>8. From(q, 3) = t
    <3> DEFINE s == From(q, 3)
    <3>1. 3 \in 1 .. Len(q) + 1 /\ Len(q) - 3 + 1 = T
      BY <1>0, <2>3
    <3>2. /\ s \in Seq(Byte) /\ Len(s) = Len(q) - 3 + 1
          /\ \A k \in 1 .. Len(q) - 3 + 1 : s[k] = q[3 + k - 1]
      BY <2>3, <3>1, FromIs
    <3> HIDE DEF s
    <3>3. \A k \in 1 .. T : 3 + k - 1 = (3 - 1) + k
      BY <1>0
    <3>4. Len(s) = T /\ \A k \in 1 .. T : s[k] = t[k]
      BY <2>3, <3>1, <3>2, <3>3, Zenon
    <3>5. s = t
      BY <1>0, <3>2, <3>4, SameBytes
    <3> QED
      BY <3>5 DEF s
  <2>9. SkipAttributes(q) = t
    <3>1. SkipAttributes(q) =
            IF ReadLenEncInt(q) = Nothing THEN Nothing
            ELSE IF ReadLenEncInt(From(q, 1 + 1)) = Nothing \/ 0 > 0 THEN Nothing
            ELSE From(q, 1 + ReadLenEncInt(From(q, 1 + 1)).n + 1)
      BY <2>5 DEF SkipAttributes
    <3>2. From(q, 1 + 1) = r
      BY DEF r
    <3>3. ReadLenEncInt(From(q, 1 + 1)).n = 1 /\ ReadLenEncInt(From(q, 1 + 1)) # Nothing
      BY <2>7, <3>2
    <3>4. 1 + 1 + 1 = 3 /\ ~(0 > 0)
      OBVIOUS
    <3> QED
      BY <2>5, <2>8, <3>1, <3>3, <3>4, Zenon
  <2>10. ExtractQuery(p, attrs) = t
    BY <1>4, <2>3, <2>9 DEF ExtractQuery, q
  <2>11. ~(params > 0)
    BY <1>4
  <2> QED
    BY <2>10, <2>11, Zenon DEF p
<1>5. CASE attrs = TRUE /\ params = 1
  <2> DEFINE c == <<3, 1, 1, 0, 1>>
             q == Tail(p)
  <2>1. p = c \o t
    BY <1>5 DEF QueryBytes, ComQuery
  <2>2. c \in Seq(Byte) /\ Len(c) = 5 /\ c[1] = 3 /\ c[2] = 1
    BY <1>1
  <2> HIDE DEF p, c
  <2>0. IsQuery(p, q, c, t)
    BY <1>0, <2>1, <2>2, QueryTail
  <2>3. /\ q \in Seq(Byte) /\ Len(q) = (5 - 1) + T /\ p # <<>> /\ p[1] = ComQuery
        /\ \A k \in 1 .. 5 - 1 : q[k] = c[k + 1]
    BY <2>0, <2>2, Zenon DEF IsQuery
  <2> HIDE DEF q
  <2>4. q[1] = 1
    BY <2>2, <2>3
  <2>5. ReadLenEncInt(q) = [value |-> 1, n |-> 1]
    <3>1. Len(q) > 0 /\ q[1] < Base - 5
      BY <1>0, <2>3, <2>4
    <3> QED
      BY <2>3, <2>4, <3>1, ShortLength
  <2>6. SkipAttributes(q) = Nothing
    BY <2>5 DEF SkipAttributes
  <2>7. ExtractQuery(p, attrs) = Nothing
    BY <1>5, <2>3, <2>6 DEF ExtractQuery, q
  <2>8. params > 0
    BY <1>5
  <2> QED
    BY <1>5, <2>7, <2>8, Zenon DEF p
<1>6. params = 0 \/ params = 1
  OBVIOUS
<1> QED
  BY <1>3, <1>4, <1>5, <1>6, Zenon

(* ExtractSQL gives the text of a query and of a Parse message.            *)
LEMMA SQLRead ==
  ASSUME NEW t \in SqlTexts
  PROVE  /\ ExtractSQL([type |-> "Q", payload |-> t \o <<0>>]) = t
         /\ ExtractSQL([type |-> "P", payload |-> <<1, 0>> \o t \o <<0, 0, 0>>]) = t
<1> DEFINE T == Len(t)
<1>0. t \in Seq(Byte) /\ T \in Nat /\ T > 0 /\ \A k \in 1 .. T : t[k] # 0
  <2>1. t \in Seq(Byte) /\ t # <<>> /\ NulFree(t)
    BY InspectionAssumption
  <2>2. T \in Nat /\ DOMAIN t = 1 .. T
    BY <2>1, LenProperties
  <2>3. T # 0
    BY <2>1, <2>2
  <2> QED
    BY <2>1, <2>2, <2>3 DEF NulFree
<1>1. 0 \in Byte /\ 1 \in Byte
  BY ByteFacts
<1>2. ExtractSQL([type |-> "Q", payload |-> t \o <<0>>]) = t
  <2> DEFINE z == <<0>>
             p == t \o z
             s == SubSeq(p, 1, Len(p) - 1)
  <2>1. z \in Seq(Byte) /\ Len(z) = 1 /\ z[1] = 0
    BY <1>1
  <2> HIDE DEF z
  <2>2. IsConcat(p, t, z)
    BY <1>0, <2>1, Concats
  <2>3. p \in Seq(Byte) /\ Len(p) = T + 1 /\ p[T + 1] = 0 /\ \A k \in 1 .. T : p[k] = t[k]
    BY <2>1, <2>2 DEF IsConcat
  <2> HIDE DEF p
  <2>4. 1 \in 1 .. Len(p) + 1 /\ Len(p) - 1 \in 1 - 1 .. Len(p) /\ (Len(p) - 1) - 1 + 1 = T
    BY <1>0, <2>3
  <2>5. /\ s \in Seq(Byte) /\ Len(s) = (Len(p) - 1) - 1 + 1
        /\ \A k \in 1 .. (Len(p) - 1) - 1 + 1 : s[k] = p[1 + k - 1]
    BY <2>3, <2>4, PartType
  <2> HIDE DEF s
  <2>6. \A k \in 1 .. T : s[k] = t[k]
    BY <1>0, <2>3, <2>4, <2>5
  <2>7. s = t
    BY <1>0, <2>4, <2>5, <2>6, SameBytes
  <2>8. p # <<>> /\ p[Len(p)] = 0
    BY <1>0, <2>3
  <2>9. ExtractSQL([type |-> "Q", payload |-> p]) = s
    BY <2>8 DEF ExtractSQL, s
  <2> QED
    BY <2>7, <2>9 DEF p, z
<1>3. ExtractSQL([type |-> "P", payload |-> <<1, 0>> \o t \o <<0, 0, 0>>]) = t
  <2> DEFINE a == <<1, 0>>
             z == <<0, 0, 0>>
             w == a \o t
             p == w \o z
             s == SubSeq(p, 3, (3 + T) - 1)
  <2>1. z \in Seq(Byte) /\ Len(z) = 3 /\ z[1] = 0 /\ a \in Seq(Byte) /\ Len(a) = 2 /\ a[1] = 1 /\ a[2] = 0
    BY <1>1
  <2> HIDE DEF z, a
  <2>2. IsConcat(w, a, t)
    BY <1>0, <2>1, Concats
  <2>3. w \in Seq(Byte) /\ Len(w) = 2 + T /\ w[1] = 1 /\ w[2] = 0 /\ \A k \in 1 .. T : w[2 + k] = t[k]
    BY <2>1, <2>2 DEF IsConcat
  <2> HIDE DEF w
  <2>4. IsConcat(p, w, z)
    BY <2>1, <2>3, Concats
  <2>5. p \in Seq(Byte) /\ Len(p) = (2 + T) + 3 /\ p[(2 + T) + 1] = 0
    BY <2>1, <2>3, <2>4 DEF IsConcat
  <2>6. \A k \in 1 .. 2 + T : p[k] = w[k]
    BY <2>3, <2>4 DEF IsConcat
  <2> HIDE DEF p
  <2>7. p[1] = 1 /\ p[2] = 0 /\ \A k \in 1 .. T : p[2 + k] = t[k]
    BY <1>0, <2>3, <2>6
  <2> DEFINE L == Len(p)
  <2>8. L \in Nat /\ L = T + 5
    BY <1>0, <2>5
  <2>9. NulFrom(p, 1) = 2
    <3>1. 1 \in 1 .. Len(p) + 1 /\ 2 \in 1 .. Len(p)
      BY <1>0, <2>8
    <3>2. \A k \in 1 .. 2 - 1 : p[k] # 0
      BY <2>7
    <3> QED
      BY <2>5, <2>7, <3>1, <3>2, NulAt
  <2>10. NulFrom(p, 3) = 3 + T
    <3>1. 3 \in 1 .. Len(p) + 1 /\ 3 + T \in 3 .. Len(p)
      BY <1>0, <2>8
    <3>2. p[3 + T] = 0
      BY <1>0, <2>5
    <3>3. ASSUME NEW k \in 3 .. (3 + T) - 1 PROVE p[k] # 0
      <4>1. k - 2 \in 1 .. T /\ 2 + (k - 2) = k
        BY <1>0
      <4> QED
        BY <1>0, <2>7, <4>1
    <3> QED
      BY <2>5, <3>1, <3>2, <3>3, NulAt
  <2>11. TextStart(p) = 3
    BY <2>9 DEF TextStart
  <2>12. 3 <= L /\ 3 + T # 3
    BY <1>0, <2>8
  <2>13. ExtractSQL([type |-> "P", payload |-> p]) = s
    BY <2>10, <2>11, <2>12 DEF ExtractSQL
  <2>14. /\ s \in Seq(Byte) /\ Len(s) = ((3 + T) - 1) - 3 + 1
         /\ \A k \in 1 .. ((3 + T) - 1) - 3 + 1 : s[k] = p[3 + k - 1]
    <3>1. 3 \in 1 .. Len(p) + 1 /\ (3 + T) - 1 \in 3 - 1 .. Len(p)
      BY <1>0, <2>8
    <3> QED
      BY <2>5, <3>1, PartType
  <2> HIDE DEF s
  <2>15. ((3 + T) - 1) - 3 + 1 = T /\ \A k \in 1 .. T : 3 + k - 1 = 2 + k
    BY <1>0
  <2>16. Len(s) = T /\ \A k \in 1 .. T : s[k] = t[k]
    BY <2>7, <2>14, <2>15, Zenon
  <2>17. s = t
    BY <1>0, <2>14, <2>16, SameBytes
  <2> QED
    BY <2>13, <2>17 DEF p, w, a, z
<1> QED
  BY <1>2, <1>3
-----------------------------------------------------------------------------
(* A list of block rules followed by alerts, each with its own name as its *)
(* pattern and for everybody.                                              *)
IsList(rules, size, blocks) ==
  /\ size \in Nat /\ blocks \in 0 .. size /\ DOMAIN rules = 1 .. size
  /\ \A k \in 1 .. size :
       /\ rules[k].users = {} /\ rules[k].databases = {}
       /\ rules[k].name = rules[k].pattern
       /\ rules[k].action = IF k <= blocks THEN "block" ELSE "alert"

(* A function on 1 .. m is a sequence of m elements.                       *)
LEMMA AsSeq ==
  ASSUME NEW S, NEW m \in Nat, NEW s \in [1 .. m -> S]
  PROVE  s \in Seq(S) /\ Len(s) = m
OBVIOUS

(* A default list: its block rules, then its alert rules.                  *)
LEMMA ListOf ==
  ASSUME NEW X, NEW names \in Seq(X), NEW others \in Seq(X)
  PROVE  IsList(RulesOf("block", names) \o RulesOf("alert", others), Len(names) + Len(others), Len(names))
<1> DEFINE S == [name : X, action : {"block", "alert"}, pattern : X, users : {{}}, databases : {{}}]
           b == RulesOf("block", names)
           a == RulesOf("alert", others)
           B == Len(names)
           A == Len(others)
           r == b \o a
<1>0. B \in Nat /\ A \in Nat /\ DOMAIN names = 1 .. B /\ DOMAIN others = 1 .. A
      /\ (\A k \in 1 .. B : names[k] \in X) /\ (\A k \in 1 .. A : others[k] \in X)
  BY LenProperties, ElementOfSeq
<1>1. b \in [1 .. B -> S] /\ a \in [1 .. A -> S]
  BY <1>0 DEF RulesOf
<1>2. b \in Seq(S) /\ Len(b) = B /\ a \in Seq(S) /\ Len(a) = A
  <2> HIDE DEF a, b, S, A, B
  <2> QED
    BY <1>0, <1>1, AsSeq
<1>3. \A k \in 1 .. B : b[k].action = "block" /\ b[k].name = names[k] /\ b[k].pattern = names[k]
                        /\ b[k].users = {} /\ b[k].databases = {}
  BY <1>0 DEF RulesOf
<1>4. \A k \in 1 .. A : a[k].action = "alert" /\ a[k].name = others[k] /\ a[k].pattern = others[k]
                        /\ a[k].users = {} /\ a[k].databases = {}
  BY <1>0 DEF RulesOf
<1> HIDE DEF a, b, A, B
<1>5. r \in Seq(S) /\ Len(r) = Len(b) + Len(a)
      /\ \A k \in 1 .. Len(b) + Len(a) : r[k] = IF k <= Len(b) THEN b[k] ELSE a[k - Len(b)]
  <2> HIDE DEF S
  <2> QED
    BY <1>2, ConcatProperties
<1> HIDE DEF r, S
<1>6. DOMAIN r = 1 .. B + A
  BY <1>2, <1>5, LenProperties
<1>7. ASSUME NEW k \in 1 .. B + A
      PROVE  /\ r[k].users = {} /\ r[k].databases = {}
             /\ r[k].name = r[k].pattern
             /\ r[k].action = IF k <= B THEN "block" ELSE "alert"
  <2>0. r[k] = IF k <= B THEN b[k] ELSE a[k - B]
    BY <1>2, <1>5, Zenon
  <2>1. CASE k <= B
    <3>1. k \in 1 .. B
      BY <1>0, <2>1
    <3>2. r[k] = b[k]
      BY <2>0, <2>1
    <3> QED
      BY <1>0, <1>3, <2>1, <3>1, <3>2
  <2>2. CASE ~(k <= B)
    <3>1. k - B \in 1 .. A
      BY <1>0, <2>2
    <3>2. r[k] = a[k - B]
      BY <2>0, <2>2
    <3> QED
      BY <1>0, <1>4, <2>2, <3>1, <3>2
  <2> QED
    BY <2>1, <2>2
<1>8. B + A \in Nat /\ B \in 0 .. B + A
  BY <1>0
<1>9. IsList(r, B + A, B)
  BY <1>6, <1>7, <1>8 DEF IsList
<1> QED
  BY <1>9 DEF r, a, b, A, B

(* The default rules of every protocol are such a list.                    *)
LEMMA DefaultLists ==
  ASSUME NEW protocol \in Protocols
  PROVE  \E size, blocks : IsList(RulesFor(protocol), size, blocks)
<1>1. CASE protocol = "mysql"
  <2> DEFINE X == {MySQLBlocked[k] : k \in 1 .. 9} \cup {MySQLAlerted[k] : k \in 1 .. 2}
  <2>1. MySQLBlocked \in [1 .. 9 -> X] /\ MySQLAlerted \in [1 .. 2 -> X]
    BY DEF MySQLBlocked, MySQLAlerted
  <2>2. RulesFor(protocol) = RulesOf("block", MySQLBlocked) \o RulesOf("alert", MySQLAlerted)
    BY <1>1 DEF RulesFor, DefaultRules
  <2> HIDE DEF X
  <2>3. MySQLBlocked \in Seq(X) /\ MySQLAlerted \in Seq(X)
    BY <2>1, AsSeq
  <2> QED
    BY <2>2, <2>3, ListOf
<1>2. CASE protocol = "postgres"
  <2> DEFINE X == {PostgresBlocked[k] : k \in 1 .. 12} \cup {PostgresAlerted[k] : k \in 1 .. 3}
  <2>1. PostgresBlocked \in [1 .. 12 -> X] /\ PostgresAlerted \in [1 .. 3 -> X]
    BY DEF PostgresBlocked, PostgresAlerted
  <2>2. RulesFor(protocol) = RulesOf("block", PostgresBlocked) \o RulesOf("alert", PostgresAlerted)
    BY <1>2 DEF RulesFor, DefaultPostgresRules
  <2> HIDE DEF X
  <2>3. PostgresBlocked \in Seq(X) /\ PostgresAlerted \in Seq(X)
    BY <2>1, AsSeq
  <2> QED
    BY <2>2, <2>3, ListOf
<1>3. CASE protocol = "mongodb"
  <2> DEFINE X == {MongoBlocked[k] : k \in 1 .. 7} \cup {MongoAlerted[k] : k \in 1 .. 3}
  <2>1. MongoBlocked \in [1 .. 7 -> X] /\ MongoAlerted \in [1 .. 3 -> X]
    BY DEF MongoBlocked, MongoAlerted
  <2>2. RulesFor(protocol) = RulesOf("block", MongoBlocked) \o RulesOf("alert", MongoAlerted)
    BY <1>3 DEF RulesFor, DefaultMongoDBRules
  <2> HIDE DEF X
  <2>3. MongoBlocked \in Seq(X) /\ MongoAlerted \in Seq(X)
    BY <2>1, AsSeq
  <2> QED
    BY <2>2, <2>3, ListOf
<1> QED
  BY <1>1, <1>2, <1>3 DEF Protocols

(* The decision such a list gives: the first rule that matches.            *)
LEMMA EvaluateIs ==
  ASSUME NEW protocol \in Protocols, NEW t
  PROVE  LET rules == RulesFor(protocol)
             v == Evaluate(rules, protocol, t)
         IN  /\ v \in [action : {"allow", "alert", "block"}, rule : PatternsOf(rules) \cup {"default-allow"}]
             /\ v.action = "block" <=> \E k \in BlockRules(rules) : MatchString(protocol, rules[k].pattern, t)
<1> DEFINE rules == RulesFor(protocol)
           v == Evaluate(rules, protocol, t)
           accepts == [p \in PatternsOf(rules) |-> {x \in {t} : MatchString(protocol, p, x)}]
           q == [sql |-> t, user |-> <<>>, database |-> <<>>]
           Hit(k) == MatchString(protocol, rules[k].pattern, t)
           M == Engine(accepts)!Matching(rules, q)
<1>1. PICK size, blocks : IsList(rules, size, blocks)
  BY DefaultLists
<1> HIDE DEF rules
<1>2. \A k \in 1 .. size : rules[k].pattern \in PatternsOf(rules)
  BY <1>1 DEF IsList, PatternsOf
<1>3. \A k \in 1 .. size : rules[k].pattern # NilRegexp
  BY <1>2, RegexpAssumption DEF rules
<1>4. ASSUME NEW k \in 1 .. size PROVE Engine(accepts)!Matches(rules[k], q) <=> Hit(k)
  <2>1. rules[k].users = {} /\ rules[k].databases = {}
    BY <1>1 DEF IsList
  <2>2. Engine(accepts)!Admits(rules[k].users, q.user) /\ Engine(accepts)!Admits(rules[k].databases, q.database)
    BY <2>1 DEF Engine!Admits
  <2>3. accepts[rules[k].pattern] = {x \in {t} : MatchString(protocol, rules[k].pattern, x)}
    BY <1>2
  <2>4. q.sql \in accepts[rules[k].pattern] <=> Hit(k)
    BY <2>3
  <2> HIDE DEF accepts, q, Hit
  <2> QED
    BY <1>3, <2>2, <2>4 DEF Engine!Matches
<1>5. M = {k \in 1 .. size : Hit(k)}
  <2>1. M = {k \in DOMAIN rules : Engine(accepts)!Matches(rules[k], q)}
    BY DEF Engine!Matching
  <2>2. DOMAIN rules = 1 .. size
    BY <1>1 DEF IsList
  <2> HIDE DEF accepts, q, Hit, M
  <2> QED
    BY <1>4, <2>1, <2>2
<1>6. v = Engine(accepts)!FirstMatch(rules, q)
  BY DEF Evaluate
<1>7. BlockRules(rules) = {k \in 1 .. size : k <= blocks}
  <2>1. DOMAIN rules = 1 .. size /\ \A k \in 1 .. size : rules[k].action = IF k <= blocks THEN "block" ELSE "alert"
    BY <1>1 DEF IsList
  <2> QED
    BY <2>1 DEF BlockRules
<1> HIDE DEF accepts, q, Hit, M, v
<1>8. CASE M = {}
  <2>1. v = [action |-> "allow", rule |-> "default-allow"]
    BY <1>6, <1>8 DEF Engine!FirstMatch, Engine!DefaultAllow, M
  <2>2. \A k \in 1 .. size : ~Hit(k)
    BY <1>5, <1>8
  <2>3. ~(\E k \in BlockRules(rules) : Hit(k))
    BY <1>7, <2>2
  <2>4. v.action = "allow" /\ v \in [action : {"allow", "alert", "block"}, rule : PatternsOf(rules) \cup {"default-allow"}]
    BY <2>1
  <2> QED
    BY <2>3, <2>4 DEF rules, v, Hit
<1>9. CASE M # {}
  <2> DEFINE P(k) == k \in M /\ \A j \in M : k <= j
             c == CHOOSE k \in M : Engine(accepts)!IsFirst(k, rules, q)
  <2>1. M \subseteq Nat /\ M \subseteq 1 .. size
    BY <1>1, <1>5 DEF IsList
  <2>2. \E k \in M : \A j \in M : k <= j
    BY <1>9, <2>1, SmallestOf
  <2>3. \A k : Engine(accepts)!IsFirst(k, rules, q) <=> P(k)
    BY DEF Engine!IsFirst, M
  <2>4. c \in M /\ Engine(accepts)!IsFirst(c, rules, q)
    BY <2>2, <2>3
  <2> HIDE DEF c
  <2>5. c \in M /\ \A j \in M : c <= j
    BY <2>3, <2>4
  <2>6. v = [action |-> rules[c].action, rule |-> rules[c].name]
    BY <1>6, <1>9 DEF Engine!FirstMatch, Engine!DecisionOf, M, c
  <2>7. c \in 1 .. size /\ Hit(c)
    BY <1>5, <2>5
  <2>8. /\ rules[c].name \in PatternsOf(rules)
        /\ rules[c].action = IF c <= blocks THEN "block" ELSE "alert"
    BY <1>1, <1>2, <2>7 DEF IsList
  <2>9. v \in [action : {"allow", "alert", "block"}, rule : PatternsOf(rules) \cup {"default-allow"}]
    BY <2>6, <2>8
  <2>10. v.action = "block" <=> c <= blocks
    BY <2>6, <2>8
  <2>11. c <= blocks <=> \E k \in BlockRules(rules) : Hit(k)
    <3>1. ASSUME c <= blocks PROVE \E k \in BlockRules(rules) : Hit(k)
      BY <1>7, <2>7, <3>1
    <3>2. ASSUME NEW k \in BlockRules(rules), Hit(k) PROVE c <= blocks
      <4>1. k \in 1 .. size /\ k <= blocks
        BY <1>7, <3>2
      <4>2. k \in M
        BY <1>5, <3>2, <4>1
      <4>3. c <= k
        BY <2>5, <4>2
      <4>4. c \in Nat /\ k \in Nat
        BY <2>1, <2>5, <4>2
      <4>5. blocks \in Nat
        BY <1>1 DEF IsList
      <4> QED
        BY <4>1, <4>3, <4>4, <4>5
    <3> QED
      BY <3>1, <3>2
  <2> QED
    BY <2>9, <2>10, <2>11 DEF rules, v, Hit
<1> QED
  BY <1>8, <1>9

(* The packet of a refused MySQL query.                                    *)
LEMMA MySQLAnswer == MySQLReadable(BuildErrorPacket(1, 9, <<4, 2, 0, 0, 0>>, ErrorText))
<1> DEFINE E == Len(ErrorText)
           c1 == <<Base - 1>>
           c2 == PutLittle(9, 2, Base)
           c3 == <<1>>
           c4 == SubSeq(<<4, 2, 0, 0, 0>> \o Zeros(5), 1, 5)
           d2 == c1 \o c2
           d3 == d2 \o c3
           d4 == d3 \o c4
           d == d4 \o ErrorText
           h == PutLittle(Len(d), 3, Base)
           h4 == h \o c3
           a == h4 \o d
<1>0. E \in Nat /\ ErrorText \in Seq(Byte) /\ E + 9 < (Base * Base) * Base
  <2>1. ErrorText \in Seq(Byte) /\ E + 9 < (Base * Base) * Base
    BY InspectionAssumption
  <2> QED
    BY <2>1, LenProperties
<1>1. c1 \in Seq(Byte) /\ Len(c1) = 1 /\ c1[1] = Base - 1 /\ c3 \in Seq(Byte) /\ Len(c3) = 1 /\ c3[1] = 1
  BY ByteFacts
<1>2. c2 \in Seq(Byte) /\ Len(c2) = 2
  BY PutBytes
<1>3. c4 \in Seq(Byte) /\ Len(c4) = 5
  <2> DEFINE x == <<4, 2, 0, 0, 0>>
             z == Zeros(5)
             w == x \o z
  <2>1. x \in Seq(Byte) /\ Len(x) = 5
    BY ByteFacts
  <2>2. z \in Seq(Byte) /\ Len(z) = 5
    BY ZerosAre
  <2> HIDE DEF x, z
  <2>3. IsConcat(w, x, z)
    BY <2>1, <2>2, Concats
  <2>4. w \in Seq(Byte) /\ Len(w) = 10
    BY <2>1, <2>2, <2>3 DEF IsConcat
  <2> HIDE DEF w
  <2>5. 1 \in 1 .. Len(w) + 1 /\ 5 \in 1 - 1 .. Len(w) /\ 5 - 1 + 1 = 5
    BY <2>4
  <2>6. SubSeq(w, 1, 5) \in Seq(Byte) /\ Len(SubSeq(w, 1, 5)) = 5 - 1 + 1
    BY <2>4, <2>5, PartType
  <2>7. c4 = SubSeq(w, 1, 5)
    BY DEF w, x, z
  <2> HIDE DEF c4
  <2> QED
    BY <2>5, <2>6, <2>7
<1>4. BuildErrorPacket(1, 9, <<4, 2, 0, 0, 0>>, ErrorText) = a
  BY DEF BuildErrorPacket, PacketOf
<1> HIDE DEF c1, c2, c3, c4, E
<1>5. d2 \in Seq(Byte) /\ Len(d2) = 3 /\ d2[1] = Base - 1
  <2>1. IsConcat(d2, c1, c2)
    BY <1>1, <1>2, Concats
  <2> HIDE DEF d2
  <2> QED
    BY <1>1, <1>2, <2>1 DEF IsConcat
<1> HIDE DEF d2
<1>6. d3 \in Seq(Byte) /\ Len(d3) = 4 /\ d3[1] = Base - 1
  <2>1. IsConcat(d3, d2, c3)
    BY <1>1, <1>5, Concats
  <2> HIDE DEF d3
  <2> QED
    BY <1>1, <1>5, <2>1 DEF IsConcat
<1> HIDE DEF d3
<1>7. d4 \in Seq(Byte) /\ Len(d4) = 9 /\ d4[1] = Base - 1
  <2>1. IsConcat(d4, d3, c4)
    BY <1>3, <1>6, Concats
  <2> HIDE DEF d4
  <2> QED
    BY <1>3, <1>6, <2>1 DEF IsConcat
<1> HIDE DEF d4
<1>8. /\ d \in Seq(Byte) /\ Len(d) = 9 + E /\ d[1] = Base - 1
      /\ \A k \in 1 .. E : d[9 + k] = ErrorText[k]
  <2>1. IsConcat(d, d4, ErrorText)
    BY <1>0, <1>7, Concats
  <2> HIDE DEF d
  <2>2. 1 \in 1 .. 9
    OBVIOUS
  <2> QED
    BY <1>7, <2>1, <2>2 DEF IsConcat, E
<1> HIDE DEF d
<1>9. h \in Seq(Byte) /\ Len(h) = 3
  <2>1. Len(d) \in Nat
    BY <1>8, LenProperties
  <2> QED
    BY <2>1, PutBytes
<1>10. h4 \in Seq(Byte) /\ Len(h4) = 4 /\ h4[4] = 1 /\ \A k \in 1 .. 3 : h4[k] = h[k]
  <2>1. IsConcat(h4, h, c3)
    BY <1>1, <1>9, Concats
  <2> HIDE DEF h4, h
  <2> QED
    BY <1>1, <1>9, <2>1 DEF IsConcat
<1> HIDE DEF h4
<1>11. /\ a \in Seq(Byte) /\ Len(a) = 4 + (9 + E) /\ a[4] = 1 /\ a[5] = Base - 1
       /\ \A k \in 1 .. 3 : a[k] = h[k]
       /\ \A k \in 1 .. E : a[13 + k] = ErrorText[k]
  <2>1. IsConcat(a, h4, d)
    BY <1>8, <1>10, Concats
  <2> HIDE DEF a, h
  <2>2. /\ a \in Seq(Byte) /\ Len(a) = 4 + (9 + E)
        /\ \A k \in 1 .. 4 : a[k] = h4[k]
        /\ \A k \in 1 .. 9 + E : a[4 + k] = d[k]
    BY <1>8, <1>10, <2>1 DEF IsConcat
  <2>3. a[4] = 1 /\ \A k \in 1 .. 3 : a[k] = h[k]
    BY <1>10, <2>2
  <2>4. a[5] = Base - 1
    <3>1. 1 \in 1 .. 9 + E /\ 4 + 1 = 5
      BY <1>0
    <3> QED
      BY <1>8, <2>2, <3>1
  <2>5. ASSUME NEW k \in 1 .. E PROVE a[13 + k] = ErrorText[k]
    <3>1. 9 + k \in 1 .. 9 + E /\ 4 + (9 + k) = 13 + k
      BY <1>0
    <3>2. a[4 + (9 + k)] = d[9 + k]
      BY <2>2, <3>1
    <3> QED
      BY <1>8, <3>1, <3>2
  <2> QED
    BY <2>2, <2>3, <2>4, <2>5
<1>12. Little(a, 1, 3, Base) = Len(a) - 4
  <2>1. 9 + E \in Nat /\ 9 + E < Base * Base * Base /\ Base \in Nat /\ Base > 0
    BY <1>0, ByteFacts
  <2>2. FitsIn(9 + E, 3, Base)
    BY <2>1, Fits
  <2>3. h = PutLittle(9 + E, 3, Base)
    BY <1>8
  <2> HIDE DEF h, a
  <2>4. \A k \in 1 .. 3 : 1 + k - 1 = k
    OBVIOUS
  <2>5. Spells(a, 1, 9 + E, 3, Base)
    BY <1>11, <2>3, <2>4 DEF Spells
  <2>6. Little(a, 1, 3, Base) = 9 + E
    BY <2>1, <2>2, <2>5, LittleInverts
  <2>7. Len(a) - 4 = 9 + E
    BY <1>0, <1>11
  <2> QED
    BY <2>6, <2>7
<1> HIDE DEF a, h
<1>13. SubSeq(a, 14, Len(a)) = ErrorText
  <2> DEFINE s == SubSeq(a, 14, Len(a))
  <2>1. /\ 14 \in 1 .. Len(a) + 1 /\ Len(a) \in 14 - 1 .. Len(a) /\ Len(a) - 14 + 1 = E
        /\ \A k \in 1 .. E : 14 + k - 1 = 13 + k
    BY <1>0, <1>11
  <2>2. /\ s \in Seq(Byte) /\ Len(s) = Len(a) - 14 + 1
        /\ \A k \in 1 .. Len(a) - 14 + 1 : s[k] = a[14 + k - 1]
    BY <1>11, <2>1, PartType
  <2> HIDE DEF s
  <2>3. Len(s) = E /\ \A k \in 1 .. E : s[k] = ErrorText[k]
    BY <1>11, <2>1, <2>2, Zenon
  <2>4. s = ErrorText
    BY <1>0, <2>2, <2>3, SameBytes DEF E
  <2> QED
    BY <2>4 DEF s
<1> QED
  BY <1>4, <1>11, <1>12, <1>13 DEF MySQLReadable

(* The length of a PostgreSQL message reads back.                          *)
LEMMA LengthReads ==
  ASSUME NEW u \in Nat, u < Word
  PROVE  Uint32(PutUint32(u), 1) = u
<1> DEFINE w == PutUint32(u)
<1>1. /\ w[1] = PutUint32(u)[1] /\ w[1 + 1] = PutUint32(u)[2]
      /\ w[1 + 2] = PutUint32(u)[3] /\ w[(1 + 2) + 1] = PutUint32(u)[4]
  OBVIOUS
<1> HIDE DEF w
<1>2. Uint32(w, 1) = u
  BY <1>1, Encoded
<1> QED
  BY <1>2 DEF w

(* The two packets of a refused PostgreSQL query.                          *)
LEMMA PostgresAnswer == PostgresReadable(BuildErrorResponse(ErrorText))
<1> DEFINE E == Len(ErrorText)
           f == <<1, 1, 1, 1, 1, 1, 0>>
           g == <<1>>
           z == <<0, 0>>
           d2 == f \o f
           d3 == d2 \o g
           d4 == d3 \o ErrorText
           p == d4 \o z
           a == BuildErrorResponse(ErrorText)
<1>0. /\ E \in Nat /\ ErrorText \in Seq(Byte) /\ E + 9 < (Base * Base) * Base
      /\ \A k \in 1 .. E : ErrorText[k] # 0
  <2>1. ErrorText \in Seq(Byte) /\ E + 9 < (Base * Base) * Base /\ NulFree(ErrorText)
    BY InspectionAssumption
  <2>2. E \in Nat /\ DOMAIN ErrorText = 1 .. E
    BY <2>1, LenProperties
  <2> QED
    BY <2>1, <2>2 DEF NulFree
<1>1. /\ f \in Seq(Byte) /\ Len(f) = 7 /\ f[7] = 0 /\ (\A k \in 1 .. 6 : f[k] # 0)
      /\ g \in Seq(Byte) /\ Len(g) = 1 /\ g[1] = 1
      /\ z \in Seq(Byte) /\ Len(z) = 2 /\ z[1] = 0 /\ z[2] = 0
  BY ByteFacts
<1>2. /\ a.payload = p /\ a.length = PutUint32(ErrorLength(ErrorText))
      /\ ReadyForQueryIdle.payload = g /\ ReadyForQueryIdle.length = PutUint32(5)
      /\ ReadyForQueryIdle.type = "Z"
  BY DEF BuildErrorResponse, ReadyForQueryIdle
<1> HIDE DEF a, f, g, z, E
<1>3. /\ d2 \in Seq(Byte) /\ Len(d2) = 14 /\ d2[7] = 0 /\ d2[14] = 0
      /\ (\A k \in 1 .. 6 : d2[k] # 0) /\ (\A k \in 8 .. 13 : d2[k] # 0)
  <2>1. IsConcat(d2, f, f)
    BY <1>1, Concats
  <2> HIDE DEF d2
  <2>2. /\ d2 \in Seq(Byte) /\ Len(d2) = 14
        /\ \A k \in 1 .. 7 : d2[k] = f[k]
        /\ \A k \in 1 .. 7 : d2[7 + k] = f[k]
    BY <1>1, <2>1 DEF IsConcat
  <2>3. d2[7] = 0 /\ d2[14] = 0 /\ \A k \in 1 .. 6 : d2[k] # 0
    BY <1>1, <2>2
  <2>4. ASSUME NEW k \in 8 .. 13 PROVE d2[k] # 0
    <3>1. k - 7 \in 1 .. 6 /\ k - 7 \in 1 .. 7 /\ 7 + (k - 7) = k
      OBVIOUS
    <3>2. d2[7 + (k - 7)] = f[k - 7]
      BY <2>2, <3>1
    <3> QED
      BY <1>1, <3>1, <3>2
  <2> QED
    BY <2>2, <2>3, <2>4
<1> HIDE DEF d2
<1>4. /\ d3 \in Seq(Byte) /\ Len(d3) = 15 /\ d3[15] = 1
      /\ \A k \in 1 .. 14 : d3[k] = d2[k]
  <2>1. IsConcat(d3, d2, g)
    BY <1>1, <1>3, Concats
  <2> HIDE DEF d3
  <2> QED
    BY <1>1, <1>3, <2>1 DEF IsConcat
<1> HIDE DEF d3
<1>5. /\ d4 \in Seq(Byte) /\ Len(d4) = 15 + E
      /\ (\A k \in 1 .. 15 : d4[k] = d3[k])
      /\ (\A k \in 1 .. E : d4[15 + k] = ErrorText[k])
  <2>1. IsConcat(d4, d3, ErrorText)
    BY <1>0, <1>4, Concats
  <2> HIDE DEF d4
  <2> QED
    BY <1>4, <2>1 DEF IsConcat, E
<1> HIDE DEF d4
<1>6. /\ p \in Seq(Byte) /\ Len(p) = (15 + E) + 2
      /\ (\A k \in 1 .. 15 + E : p[k] = d4[k])
      /\ p[(15 + E) + 1] = 0 /\ p[(15 + E) + 2] = 0
  <2>1. IsConcat(p, d4, z)
    BY <1>1, <1>5, Concats
  <2> HIDE DEF p
  <2> QED
    BY <1>1, <1>5, <2>1 DEF IsConcat
<1> HIDE DEF p
<1>7. /\ \A k \in 1 .. 14 : p[k] = d2[k]
      /\ p[15] = 1
      /\ \A k \in 1 .. E : p[15 + k] = ErrorText[k]
  <2>1. \A k \in 1 .. 15 : k \in 1 .. 15 + E
    BY <1>0
  <2>2. \A k \in 1 .. E : 15 + k \in 1 .. 15 + E
    BY <1>0
  <2>3. \A k \in 1 .. 15 : p[k] = d3[k]
    BY <1>5, <1>6, <2>1
  <2>4. p[15] = 1 /\ \A k \in 1 .. 14 : p[k] = d2[k]
    BY <1>4, <2>3
  <2> QED
    BY <1>5, <1>6, <2>2, <2>4
<1> DEFINE L == Len(p)
<1>8. L \in Nat /\ L = 17 + E
  BY <1>0, <1>6
<1>9. NulFrom(p, 1) = 7
  <2>1. 1 \in 1 .. Len(p) + 1 /\ 7 \in 1 .. Len(p)
    BY <1>0, <1>8
  <2>2. p[7] = 0 /\ \A k \in 1 .. 7 - 1 : p[k] # 0
    BY <1>3, <1>7
  <2> QED
    BY <1>6, <2>1, <2>2, NulAt
<1>10. NulFrom(p, 8) = 14
  <2>1. 8 \in 1 .. Len(p) + 1 /\ 14 \in 8 .. Len(p)
    BY <1>0, <1>8
  <2>2. p[14] = 0 /\ \A k \in 8 .. 14 - 1 : p[k] # 0
    BY <1>3, <1>7
  <2> QED
    BY <1>6, <2>1, <2>2, NulAt
<1>11. NulFrom(p, 15) = 16 + E
  <2>1. 15 \in 1 .. Len(p) + 1 /\ 16 + E \in 15 .. Len(p)
    BY <1>0, <1>8
  <2>2. p[16 + E] = 0
    BY <1>0, <1>6
  <2>3. ASSUME NEW k \in 15 .. (16 + E) - 1 PROVE p[k] # 0
    <3>1. k = 15 \/ (k - 15 \in 1 .. E /\ 15 + (k - 15) = k)
      BY <1>0
    <3>2. CASE k = 15
      <4>1. p[k] = 1
        BY <1>7, <3>2
      <4> QED
        BY <4>1
    <3>3. CASE k - 15 \in 1 .. E /\ 15 + (k - 15) = k
      <4>1. p[15 + (k - 15)] = ErrorText[k - 15] /\ ErrorText[k - 15] # 0
        BY <1>0, <1>7, <3>3
      <4> QED
        BY <3>3, <4>1
    <3> QED
      BY <3>1, <3>2, <3>3
  <2> QED
    BY <1>6, <2>1, <2>2, <2>3, NulAt
<1> DEFINE s == CString(p, 1)
           c == CString(p, s.next)
           m == CString(p, c.next)
           t == SubSeq(p, 15, (16 + E) - 1)
<1>12. s.next = 8
  <2>1. ~(7 > Len(p))
    BY <1>0, <1>8
  <2> QED
    BY <1>9, <2>1 DEF CString
<1> HIDE DEF s
<1>13. c.next = 15
  <2>1. ~(14 > Len(p))
    BY <1>0, <1>8
  <2>2. c = CString(p, 8)
    BY <1>12
  <2> HIDE DEF c
  <2> QED
    BY <1>10, <2>1, <2>2 DEF CString
<1> HIDE DEF c
<1>14. m.next = L /\ m.text = t
  <2>1. ~(16 + E > Len(p)) /\ (16 + E) + 1 = L
    BY <1>0, <1>8
  <2>2. m = CString(p, 15)
    BY <1>13
  <2> HIDE DEF m, t
  <2>3. m = [text |-> SubSeq(p, 15, (16 + E) - 1), next |-> (16 + E) + 1]
    BY <1>11, <2>1, <2>2 DEF CString
  <2> QED
    BY <2>1, <2>3 DEF t
<1> HIDE DEF m
<1>15. t = g \o ErrorText
  <2> DEFINE w == g \o ErrorText
  <2>1. IsConcat(w, g, ErrorText)
    BY <1>0, <1>1, Concats
  <2> HIDE DEF w
  <2>2. /\ w \in Seq(Byte) /\ Len(w) = 1 + E /\ w[1] = 1
        /\ \A k \in 1 .. E : w[1 + k] = ErrorText[k]
    BY <1>1, <2>1 DEF IsConcat, E
  <2>3. /\ 15 \in 1 .. Len(p) + 1 /\ (16 + E) - 1 \in 15 - 1 .. Len(p)
        /\ ((16 + E) - 1) - 15 + 1 = 1 + E
        /\ \A k \in 1 .. 1 + E : 15 + k - 1 = 14 + k
    BY <1>0, <1>8
  <2>4. /\ t \in Seq(Byte) /\ Len(t) = ((16 + E) - 1) - 15 + 1
        /\ \A k \in 1 .. ((16 + E) - 1) - 15 + 1 : t[k] = p[15 + k - 1]
    BY <1>6, <2>3, PartType
  <2> HIDE DEF t
  <2>5. Len(t) = 1 + E /\ \A k \in 1 .. 1 + E : t[k] = p[14 + k]
    BY <2>3, <2>4, Zenon
  <2>6. ASSUME NEW k \in 1 .. 1 + E PROVE t[k] = w[k]
    <3>1. CASE k = 1
      <4>1. t[1] = p[14 + 1] /\ 14 + 1 = 15
        BY <2>5, <3>1
      <4> QED
        BY <1>7, <2>2, <3>1, <4>1
    <3>2. CASE k # 1
      <4>1. k - 1 \in 1 .. E /\ 1 + (k - 1) = k /\ 15 + (k - 1) = 14 + k
        BY <1>0, <3>2
      <4>2. w[k] = ErrorText[k - 1] /\ p[14 + k] = ErrorText[k - 1]
        BY <1>7, <2>2, <4>1
      <4> QED
        BY <2>5, <4>2
    <3> QED
      BY <3>1, <3>2
  <2>7. t = w
    BY <2>2, <2>4, <2>5, <2>6, SameBytes
  <2> QED
    BY <2>7 DEF w
<1>16. p[L] = 0
  <2>1. (15 + E) + 2 = L
    BY <1>0, <1>8
  <2> QED
    BY <1>6, <2>1
<1>17. \A k \in {a, ReadyForQueryIdle} : Uint32(k.length, 1) = 4 + Len(k.payload)
  <2>1. ErrorLength(ErrorText) = 21 + E /\ 21 + E \in Nat
    BY <1>0 DEF ErrorLength, E
  <2>2. 21 + E < Word /\ 5 < Word
    <3> DEFINE b3 == (Base * Base) * Base
    <3>1. b3 \in Nat /\ Word = b3 * Base /\ Base \in Nat /\ Base >= 8
      BY ByteFacts, Powers DEF Word
    <3>2. E + 9 < b3
      BY <1>0
    <3> HIDE DEF b3
    <3>3. b3 * 8 <= b3 * Base
      BY <3>1, Mul
    <3>4. b3 * 8 = b3 + b3 + b3 + b3 + b3 + b3 + b3 + b3
      BY <3>1
    <3> QED
      BY <1>0, <3>1, <3>2, <3>3, <3>4
  <2>3. Uint32(PutUint32(21 + E), 1) = 21 + E /\ Uint32(PutUint32(5), 1) = 5
    BY <2>1, <2>2, LengthReads
  <2>4. Uint32(a.length, 1) = 4 + Len(a.payload)
    <3>1. 4 + Len(a.payload) = 21 + E
      BY <1>0, <1>2, <1>8
    <3> QED
      BY <1>2, <2>1, <2>3, <3>1
  <2>5. Uint32(ReadyForQueryIdle.length, 1) = 4 + Len(ReadyForQueryIdle.payload)
    <3>1. 4 + Len(g) = 5
      BY <1>1
    <3> QED
      BY <1>2, <2>3, <3>1
  <2> QED
    BY <2>4, <2>5
<1>18. ReadyForQueryStatus(ReadyForQueryIdle) = 1
  <2>1. g # <<>>
    BY DEF g
  <2> QED
    BY <1>1, <1>2, <2>1 DEF ReadyForQueryStatus
<1>19. m.text = g \o ErrorText /\ m.next = Len(a.payload) /\ a.payload[m.next] = 0
  BY <1>2, <1>14, <1>15, <1>16
<1> QED
  BY <1>2, <1>17, <1>18, <1>19 DEF PostgresReadable, a, m, c, s, g

(* The byte strings of MongoDB are handled like the others.                *)
LEMMA MongoBytes ==
  /\ \A p, off : Mongo!NulFrom(p, off) = NulFrom(p, off)
  /\ \A p, off : Mongo!U32(p, off) = Little(p, off, 4, MongoBase)
  /\ \A u, size : Mongo!PutLittle(u, size, MongoBase) = PutLittle(u, size, MongoBase)
  /\ \A size : Mongo!Zeros(size) = Zeros(size)
<1>1. \A p, off : Mongo!NulFrom(p, off) = NulFrom(p, off)
  BY DEF Mongo!NulFrom, NulFrom, Mongo!Min, Min
<1>2. \A p, off : Mongo!U32(p, off) = Little(p, off, 4, MongoBase)
  BY DEF Mongo!U32, Mongo!Little, Mongo!Highest, Little, Highest
<1>3. \A u, size : Mongo!PutLittle(u, size, MongoBase) = PutLittle(u, size, MongoBase)
  BY DEF Mongo!PutLittle, Mongo!Quotients, PutLittle, Quotients
<1>4. \A size : Mongo!Zeros(size) = Zeros(size)
  BY DEF Mongo!Zeros, Zeros
<1> QED
  BY <1>1, <1>2, <1>3, <1>4

(* What is read as a number is one,                                        *)
LEMMA LittleNat ==
  ASSUME NEW p, NEW off \in Nat, NEW size \in Nat, NEW base \in Nat,
         \A k \in 0 .. size - 1 : p[off + k] \in Nat
  PROVE  Little(p, off, size, base) \in Nat
<1> DEFINE h == Highest(p, off, size, base)
<1>1. IsHighest(h, p, off, size, base)
  BY HighestDef
<1> HIDE DEF h
<1>2. h[size] \in Nat
  BY <1>1 DEF IsHighest
<1> QED
  BY <1>2 DEF Little, h

(* and so it is in a MongoDB message.                                      *)
LEMMA NumberAt ==
  ASSUME NEW data \in Seq(Nat), NEW off \in Nat, off > 0, off + 3 <= Len(data)
  PROVE  Mongo!U32(data, off) \in Nat
<1>1. Len(data) \in Nat /\ \A k \in 1 .. Len(data) : data[k] \in Nat
  BY LenProperties, ElementOfSeq
<1>2. \A k \in 0 .. 4 - 1 : off + k \in 1 .. Len(data)
  BY <1>1
<1>3. \A k \in 0 .. 4 - 1 : data[off + k] \in Nat
  BY <1>1, <1>2
<1>4. MongoBase \in Nat
  BY InspectionAssumption
<1>5. Little(data, off, 4, MongoBase) \in Nat
  BY <1>3, <1>4, LittleNat
<1> QED
  BY <1>5, MongoBytes

(* A NUL is not before the place it is looked for at.                      *)
LEMMA NulIs ==
  ASSUME NEW data \in Seq(Nat), NEW off \in Nat, off > 0
  PROVE  NulFrom(data, off) \in Nat /\ NulFrom(data, off) >= off
<1> DEFINE L == Len(data)
<1>0. L \in Nat
  BY LenProperties
<1>1. CASE off <= L + 1
  <2>1. off \in 1 .. Len(data) + 1
    BY <1>0, <1>1
  <2>2. NulFrom(data, off) \in off .. Len(data) + 1
    BY <2>1, FirstNul
  <2> QED
    BY <1>0, <2>2
<1>2. CASE ~(off <= L + 1)
  <2> DEFINE A == {k \in off .. L : data[k] = 0} \cup {IF off > L THEN off ELSE L + 1}
  <2>1. off > L /\ A = {off}
    BY <1>0, <1>2
  <2>2. NulFrom(data, off) = Min(A)
    BY DEF NulFrom
  <2> HIDE DEF A
  <2>3. Min(A) = off
    BY <2>1 DEF Min
  <2> QED
    BY <2>2, <2>3
<1> QED
  BY <1>1, <1>2

(* Every element type is of one kind.                                      *)
LEMMA Kinds ==
  /\ \A typ \in DOMAIN Mongo!FixedLen : typ \notin DOMAIN Mongo!PrefixLen /\ typ # Mongo!Regex
  /\ \A typ \in DOMAIN Mongo!PrefixLen : typ # Mongo!Regex
<1> DEFINE m == MongoBase \div 2
<1>0. MongoBase \in Nat /\ MongoBase >= 64 /\ m \in Nat /\ m >= 32
  BY InspectionAssumption
<1>1. DOMAIN Mongo!FixedLen = {1, 7, 8, 9, 10, 16, 17, 18, 19, MongoBase - 1, m - 1}
  BY DEF Mongo!FixedLen, Mongo!MinKey, Mongo!MaxKey
<1>2. DOMAIN Mongo!PrefixLen = {2, 3, 4, 5}
  BY DEF Mongo!PrefixLen, Mongo!String, Mongo!Document, Mongo!Array, Mongo!Binary
<1>3. Mongo!Regex = 11
  BY DEF Mongo!Regex
<1> HIDE DEF m
<1> QED
  BY <1>0, <1>1, <1>2, <1>3

(* skipBSONValue gives a length or -1 for every type byte.                 *)
LEMMA SkipIs ==
  ASSUME NEW data \in Seq(Nat), NEW off \in 1 .. Len(data) + 1, NEW typ
  PROVE  Mongo!SkipBSONValue(data, off, typ) \in Int
<1>0. Len(data) \in Nat /\ off \in Nat /\ off > 0 /\ off + 3 \in Nat
  BY LenProperties
<1> DEFINE r == Mongo!SkipBSONValue(data, off, typ)
<1>1. CASE typ \in DOMAIN Mongo!FixedLen
  <2>1. r = Mongo!FixedLen[typ]
    BY <1>1, Kinds DEF Mongo!SkipBSONValue
  <2>2. Mongo!FixedLen[typ] \in Int
    BY <1>1 DEF Mongo!FixedLen
  <2> QED
    BY <2>1, <2>2
<1>2. CASE typ \notin DOMAIN Mongo!FixedLen /\ typ \in DOMAIN Mongo!PrefixLen
  <2>1. r = IF off + 3 > Len(data) THEN -1 ELSE Mongo!PrefixLen[typ] + Mongo!U32(data, off)
    BY <1>2, Kinds DEF Mongo!SkipBSONValue
  <2>2. Mongo!PrefixLen[typ] \in Int
    BY <1>2 DEF Mongo!PrefixLen
  <2>3. ~(off + 3 > Len(data)) => Mongo!U32(data, off) \in Nat
    BY <1>0, NumberAt
  <2> QED
    BY <2>1, <2>2, <2>3
<1>3. CASE typ \notin DOMAIN Mongo!FixedLen /\ typ \notin DOMAIN Mongo!PrefixLen /\ typ = Mongo!Regex
  <2> DEFINE e == Mongo!NulFrom(data, off)
             g == Mongo!NulFrom(data, e + 1)
  <2>1. r = g + 1 - off
    BY <1>3 DEF Mongo!SkipBSONValue
  <2>2. e \in Nat /\ e >= off
    BY <1>0, NulIs, MongoBytes
  <2> HIDE DEF e
  <2>3. g \in Nat
    BY <2>2, NulIs, MongoBytes
  <2> HIDE DEF g
  <2> QED
    BY <1>0, <2>1, <2>3
<1>4. CASE typ \notin DOMAIN Mongo!FixedLen /\ typ \notin DOMAIN Mongo!PrefixLen /\ typ # Mongo!Regex
  BY <1>4 DEF Mongo!SkipBSONValue
<1> QED
  BY <1>1, <1>2, <1>3, <1>4

(* The loop over the elements of a document always moves on: its fields    *)
(* are those of the element it is at and of the rest.                      *)
LEMMA FieldsDef ==
  ASSUME NEW data \in Seq(Nat), NEW at \in Nat
  PROVE  Mongo!FieldsFrom(data)[at] =
           IF Mongo!Ends(data, at) THEN <<>>
           ELSE Mongo!WithField(Mongo!FieldsFrom(data)[Mongo!NextAt(data, at)], data, at)
<1> DEFINE L == Len(data)
           Key(x) == SubSeq(data, x + 1, Mongo!KeyEnd(data, x) - 1)
           K == {Key(x) : x \in Nat}
           T == {Mongo!TextOf(data, x) : x \in Nat}
           S == UNION {[D -> T] : D \in SUBSET K}
           stop == {x \in Nat : Mongo!Ends(data, x)}
           last == [x \in Nat |-> <<>>]
           next == [x \in Nat |-> IF Mongo!Ends(data, x) THEN 0 ELSE Mongo!NextAt(data, x)]
           step == [x \in Nat |-> [r \in S |-> Mongo!WithField(r, data, x)]]
           Is(f) == f = [x \in Nat |-> IF Mongo!Ends(data, x) THEN <<>>
                                       ELSE Mongo!WithField(f[Mongo!NextAt(data, x)], data, x)]
<1>0. L \in Nat
  BY LenProperties
<1>1. ASSUME NEW x \in Nat, ~Mongo!Ends(data, x)
      PROVE  x <= L /\ Mongo!NextAt(data, x) \in Nat /\ Mongo!NextAt(data, x) > x
  <2> DEFINE e == Mongo!KeyEnd(data, x)
             a == Mongo!Advance(data, x)
  <2>1. ~(e > L) /\ ~(a < 0) /\ Mongo!NextAt(data, x) = e + 1 + a
    BY <1>1 DEF Mongo!Ends, Mongo!NextAt
  <2>2. e \in Nat /\ e >= x + 1
    <3>1. x + 1 \in Nat /\ x + 1 > 0
      OBVIOUS
    <3>2. e = NulFrom(data, x + 1)
      BY MongoBytes DEF Mongo!KeyEnd
    <3> HIDE DEF e
    <3> QED
      BY <3>1, <3>2, NulIs
  <2>3. a = Mongo!SkipBSONValue(data, e + 1, data[x])
    BY DEF Mongo!Advance
  <2> HIDE DEF e, a
  <2>4. e + 1 \in 1 .. L + 1
    BY <1>0, <2>1, <2>2
  <2>5. a \in Int
    BY <2>3, <2>4, SkipIs
  <2> QED
    BY <1>0, <2>1, <2>2, <2>5
<1>2. <<>> \in S
  <2>1. {} \in SUBSET K
    OBVIOUS
  <2>2. <<>> \in [{} -> T]
    OBVIOUS
  <2> QED
    BY <2>1, <2>2
<1>3. ASSUME NEW x \in Nat, NEW r \in S PROVE Mongo!WithField(r, data, x) \in S
  <2> DEFINE t == Mongo!TextOf(data, x)
             k == Key(x)
             w == [j \in DOMAIN r \cup {k} |-> IF j \in DOMAIN r THEN r[j] ELSE t]
  <2>1. Mongo!WithField(r, data, x) = IF t = Nothing THEN r ELSE w
    BY DEF Mongo!WithField
  <2>2. t \in T /\ k \in K
    OBVIOUS
  <2>3. PICK D \in SUBSET K : r \in [D -> T]
    OBVIOUS
  <2> HIDE DEF t, k, K, T
  <2>4. w \in [D \cup {k} -> T]
    BY <2>2, <2>3
  <2>5. D \cup {k} \in SUBSET K
    BY <2>2, <2>3
  <2>6. w \in S
    <3> HIDE DEF w
    <3> QED
      BY <2>4, <2>5
  <2> HIDE DEF w, S
  <2> QED
    BY <2>1, <2>6
<1> HIDE DEF S, K, T
<1>4. last \in [Nat -> S]
  BY <1>2
<1>5. next \in [Nat -> Nat] /\ \A x \in Nat : x \notin stop => x <= L /\ next[x] > x
  BY <1>1
<1>6. step \in [Nat -> [S -> S]]
  BY <1>3
<1>7. PICK f : IsWalk(f, S, stop, last, next, step)
  <2> HIDE DEF stop, last, next, step, L
  <2> QED
    BY <1>0, <1>4, <1>5, <1>6, WalkExists
<1>8. f \in [Nat -> S] /\ \A x \in Nat : f[x] = IF x \in stop THEN last[x] ELSE step[x][f[next[x]]]
  <2> HIDE DEF stop, last, next, step
  <2> QED
    BY <1>7 DEF IsWalk
<1>9. ASSUME NEW x \in Nat
      PROVE  f[x] = IF Mongo!Ends(data, x) THEN <<>>
                    ELSE Mongo!WithField(f[Mongo!NextAt(data, x)], data, x)
  <2>1. CASE Mongo!Ends(data, x)
    <3>1. x \in stop /\ last[x] = <<>>
      BY <2>1
    <3> HIDE DEF stop, last, next, step
    <3> QED
      BY <1>8, <2>1, <3>1
  <2>2. CASE ~Mongo!Ends(data, x)
    <3>1. x \notin stop /\ next[x] = Mongo!NextAt(data, x) /\ next[x] \in Nat
      BY <1>1, <2>2
    <3>2. f[next[x]] \in S
      BY <1>8, <3>1
    <3>3. step[x][f[next[x]]] = Mongo!WithField(f[next[x]], data, x)
      <4> HIDE DEF next
      <4> QED
        BY <3>2
    <3> HIDE DEF stop, last, next, step
    <3> QED
      BY <1>8, <2>2, <3>1, <3>3
  <2> QED
    BY <2>1, <2>2
<1>10. Is(f)
  <2> DEFINE R(x) == IF Mongo!Ends(data, x) THEN <<>>
                     ELSE Mongo!WithField(f[Mongo!NextAt(data, x)], data, x)
  <2>1. \A x \in Nat : f[x] = R(x)
    BY <1>9
  <2> HIDE DEF R
  <2>2. f = [x \in Nat |-> R(x)]
    BY <1>8, <2>1
  <2> QED
    BY <2>2 DEF R
<1>11. Mongo!FieldsFrom(data) = CHOOSE g : Is(g)
  BY DEF Mongo!FieldsFrom
<1>12. Is(Mongo!FieldsFrom(data))
  <2> HIDE DEF Is
  <2> QED
    BY <1>10, <1>11
<1> DEFINE g == Mongo!FieldsFrom(data)
<1> HIDE DEF g
<1>13. g = [x \in Nat |-> IF Mongo!Ends(data, x) THEN <<>>
                          ELSE Mongo!WithField(g[Mongo!NextAt(data, x)], data, x)]
  BY <1>12 DEF g
<1>14. g[at] = IF Mongo!Ends(data, at) THEN <<>>
               ELSE Mongo!WithField(g[Mongo!NextAt(data, at)], data, at)
  BY <1>13, Zenon
<1> QED
  BY <1>14 DEF g

(* A byte string with another at a place in it.                            *)
Holds(w, off, s) == off + Len(s) <= Len(w) /\ \A k \in 1 .. Len(s) : w[off + k] = s[k]

(* What follows a byte string leaves in place what it holds.               *)
Keeps(w, u) == \A off \in Nat, s \in Seq(Nat) : Holds(u, off, s) => Holds(w, off, s)

(* Bytes appended to a message are in it, and so is what it held.          *)
LEMMA Grows ==
  ASSUME NEW u \in Seq(Nat), NEW v \in Seq(Nat), NEW m, Len(u) = m
  PROVE  /\ u \o v \in Seq(Nat) /\ Len(u \o v) = m + Len(v)
         /\ Holds(u \o v, m, v) /\ Keeps(u \o v, u)
<1> DEFINE w == u \o v
           V == Len(v)
<1>0. m \in Nat /\ V \in Nat
  BY LenProperties
<1>1. w \in Seq(Nat) /\ Len(w) = m + V /\ \A k \in 1 .. m + V : w[k] = IF k <= m THEN u[k] ELSE v[k - m]
  BY ConcatProperties
<1> HIDE DEF w, V
<1>2. Holds(w, m, v)
  <2>1. ASSUME NEW k \in 1 .. V PROVE w[m + k] = v[k]
    <3>1. m + k \in 1 .. m + V /\ ~(m + k <= m) /\ (m + k) - m = k
      BY <1>0
    <3> QED
      BY <1>1, <3>1
  <2>2. m + V <= Len(w)
    BY <1>0, <1>1
  <2> QED
    BY <2>1, <2>2 DEF Holds, V
<1>3. ASSUME NEW off \in Nat, NEW s \in Seq(Nat), Holds(u, off, s) PROVE Holds(w, off, s)
  <2>0. Len(s) \in Nat
    BY LenProperties
  <2>1. off + Len(s) <= m /\ \A k \in 1 .. Len(s) : u[off + k] = s[k]
    BY <1>3 DEF Holds
  <2>2. ASSUME NEW k \in 1 .. Len(s) PROVE w[off + k] = s[k]
    <3>1. off + k \in 1 .. m + V /\ off + k <= m
      BY <1>0, <2>0, <2>1
    <3>2. w[off + k] = u[off + k]
      BY <1>1, <3>1
    <3> QED
      BY <2>1, <3>2
  <2>3. off + Len(s) <= Len(w)
    BY <1>0, <1>1, <2>0, <2>1
  <2> QED
    BY <2>2, <2>3 DEF Holds
<1> QED
  BY <1>1, <1>2, <1>3 DEF Keeps, w, V

(* A sequence of bytes is a sequence of numbers.                           *)
LEMMA Widens ==
  ASSUME NEW S, S \subseteq Nat, NEW s \in Seq(S)
  PROVE  s \in Seq(Nat)
<1>1. Len(s) \in Nat /\ s \in [1 .. Len(s) -> S]
  BY LenProperties
<1>2. s \in [1 .. Len(s) -> Nat]
  BY <1>1
<1> QED
  BY <1>1, <1>2, AsSeq

(* The document of the error: its length, the number ok, the string errmsg *)
(* and the number code.                                                    *)
IsErrorDoc(doc) ==
  LET E == Len(ErrorText)
  IN  /\ doc \in Seq(Nat) /\ Len(doc) = 40 + E
      /\ Holds(doc, 0, Mongo!PutLittle(40 + E, 4, MongoBase))
      /\ Holds(doc, 4, <<1>>)
      /\ Holds(doc, 5, Name["ok"])
      /\ Holds(doc, 7, <<0>>)
      /\ Holds(doc, 8, Mongo!Zeros(8))
      /\ Holds(doc, 16, <<2>>)
      /\ Holds(doc, 17, Name["errmsg"])
      /\ Holds(doc, 23, <<0>>)
      /\ Holds(doc, 24, Mongo!PutLittle(E + 1, 4, MongoBase))
      /\ Holds(doc, 28, ErrorText)
      /\ Holds(doc, 28 + E, <<0>>)
      /\ Holds(doc, 29 + E, <<16>>)
      /\ Holds(doc, 30 + E, Name["code"])
      /\ Holds(doc, 34 + E, <<0>>)
      /\ Holds(doc, 35 + E, Mongo!PutLittle(2, 4, MongoBase))
      /\ Holds(doc, 39 + E, <<0>>)

(* buildErrorBSON builds the document it is meant to.                      *)
LEMMA ErrorDoc == IsErrorDoc(Mongo!BuildErrorBSON(ErrorText))
<1> DEFINE E == Len(ErrorText)
           c1 == Mongo!PutLittle(40 + E, 4, MongoBase)
           c2 == <<1>>
           c3 == Name["ok"]
           c4 == <<0>>
           c5 == Mongo!Zeros(8)
           c6 == <<2>>
           c7 == Name["errmsg"]
           c8 == <<0>>
           c9 == Mongo!PutLittle(E + 1, 4, MongoBase)
           c10 == ErrorText
           c11 == <<0>>
           c12 == <<16>>
           c13 == Name["code"]
           c14 == <<0>>
           c15 == Mongo!PutLittle(2, 4, MongoBase)
           c16 == <<0>>
           d2 == c1 \o c2
           d3 == d2 \o c3
           d4 == d3 \o c4
           d5 == d4 \o c5
           d6 == d5 \o c6
           d7 == d6 \o c7
           d8 == d7 \o c8
           d9 == d8 \o c9
           d10 == d9 \o c10
           d11 == d10 \o c11
           d12 == d11 \o c12
           d13 == d12 \o c13
           d14 == d13 \o c14
           d15 == d14 \o c15
           d16 == d15 \o c16
<1>0. E \in Nat /\ 40 + E \in Nat /\ E + 1 \in Nat /\ MongoBase \in Nat /\ MongoBase > 0
  <2>1. ErrorText \in Seq(Byte) /\ MongoBase \in Nat /\ MongoBase >= 64
    BY InspectionAssumption
  <2>2. E \in Nat
    BY <2>1, LenProperties
  <2> HIDE DEF E
  <2> QED
    BY <2>1, <2>2
<1>1. \A u \in Nat : LET c == Mongo!PutLittle(u, 4, MongoBase) IN c \in Seq(Nat) /\ Len(c) = 4
  <2>1. ASSUME NEW u \in Nat
        PROVE  Mongo!PutLittle(u, 4, MongoBase) \in Seq(Nat) /\ Len(Mongo!PutLittle(u, 4, MongoBase)) = 4
    <3> DEFINE c == PutLittle(u, 4, MongoBase)
               S == 0 .. MongoBase - 1
    <3>1. c \in Seq(S) /\ Len(c) = 4
      BY <1>0, PutLittleIs
    <3>2. S \subseteq Nat
      BY <1>0
    <3> HIDE DEF c, S
    <3>3. c \in Seq(Nat)
      BY <3>1, <3>2, Widens
    <3>4. Mongo!PutLittle(u, 4, MongoBase) = c
      BY MongoBytes DEF c
    <3> QED
      BY <3>1, <3>3, <3>4
  <2> QED
    BY <2>1
<1>2. \A x \in {"ok", "errmsg", "code"} : Name[x] \in Seq(Nat)
  <2>1. ASSUME NEW x \in {"ok", "errmsg", "code"} PROVE Name[x] \in Seq(Nat)
    <3> DEFINE S == 0 .. MongoBase - 1
    <3>1. Name[x] \in Seq(S)
      BY InspectionAssumption
    <3>2. S \subseteq Nat
      BY <1>0
    <3> HIDE DEF S
    <3> QED
      BY <3>1, <3>2, Widens
  <2> QED
    BY <2>1
<1>3. ErrorText \in Seq(Nat)
  <2>1. ErrorText \in Seq(Byte) /\ Byte \subseteq Nat
    BY InspectionAssumption, ByteFacts
  <2> QED
    BY <2>1, Widens
<1>4. c1 \in Seq(Nat) /\ Len(c1) = 4 /\ c9 \in Seq(Nat) /\ Len(c9) = 4 /\ c15 \in Seq(Nat) /\ Len(c15) = 4
  BY <1>0, <1>1
<1>5. /\ c2 \in Seq(Nat) /\ Len(c2) = 1 /\ c4 \in Seq(Nat) /\ Len(c4) = 1 /\ c6 \in Seq(Nat) /\ Len(c6) = 1
      /\ c8 \in Seq(Nat) /\ Len(c8) = 1 /\ c11 \in Seq(Nat) /\ Len(c11) = 1 /\ c12 \in Seq(Nat) /\ Len(c12) = 1
      /\ c14 \in Seq(Nat) /\ Len(c14) = 1 /\ c16 \in Seq(Nat) /\ Len(c16) = 1
  OBVIOUS
<1>6. c3 \in Seq(Nat) /\ Len(c3) = 2 /\ c7 \in Seq(Nat) /\ Len(c7) = 6 /\ c13 \in Seq(Nat) /\ Len(c13) = 4
  <2>1. Len(c3) = 2 /\ Len(c7) = 6 /\ Len(c13) = 4
    BY InspectionAssumption
  <2> QED
    BY <1>2, <2>1
<1>7. c5 \in Seq(Nat) /\ Len(c5) = 8
  <2>1. c5 = Zeros(8)
    BY MongoBytes
  <2>2. Zeros(8) \in [1 .. 8 -> Nat]
    BY DEF Zeros
  <2> HIDE DEF c5
  <2> QED
    BY <2>1, <2>2, AsSeq
<1>8. c10 \in Seq(Nat) /\ Len(c10) = E
  BY <1>3
<1>9. Mongo!BuildErrorBSON(ErrorText) = d16
  <2>1. Mongo!ErrorSize(ErrorText) = 40 + E
    BY <1>0 DEF Mongo!ErrorSize
  <2> HIDE DEF E
  <2> QED
    BY <2>1 DEF Mongo!BuildErrorBSON, Mongo!String, E
<1> HIDE DEF E, c1, c2, c3, c4, c5, c6, c7, c8, c9, c10, c11, c12, c13, c14, c15, c16
<1>10. /\ d2 \in Seq(Nat) /\ Len(d2) = 5
       /\ Holds(d2, 4, c2) /\ Keeps(d2, c1)
  <2>1. d2 \in Seq(Nat) /\ Len(d2) = 4 + Len(c2) /\ Holds(d2, 4, c2) /\ Keeps(d2, c1)
    <3>1. c1 \in Seq(Nat) /\ Len(c1) = 4 /\ c2 \in Seq(Nat)
      BY <1>4, <1>5
    <3> QED
      BY <3>1, Grows
  <2>2. 4 + Len(c2) = 5
    BY <1>0, <1>5
  <2> QED
    BY <2>1, <2>2
<1> HIDE DEF d2
<1>11. /\ d3 \in Seq(Nat) /\ Len(d3) = 7
       /\ Holds(d3, 5, c3) /\ Keeps(d3, d2)
  <2>1. d3 \in Seq(Nat) /\ Len(d3) = 5 + Len(c3) /\ Holds(d3, 5, c3) /\ Keeps(d3, d2)
    BY <1>10, <1>6, Grows
  <2>2. 5 + Len(c3) = 7
    BY <1>0, <1>6
  <2> QED
    BY <2>1, <2>2
<1> HIDE DEF d3
<1>12. /\ d4 \in Seq(Nat) /\ Len(d4) = 8
       /\ Holds(d4, 7, c4) /\ Keeps(d4, d3)
  <2>1. d4 \in Seq(Nat) /\ Len(d4) = 7 + Len(c4) /\ Holds(d4, 7, c4) /\ Keeps(d4, d3)
    BY <1>11, <1>5, Grows
  <2>2. 7 + Len(c4) = 8
    BY <1>0, <1>5
  <2> QED
    BY <2>1, <2>2
<1> HIDE DEF d4
<1>13. /\ d5 \in Seq(Nat) /\ Len(d5) = 16
       /\ Holds(d5, 8, c5) /\ Keeps(d5, d4)
  <2>1. d5 \in Seq(Nat) /\ Len(d5) = 8 + Len(c5) /\ Holds(d5, 8, c5) /\ Keeps(d5, d4)
    BY <1>12, <1>7, Grows
  <2>2. 8 + Len(c5) = 16
    BY <1>0, <1>7
  <2> QED
    BY <2>1, <2>2
<1> HIDE DEF d5
<1>14. /\ d6 \in Seq(Nat) /\ Len(d6) = 17
       /\ Holds(d6, 16, c6) /\ Keeps(d6, d5)
  <2>1. d6 \in Seq(Nat) /\ Len(d6) = 16 + Len(c6) /\ Holds(d6, 16, c6) /\ Keeps(d6, d5)
    BY <1>13, <1>5, Grows
  <2>2. 16 + Len(c6) = 17
    BY <1>0, <1>5
  <2> QED
    BY <2>1, <2>2
<1> HIDE DEF d6
<1>15. /\ d7 \in Seq(Nat) /\ Len(d7) = 23
       /\ Holds(d7, 17, c7) /\ Keeps(d7, d6)
  <2>1. d7 \in Seq(Nat) /\ Len(d7) = 17 + Len(c7) /\ Holds(d7, 17, c7) /\ Keeps(d7, d6)
    BY <1>14, <1>6, Grows
  <2>2. 17 + Len(c7) = 23
    BY <1>0, <1>6
  <2> QED
    BY <2>1, <2>2
<1> HIDE DEF d7
<1>16. /\ d8 \in Seq(Nat) /\ Len(d8) = 24
       /\ Holds(d8, 23, c8) /\ Keeps(d8, d7)
  <2>1. d8 \in Seq(Nat) /\ Len(d8) = 23 + Len(c8) /\ Holds(d8, 23, c8) /\ Keeps(d8, d7)
    BY <1>15, <1>5, Grows
  <2>2. 23 + Len(c8) = 24
    BY <1>0, <1>5
  <2> QED
    BY <2>1, <2>2
<1> HIDE DEF d8
<1>17. /\ d9 \in Seq(Nat) /\ Len(d9) = 28
       /\ Holds(d9, 24, c9) /\ Keeps(d9, d8)
  <2>1. d9 \in Seq(Nat) /\ Len(d9) = 24 + Len(c9) /\ Holds(d9, 24, c9) /\ Keeps(d9, d8)
    BY <1>16, <1>4, Grows
  <2>2. 24 + Len(c9) = 28
    BY <1>0, <1>4
  <2> QED
    BY <2>1, <2>2
<1> HIDE DEF d9
<1>18. /\ d10 \in Seq(Nat) /\ Len(d10) = 28 + E
       /\ Holds(d10, 28, c10) /\ Keeps(d10, d9)
  <2>1. d10 \in Seq(Nat) /\ Len(d10) = 28 + Len(c10) /\ Holds(d10, 28, c10) /\ Keeps(d10, d9)
    BY <1>17, <1>8, Grows
  <2>2. 28 + Len(c10) = 28 + E
    BY <1>0, <1>8
  <2> QED
    BY <2>1, <2>2
<1> HIDE DEF d10
<1>19. /\ d11 \in Seq(Nat) /\ Len(d11) = 29 + E
       /\ Holds(d11, 28 + E, c11) /\ Keeps(d11, d10)
  <2>1. d11 \in Seq(Nat) /\ Len(d11) = (28 + E) + Len(c11) /\ Holds(d11, 28 + E, c11) /\ Keeps(d11, d10)
    BY <1>18, <1>5, Grows
  <2>2. (28 + E) + Len(c11) = 29 + E
    BY <1>0, <1>5
  <2> QED
    BY <2>1, <2>2
<1> HIDE DEF d11
<1>20. /\ d12 \in Seq(Nat) /\ Len(d12) = 30 + E
       /\ Holds(d12, 29 + E, c12) /\ Keeps(d12, d11)
  <2>1. d12 \in Seq(Nat) /\ Len(d12) = (29 + E) + Len(c12) /\ Holds(d12, 29 + E, c12) /\ Keeps(d12, d11)
    BY <1>19, <1>5, Grows
  <2>2. (29 + E) + Len(c12) = 30 + E
    BY <1>0, <1>5
  <2> QED
    BY <2>1, <2>2
<1> HIDE DEF d12
<1>21. /\ d13 \in Seq(Nat) /\ Len(d13) = 34 + E
       /\ Holds(d13, 30 + E, c13) /\ Keeps(d13, d12)
  <2>1. d13 \in Seq(Nat) /\ Len(d13) = (30 + E) + Len(c13) /\ Holds(d13, 30 + E, c13) /\ Keeps(d13, d12)
    BY <1>20, <1>6, Grows
  <2>2. (30 + E) + Len(c13) = 34 + E
    BY <1>0, <1>6
  <2> QED
    BY <2>1, <2>2
<1> HIDE DEF d13
<1>22. /\ d14 \in Seq(Nat) /\ Len(d14) = 35 + E
       /\ Holds(d14, 34 + E, c14) /\ Keeps(d14, d13)
  <2>1. d14 \in Seq(Nat) /\ Len(d14) = (34 + E) + Len(c14) /\ Holds(d14, 34 + E, c14) /\ Keeps(d14, d13)
    BY <1>21, <1>5, Grows
  <2>2. (34 + E) + Len(c14) = 35 + E
    BY <1>0, <1>5
  <2> QED
    BY <2>1, <2>2
<1> HIDE DEF d14
<1>23. /\ d15 \in Seq(Nat) /\ Len(d15) = 39 + E
       /\ Holds(d15, 35 + E, c15) /\ Keeps(d15, d14)
  <2>1. d15 \in Seq(Nat) /\ Len(d15) = (35 + E) + Len(c15) /\ Holds(d15, 35 + E, c15) /\ Keeps(d15, d14)
    BY <1>22, <1>4, Grows
  <2>2. (35 + E) + Len(c15) = 39 + E
    BY <1>0, <1>4
  <2> QED
    BY <2>1, <2>2
<1> HIDE DEF d15
<1>24. /\ d16 \in Seq(Nat) /\ Len(d16) = 40 + E
       /\ Holds(d16, 39 + E, c16) /\ Keeps(d16, d15)
  <2>1. d16 \in Seq(Nat) /\ Len(d16) = (39 + E) + Len(c16) /\ Holds(d16, 39 + E, c16) /\ Keeps(d16, d15)
    BY <1>23, <1>5, Grows
  <2>2. (39 + E) + Len(c16) = 40 + E
    BY <1>0, <1>5
  <2> QED
    BY <2>1, <2>2
<1> HIDE DEF d16
<1>25. Holds(c1, 0, c1)
  <2>1. 0 + Len(c1) <= Len(c1) /\ \A k \in 1 .. Len(c1) : 0 + k = k
    BY <1>4
  <2> QED
    BY <2>1 DEF Holds
<1>27. Keeps(d16, d15)
  BY <1>24
<1>28. Keeps(d16, d14)
  BY <1>27, <1>23 DEF Keeps
<1>29. Keeps(d16, d13)
  BY <1>28, <1>22 DEF Keeps
<1>30. Keeps(d16, d12)
  BY <1>29, <1>21 DEF Keeps
<1>31. Keeps(d16, d11)
  BY <1>30, <1>20 DEF Keeps
<1>32. Keeps(d16, d10)
  BY <1>31, <1>19 DEF Keeps
<1>33. Keeps(d16, d9)
  BY <1>32, <1>18 DEF Keeps
<1>34. Keeps(d16, d8)
  BY <1>33, <1>17 DEF Keeps
<1>35. Keeps(d16, d7)
  BY <1>34, <1>16 DEF Keeps
<1>36. Keeps(d16, d6)
  BY <1>35, <1>15 DEF Keeps
<1>37. Keeps(d16, d5)
  BY <1>36, <1>14 DEF Keeps
<1>38. Keeps(d16, d4)
  BY <1>37, <1>13 DEF Keeps
<1>39. Keeps(d16, d3)
  BY <1>38, <1>12 DEF Keeps
<1>40. Keeps(d16, d2)
  BY <1>39, <1>11 DEF Keeps
<1>41. Keeps(d16, c1)
  BY <1>40, <1>10 DEF Keeps
<1>42. Holds(d16, 0, c1)
  <2>1. 0 \in Nat
    BY <1>0
  <2> QED
    BY <1>4, <1>25, <1>41, <2>1 DEF Keeps
<1>43. Holds(d16, 4, c2)
  <2>1. 4 \in Nat
    BY <1>0
  <2> QED
    BY <1>5, <1>10, <1>40, <2>1 DEF Keeps
<1>44. Holds(d16, 5, c3)
  <2>1. 5 \in Nat
    BY <1>0
  <2> QED
    BY <1>6, <1>11, <1>39, <2>1 DEF Keeps
<1>45. Holds(d16, 7, c4)
  <2>1. 7 \in Nat
    BY <1>0
  <2> QED
    BY <1>5, <1>12, <1>38, <2>1 DEF Keeps
<1>46. Holds(d16, 8, c5)
  <2>1. 8 \in Nat
    BY <1>0
  <2> QED
    BY <1>7, <1>13, <1>37, <2>1 DEF Keeps
<1>47. Holds(d16, 16, c6)
  <2>1. 16 \in Nat
    BY <1>0
  <2> QED
    BY <1>5, <1>14, <1>36, <2>1 DEF Keeps
<1>48. Holds(d16, 17, c7)
  <2>1. 17 \in Nat
    BY <1>0
  <2> QED
    BY <1>6, <1>15, <1>35, <2>1 DEF Keeps
<1>49. Holds(d16, 23, c8)
  <2>1. 23 \in Nat
    BY <1>0
  <2> QED
    BY <1>5, <1>16, <1>34, <2>1 DEF Keeps
<1>50. Holds(d16, 24, c9)
  <2>1. 24 \in Nat
    BY <1>0
  <2> QED
    BY <1>4, <1>17, <1>33, <2>1 DEF Keeps
<1>51. Holds(d16, 28, c10)
  <2>1. 28 \in Nat
    BY <1>0
  <2> QED
    BY <1>8, <1>18, <1>32, <2>1 DEF Keeps
<1>52. Holds(d16, 28 + E, c11)
  <2>1. 28 + E \in Nat
    BY <1>0
  <2> QED
    BY <1>5, <1>19, <1>31, <2>1 DEF Keeps
<1>53. Holds(d16, 29 + E, c12)
  <2>1. 29 + E \in Nat
    BY <1>0
  <2> QED
    BY <1>5, <1>20, <1>30, <2>1 DEF Keeps
<1>54. Holds(d16, 30 + E, c13)
  <2>1. 30 + E \in Nat
    BY <1>0
  <2> QED
    BY <1>6, <1>21, <1>29, <2>1 DEF Keeps
<1>55. Holds(d16, 34 + E, c14)
  <2>1. 34 + E \in Nat
    BY <1>0
  <2> QED
    BY <1>5, <1>22, <1>28, <2>1 DEF Keeps
<1>56. Holds(d16, 35 + E, c15)
  <2>1. 35 + E \in Nat
    BY <1>0
  <2> QED
    BY <1>4, <1>23, <1>27, <2>1 DEF Keeps
<1>57. Holds(d16, 39 + E, c16)
  BY <1>24
<1> QED
  BY <1>9, <1>24, <1>42, <1>43, <1>44, <1>45, <1>46, <1>47, <1>48, <1>49, <1>50, <1>51, <1>52, <1>53, <1>54, <1>55, <1>56, <1>57
  DEF IsErrorDoc, E, c1, c2, c3, c4, c5, c6, c7, c8, c9, c10, c11, c12, c13, c14, c15, c16

(* What a message holds is read back from it: a number,                    *)
LEMMA ReadNumber ==
  ASSUME NEW doc, NEW off \in Nat, NEW u \in Nat, u < Mongo!Word,
         Holds(doc, off, Mongo!PutLittle(u, 4, MongoBase))
  PROVE  Mongo!U32(doc, off + 1) = u
<1> DEFINE c == PutLittle(u, 4, MongoBase)
<1>0. MongoBase \in Nat /\ MongoBase > 0
  <2>1. MongoBase \in Nat /\ MongoBase >= 64
    BY InspectionAssumption
  <2> QED
    BY <2>1
<1>1. u < MongoBase * MongoBase * MongoBase * MongoBase
  BY DEF Mongo!Word
<1>2. FitsIn(u, 4, MongoBase)
  BY <1>0, <1>1, Fits
<1>3. Holds(doc, off, c) /\ Len(c) = 4
  BY <1>0, MongoBytes, PutLittleIs
<1>4. \A k \in 1 .. 4 : doc[off + k] = c[k]
  <2> HIDE DEF c
  <2> QED
    BY <1>3 DEF Holds
<1>5. \A k \in 1 .. 4 : (off + 1) + k - 1 = off + k
  OBVIOUS
<1>6. Spells(doc, off + 1, u, 4, MongoBase)
  BY <1>4, <1>5, Zenon DEF Spells
<1>7. off + 1 \in Nat
  OBVIOUS
<1>8. Little(doc, off + 1, 4, MongoBase) = u
  BY <1>0, <1>2, <1>6, <1>7, LittleInverts
<1> QED
  BY <1>8, MongoBytes

(* a byte,                                                                 *)
LEMMA ReadByte ==
  ASSUME NEW doc, NEW off \in Nat, NEW b, Holds(doc, off, <<b>>)
  PROVE  doc[off + 1] = b /\ off + 1 <= Len(doc)
<1> DEFINE s == <<b>>
<1>1. Len(s) = 1 /\ s[1] = b
  OBVIOUS
<1> HIDE DEF s
<1>2. Holds(doc, off, s)
  BY DEF s
<1>3. off + 1 <= Len(doc) /\ \A k \in 1 .. 1 : doc[off + k] = s[k]
  BY <1>1, <1>2 DEF Holds
<1> QED
  BY <1>1, <1>3

(* and a name with its terminating NUL.                                    *)
LEMMA ReadName ==
  ASSUME NEW doc \in Seq(Nat), NEW off \in Nat, NEW s \in Seq(Nat), NEW m, Len(s) = m, NulFree(s),
         Holds(doc, off, s), Holds(doc, off + m, << 0 >>)
  PROVE  /\ NulFrom(doc, off + 1) = (off + m) + 1
         /\ SubSeq(doc, off + 1, ((off + m) + 1) - 1) = s
<1> DEFINE L == Len(doc)
           z == SubSeq(doc, off + 1, ((off + m) + 1) - 1)
<1>0. L \in Nat /\ m \in Nat /\ DOMAIN s = 1 .. m /\ off + m \in Nat
  BY LenProperties
<1>1. doc[(off + m) + 1] = 0 /\ (off + m) + 1 <= L
  BY <1>0, ReadByte
<1>2. \A k \in 1 .. m : doc[off + k] = s[k] /\ s[k] # 0
  BY <1>0 DEF Holds, NulFree
<1>3. off + 1 \in 1 .. Len(doc) + 1 /\ (off + m) + 1 \in off + 1 .. Len(doc)
  BY <1>0, <1>1
<1>4. ASSUME NEW k \in off + 1 .. ((off + m) + 1) - 1 PROVE doc[k] # 0
  <2>1. k - off \in 1 .. m /\ off + (k - off) = k
    BY <1>0
  <2>2. doc[off + (k - off)] # 0
    BY <1>2, <2>1
  <2> QED
    BY <2>1, <2>2
<1>5. NulFrom(doc, off + 1) = (off + m) + 1
  BY <1>1, <1>3, <1>4, NulAt
<1>6. /\ ((off + m) + 1) - 1 \in (off + 1) - 1 .. Len(doc)
      /\ (((off + m) + 1) - 1) - (off + 1) + 1 = m
      /\ \A k \in 1 .. m : (off + 1) + k - 1 = off + k
  BY <1>0, <1>1
<1>7. /\ z \in Seq(Nat) /\ Len(z) = (((off + m) + 1) - 1) - (off + 1) + 1
      /\ \A k \in 1 .. (((off + m) + 1) - 1) - (off + 1) + 1 : z[k] = doc[(off + 1) + k - 1]
  <2> DEFINE a == off + 1
             b == ((off + m) + 1) - 1
  <2>1. a \in 1 .. Len(doc) + 1 /\ b \in a - 1 .. Len(doc)
    BY <1>3, <1>6
  <2>2. z = SubSeq(doc, a, b)
    OBVIOUS
  <2> HIDE DEF a, b, z
  <2>3. z \in Seq(Nat) /\ Len(z) = b - a + 1 /\ \A k \in 1 .. b - a + 1 : z[k] = doc[a + k - 1]
    BY <2>1, <2>2, PartType
  <2> QED
    BY <2>3 DEF a, b
<1> HIDE DEF z
<1>8. Len(z) = m /\ \A k \in 1 .. m : z[k] = doc[off + k]
  BY <1>6, <1>7, Zenon
<1>9. \A k \in 1 .. m : z[k] = s[k]
  BY <1>2, <1>8
<1>10. z = s
  BY <1>7, <1>8, <1>9, SeqEqual
<1> QED
  BY <1>5, <1>10 DEF z

(* What the loop of ParseTopLevel does at an element of fixed length.      *)
LEMMA FixedElement ==
  ASSUME NEW doc \in Seq(Nat), NEW at \in Nat, NEW e \in Nat, e <= Len(doc), Mongo!KeyEnd(doc, at) = e,
         NEW top \in Nat, top = Min({Mongo!U32(doc, 1) - 1, Len(doc)}), at <= top, doc[at] \in {1, 16},
         NEW size, size = IF doc[at] = 1 THEN 8 ELSE 4
  PROVE  Mongo!FieldsFrom(doc)[at] = Mongo!FieldsFrom(doc)[e + 1 + size]
<1>0. Len(doc) \in Nat
  BY LenProperties
<1>1. doc[at] \in DOMAIN Mongo!FixedLen /\ Mongo!FixedLen[doc[at]] = size
  <2>1. DOMAIN Mongo!FixedLen = {1, 7, 8, 9, 10, 16, 17, 18, 19, Mongo!MinKey, Mongo!MaxKey}
    BY DEF Mongo!FixedLen
  <2>2. Mongo!FixedLen[1] = 8 /\ Mongo!FixedLen[16] = 4
    BY DEF Mongo!FixedLen
  <2> QED
    BY <2>1, <2>2
<1>2. Mongo!Advance(doc, at) = size
  BY <1>1, Kinds DEF Mongo!Advance, Mongo!SkipBSONValue
<1>3. Mongo!TextOf(doc, at) = Nothing
  BY DEF Mongo!TextOf, Mongo!String
<1>4. ~Mongo!Ends(doc, at)
  <2>1. Min({Mongo!U32(doc, 1) - 1, Len(doc)}) = Mongo!Min({Mongo!U32(doc, 1) - 1, Len(doc)})
    BY DEF Min, Mongo!Min
  <2>2. ~(at > top)
    OBVIOUS
  <2>3. doc[at] # 0 /\ ~(e > Len(doc)) /\ ~(size < 0)
    BY <1>0
  <2> QED
    BY <1>2, <2>1, <2>2, <2>3 DEF Mongo!Ends
<1>5. Mongo!NextAt(doc, at) = e + 1 + size
  BY <1>2 DEF Mongo!NextAt
<1>6. Mongo!FieldsFrom(doc)[at] = Mongo!WithField(Mongo!FieldsFrom(doc)[e + 1 + size], doc, at)
  BY <1>4, <1>5, FieldsDef
<1> QED
  BY <1>3, <1>6 DEF Mongo!WithField

(* A client reads the one string of the error document, errmsg.            *)
LEMMA ErrorRead ==
  ASSUME NEW doc, IsErrorDoc(doc)
  PROVE  /\ Mongo!U32(doc, 1) = Len(doc)
         /\ Mongo!FirstKeyValue(doc)[1] = Name["ok"]
         /\ Mongo!ParseTopLevel(doc) = [k \in {Name["errmsg"]} |-> ErrorText]
<1> DEFINE E == Len(ErrorText)
           L == Len(doc)
           ok == Name["ok"]
           msg == Name["errmsg"]
           code == Name["code"]
           F == Mongo!FieldsFrom(doc)
<1>1. /\ E \in Nat /\ ErrorText \in Seq(Byte) /\ ErrorText \in Seq(Nat) /\ NulFree(ErrorText)
      /\ E + 40 < Mongo!Word /\ 40 + E = E + 40 /\ 40 + E \in Nat /\ E + 1 \in Nat /\ E + 1 < Mongo!Word
  <2>1. ErrorText \in Seq(Byte) /\ NulFree(ErrorText) /\ E + 40 < Mongo!Word /\ Byte \subseteq Nat
    BY InspectionAssumption, ByteFacts
  <2>2. E \in Nat /\ ErrorText \in Seq(Nat)
    BY <2>1, LenProperties, Widens
  <2> HIDE DEF E
  <2>3. Mongo!Word \in Int
    <3>1. MongoBase \in Nat
      BY InspectionAssumption
    <3> QED
      BY <3>1 DEF Mongo!Word
  <2>4. E + 1 < Mongo!Word
    BY <2>1, <2>2, <2>3
  <2> QED
    BY <2>1, <2>2, <2>4
<1>2. /\ ok \in Seq(Nat) /\ msg \in Seq(Nat) /\ code \in Seq(Nat)
      /\ NulFree(ok) /\ NulFree(msg) /\ NulFree(code)
      /\ Len(ok) = 2 /\ Len(msg) = 6 /\ Len(code) = 4
  <2>1. ASSUME NEW x \in {"ok", "errmsg", "code"} PROVE Name[x] \in Seq(Nat) /\ NulFree(Name[x])
    <3> DEFINE S == 0 .. MongoBase - 1
    <3>1. Name[x] \in Seq(S) /\ NulFree(Name[x])
      BY InspectionAssumption
    <3>2. S \subseteq Nat
      OBVIOUS
    <3> HIDE DEF S
    <3> QED
      BY <3>1, <3>2, Widens
  <2>2. Len(ok) = 2 /\ Len(msg) = 6 /\ Len(code) = 4
    BY InspectionAssumption
  <2> QED
    BY <2>1, <2>2
<1>3. /\ doc \in Seq(Nat) /\ L = 40 + E
      /\ Holds(doc, 0, Mongo!PutLittle(40 + E, 4, MongoBase))
      /\ Holds(doc, 4, <<1>>) /\ Holds(doc, 5, ok) /\ Holds(doc, 7, <<0>>)
      /\ Holds(doc, 16, <<2>>) /\ Holds(doc, 17, msg) /\ Holds(doc, 23, <<0>>)
      /\ Holds(doc, 24, Mongo!PutLittle(E + 1, 4, MongoBase))
      /\ Holds(doc, 28, ErrorText) /\ Holds(doc, 28 + E, <<0>>)
      /\ Holds(doc, 29 + E, <<16>>) /\ Holds(doc, 30 + E, code) /\ Holds(doc, 34 + E, <<0>>)
  BY DEF IsErrorDoc
<1> HIDE DEF E, ok, msg, code
<1>4. Mongo!U32(doc, 1) = 40 + E
  <2>1. Mongo!U32(doc, 0 + 1) = 40 + E
    BY <1>1, <1>3, ReadNumber
  <2> QED
    BY <2>1
<1>5. Mongo!U32(doc, 25) = E + 1
  <2>1. Mongo!U32(doc, 24 + 1) = E + 1
    BY <1>1, <1>3, ReadNumber
  <2> QED
    BY <2>1
<1>6. doc[5] = 1 /\ doc[17] = 2
  <2>0. 4 \in Nat /\ 16 \in Nat
    OBVIOUS
  <2>1. doc[4 + 1] = 1
    <3>1. Holds(doc, 4, <<1>>)
      BY <1>3
    <3> QED
      BY <2>0, <3>1, ReadByte
  <2>2. doc[16 + 1] = 2
    <3>1. Holds(doc, 16, <<2>>)
      BY <1>3
    <3> QED
      BY <2>0, <3>1, ReadByte
  <2> QED
    BY <2>1, <2>2
<1>7. doc[30 + E] = 16
  <2>1. 29 + E \in Nat /\ (29 + E) + 1 = 30 + E
    BY <1>1
  <2>2. doc[(29 + E) + 1] = 16
    <3>1. Holds(doc, 29 + E, <<16>>)
      BY <1>3
    <3> QED
      BY <2>1, <3>1, ReadByte
  <2> QED
    BY <2>1, <2>2
<1>8. Mongo!KeyEnd(doc, 5) = 8 /\ SubSeq(doc, 6, 7) = ok
  <2>1. 5 + 2 = 7 /\ 5 + 1 = 6 /\ (5 + 2) + 1 = 8 /\ ((5 + 2) + 1) - 1 = 7
    OBVIOUS
  <2>2. NulFrom(doc, 5 + 1) = (5 + 2) + 1 /\ SubSeq(doc, 5 + 1, ((5 + 2) + 1) - 1) = ok
    <3>1. Holds(doc, 5 + 2, <<0>>)
      BY <1>3, <2>1
    <3> QED
      BY <1>2, <1>3, <3>1, ReadName
  <2> QED
    BY <2>1, <2>2, MongoBytes DEF Mongo!KeyEnd
<1>9. Mongo!KeyEnd(doc, 17) = 24 /\ SubSeq(doc, 18, 23) = msg
  <2>1. 17 + 6 = 23 /\ 17 + 1 = 18 /\ (17 + 6) + 1 = 24 /\ ((17 + 6) + 1) - 1 = 23
    OBVIOUS
  <2>2. NulFrom(doc, 17 + 1) = (17 + 6) + 1 /\ SubSeq(doc, 17 + 1, ((17 + 6) + 1) - 1) = msg
    <3>1. Holds(doc, 17 + 6, <<0>>)
      BY <1>3, <2>1
    <3> QED
      BY <1>2, <1>3, <3>1, ReadName
  <2> QED
    BY <2>1, <2>2, MongoBytes DEF Mongo!KeyEnd
<1>10. Mongo!KeyEnd(doc, 30 + E) = 35 + E
  <2> DEFINE off == 30 + E
  <2>1. off \in Nat /\ off + 4 = 34 + E /\ (off + 4) + 1 = 35 + E
    BY <1>1
  <2>2. Holds(doc, off, code) /\ Holds(doc, off + 4, <<0>>)
    BY <1>3, <2>1
  <2> HIDE DEF off
  <2>3. NulFrom(doc, off + 1) = (off + 4) + 1
    BY <1>2, <1>3, <2>1, <2>2, ReadName
  <2>4. Mongo!KeyEnd(doc, off) = NulFrom(doc, off + 1)
    BY MongoBytes DEF Mongo!KeyEnd
  <2> QED
    BY <2>1, <2>3, <2>4 DEF off
<1>11. SubSeq(doc, 29, 28 + E) = ErrorText
  <2>1. (28 + E) + 1 = 29 + E /\ 28 + 1 = 29 /\ ((28 + E) + 1) - 1 = 28 + E
    BY <1>1
  <2>2. SubSeq(doc, 28 + 1, ((28 + E) + 1) - 1) = ErrorText
    BY <1>1, <1>3, ReadName DEF E
  <2> QED
    BY <2>1, <2>2
<1> DEFINE top == 39 + E
<1>12. top \in Nat /\ Min({Mongo!U32(doc, 1) - 1, Len(doc)}) = top
  <2> DEFINE A == {Mongo!U32(doc, 1) - 1, Len(doc)}
  <2>0. (40 + E) - 1 = 39 + E /\ top \in Nat
    BY <1>1
  <2>1. A = {39 + E, 40 + E} /\ top \in Nat
    BY <1>3, <1>4, <2>0, Zenon
  <2> HIDE DEF A
  <2>2. top \in A /\ \A y \in A : top <= y
    BY <1>1, <2>1
  <2>3. \A x \in A : (\A y \in A : x <= y) => x = top
    BY <1>1, <2>1
  <2>4. Min(A) = top
    BY <2>2, <2>3 DEF Min
  <2> QED
    BY <2>1, <2>4 DEF A
<1>13. F[5] = F[17]
  <2>1. 5 <= top /\ 8 <= Len(doc) /\ 8 + 1 + 8 = 17
    BY <1>1, <1>3
  <2> HIDE DEF top
  <2>2. Mongo!FieldsFrom(doc)[5] = Mongo!FieldsFrom(doc)[8 + 1 + 8]
    <3>1. doc[5] \in {1, 16} /\ 8 = IF doc[5] = 1 THEN 8 ELSE 4
      BY <1>6
    <3>2. 5 \in Nat /\ 8 \in Nat
      OBVIOUS
    <3>3. /\ doc \in Seq(Nat) /\ Mongo!KeyEnd(doc, 5) = 8 /\ top \in Nat
          /\ top = Min({Mongo!U32(doc, 1) - 1, Len(doc)}) /\ 5 <= top /\ 8 <= Len(doc)
      BY <1>3, <1>8, <1>12, <2>1
    <3> QED
      BY <3>1, <3>2, <3>3, FixedElement
  <2> QED
    BY <2>1, <2>2
<1>14. F[30 + E] = F[40 + E]
  <2>1. /\ 30 + E <= top /\ 35 + E <= Len(doc) /\ (35 + E) + 1 + 4 = 40 + E
        /\ 30 + E \in Nat /\ 35 + E \in Nat
    BY <1>1, <1>3
  <2> HIDE DEF top
  <2>2. Mongo!FieldsFrom(doc)[30 + E] = Mongo!FieldsFrom(doc)[(35 + E) + 1 + 4]
    <3> DEFINE at == 30 + E
               e == 35 + E
    <3>1. doc[at] \in {1, 16} /\ 4 = IF doc[at] = 1 THEN 8 ELSE 4
      BY <1>7
    <3>2. /\ doc \in Seq(Nat) /\ Mongo!KeyEnd(doc, at) = e /\ top \in Nat
          /\ top = Min({Mongo!U32(doc, 1) - 1, Len(doc)}) /\ at <= top /\ e <= Len(doc)
          /\ at \in Nat /\ e \in Nat
      BY <1>3, <1>10, <1>12, <2>1
    <3> HIDE DEF at, e
    <3>3. Mongo!FieldsFrom(doc)[at] = Mongo!FieldsFrom(doc)[e + 1 + 4]
      BY <3>1, <3>2, FixedElement
    <3> QED
      BY <3>3 DEF at, e
  <2> QED
    BY <2>1, <2>2
<1>15. Mongo!Min({Mongo!U32(doc, 1) - 1, Len(doc)}) = top
  BY <1>12 DEF Min, Mongo!Min
<1>16. F[40 + E] = <<>>
  <2>1. 40 + E > top /\ 40 + E \in Nat
    BY <1>1
  <2>2. Mongo!Ends(doc, 40 + E)
    BY <1>15, <2>1 DEF Mongo!Ends
  <2> QED
    BY <1>3, <2>1, <2>2, FieldsDef
<1>17. Mongo!TextOf(doc, 17) = ErrorText /\ ErrorText # Nothing
  <2>1. Mongo!TextOf(doc, 17) = Mongo!StringAt(doc, 25)
    <3>1. 24 + 1 = 25
      OBVIOUS
    <3> QED
      BY <1>6, <1>9, <3>1 DEF Mongo!TextOf, Mongo!String
  <2>2. /\ ~(25 + 3 > Len(doc)) /\ E + 1 # 0 /\ ~(25 + 3 + (E + 1) > Len(doc))
        /\ 25 + 4 = 29 /\ 25 + 2 + (E + 1) = 28 + E
    BY <1>1, <1>3
  <2>3. Mongo!StringAt(doc, 25) = SubSeq(doc, 29, 28 + E)
    BY <1>5, <2>2 DEF Mongo!StringAt
  <2>4. ErrorText # Nothing
    BY <1>1, BytesAssumption
  <2> QED
    BY <1>11, <2>1, <2>3, <2>4
<1>18. Mongo!Advance(doc, 17) = 5 + E
  <2>1. 2 \in DOMAIN Mongo!PrefixLen /\ Mongo!PrefixLen[2] = 4
    BY DEF Mongo!PrefixLen, Mongo!String, Mongo!Document, Mongo!Array, Mongo!Binary
  <2>2. 2 \notin DOMAIN Mongo!FixedLen /\ 2 # Mongo!Regex
    BY <2>1, Kinds
  <2>3. ~(25 + 3 > Len(doc)) /\ 4 + (E + 1) = 5 + E /\ 24 + 1 = 25
    BY <1>1, <1>3
  <2>4. Mongo!Advance(doc, 17) = Mongo!SkipBSONValue(doc, 25, 2)
    BY <1>6, <1>9, <2>3 DEF Mongo!Advance
  <2>5. Mongo!SkipBSONValue(doc, 25, 2) = 4 + (E + 1)
    BY <1>5, <2>1, <2>2, <2>3 DEF Mongo!SkipBSONValue
  <2> QED
    BY <2>3, <2>4, <2>5
<1>19. F[17] = Mongo!WithField(F[30 + E], doc, 17)
  <2>1. ~(17 > top) /\ doc[17] # 0 /\ ~(24 > Len(doc)) /\ ~(5 + E < 0) /\ 24 + 1 + (5 + E) = 30 + E
    BY <1>1, <1>3, <1>6
  <2>2. ~Mongo!Ends(doc, 17)
    BY <1>9, <1>15, <1>18, <2>1 DEF Mongo!Ends
  <2>3. Mongo!NextAt(doc, 17) = 30 + E
    BY <1>9, <1>18, <2>1 DEF Mongo!NextAt
  <2> QED
    BY <1>3, <2>2, <2>3, FieldsDef
<1>20. F[17] = [k \in {msg} |-> ErrorText]
  <2>1. F[30 + E] = <<>>
    BY <1>14, <1>16
  <2>2. 17 + 1 = 18 /\ 24 - 1 = 23
    OBVIOUS
  <2>3. F[17] = [k \in DOMAIN <<>> \cup {msg} |-> IF k \in DOMAIN <<>> THEN <<>>[k] ELSE ErrorText]
    BY <1>9, <1>17, <1>19, <2>1, <2>2 DEF Mongo!WithField
  <2>4. DOMAIN <<>> = {}
    OBVIOUS
  <2>5. [k \in DOMAIN <<>> \cup {msg} |-> IF k \in DOMAIN <<>> THEN <<>>[k] ELSE ErrorText]
          = [k \in {msg} |-> ErrorText]
    BY <2>4
  <2> HIDE DEF F
  <2> QED
    BY <2>3, <2>5
<1>21. Mongo!Sized(doc)
  <2>1. Len(doc) >= 5 /\ 40 + E \in 5 .. Len(doc)
    BY <1>1, <1>3
  <2> QED
    BY <1>4, <2>1 DEF Mongo!Sized
<1>22. Mongo!ParseTopLevel(doc) = [k \in {msg} |-> ErrorText]
  BY <1>13, <1>20, <1>21 DEF Mongo!ParseTopLevel
<1>23. Mongo!FirstKeyValue(doc)[1] = ok
  <2>1. ~(8 > Len(doc)) /\ 8 - 1 = 7 /\ doc[5] # 0
    BY <1>1, <1>3, <1>6
  <2>2. Mongo!FirstKeyValue(doc) = <<SubSeq(doc, 6, 7), IF Mongo!TextOf(doc, 5) = Nothing THEN <<>> ELSE Mongo!TextOf(doc, 5)>>
    BY <1>8, <1>21, <2>1 DEF Mongo!FirstKeyValue
  <2> QED
    BY <1>8, <2>2
<1> QED
  BY <1>3, <1>4, <1>22, <1>23 DEF ok, msg

(* The message that answers a refused MongoDB command.                     *)
LEMMA MongoAnswer == MongoReadable(Mongo!BuildBlockResponse(7, ErrorText))
<1> DEFINE doc == Mongo!BuildErrorBSON(ErrorText)
           z == Mongo!Zeros(5)
           p == z \o doc
           a == Mongo!BuildBlockResponse(7, ErrorText)
           s == SubSeq(p, 6, Len(p))
<1>1. IsErrorDoc(doc)
  BY ErrorDoc
<1>2. doc \in Seq(Nat) /\ Len(doc) \in Nat
  <2>1. doc \in Seq(Nat)
    BY <1>1 DEF IsErrorDoc
  <2> QED
    BY <2>1, LenProperties
<1>3. /\ a.payload = p /\ a.messageLength = 16 + 4 + 1 + Len(doc) /\ a.responseTo = 7
  BY DEF Mongo!BuildBlockResponse
<1>4. z \in Seq(Nat) /\ Len(z) = 5
  <2>1. z = Zeros(5)
    BY MongoBytes
  <2>2. Zeros(5) \in [1 .. 5 -> Nat]
    BY DEF Zeros
  <2> HIDE DEF z
  <2> QED
    BY <2>1, <2>2, AsSeq
<1> HIDE DEF doc, z, a
<1>5. p \in Seq(Nat) /\ Len(p) = 5 + Len(doc) /\ Holds(p, 5, doc)
  BY <1>2, <1>4, Grows
<1> HIDE DEF p
<1>6. /\ 6 \in 1 .. Len(p) + 1 /\ Len(p) \in 6 - 1 .. Len(p) /\ Len(p) - 6 + 1 = Len(doc)
      /\ \A k \in 1 .. Len(doc) : 6 + k - 1 = 5 + k
  BY <1>2, <1>5
<1>7. s \in Seq(Nat) /\ Len(s) = Len(p) - 6 + 1 /\ \A k \in 1 .. Len(p) - 6 + 1 : s[k] = p[6 + k - 1]
  BY <1>5, <1>6, PartType
<1> HIDE DEF s
<1>8. Len(s) = Len(doc) /\ \A k \in 1 .. Len(doc) : s[k] = p[5 + k]
  BY <1>6, <1>7, Zenon
<1>9. \A k \in 1 .. Len(doc) : s[k] = doc[k]
  BY <1>5, <1>8 DEF Holds
<1>10. s = doc
  BY <1>2, <1>7, <1>8, <1>9, SeqEqual
<1>11. Mongo!ExtractCommand(a) = Nothing
  <2>1. a.responseTo # 0
    BY <1>3
  <2> QED
    BY <2>1 DEF Mongo!ExtractCommand, Mongo!IsClientMessage
<1>12. a.messageLength = 16 + Len(p)
  BY <1>2, <1>3, <1>5
<1>13. SubSeq(a.payload, 6, Len(a.payload)) = doc
  BY <1>3, <1>10 DEF s
<1> QED
  BY <1>1, <1>3, <1>11, <1>12, <1>13, ErrorRead DEF MongoReadable, a

(* What parseOpMsg finds is the body of the message or nothing.            *)
LEMMA SectionIs ==
  ASSUME NEW p \in Seq(Nat), NEW at \in Nat
  PROVE  Mongo!Section(p)[at] = Nothing \/ \E x \in Nat : Mongo!Section(p)[at] = Mongo!Body(p, x)
<1> DEFINE L == Len(p)
           S == {Nothing} \cup {Mongo!Body(p, x) : x \in Nat}
           End(x) == IF Mongo!IsBody(p, x) THEN Mongo!Body(p, x) ELSE Nothing
           Skip(x) == x + 1 + Mongo!U32(p, x + 1)
           stop == {x \in Nat : ~Mongo!IsSequence(p, x)}
           last == [x \in Nat |-> End(x)]
           next == [x \in Nat |-> IF Mongo!IsSequence(p, x) THEN Skip(x) ELSE 0]
           step == [x \in Nat |-> [r \in S |-> r]]
           Is(f) == f = [x \in Nat |-> IF Mongo!IsSequence(p, x) THEN f[Skip(x)] ELSE End(x)]
<1>0. L \in Nat
  BY LenProperties
<1>1. ASSUME NEW x \in Nat, Mongo!IsSequence(p, x)
      PROVE  x <= L /\ Skip(x) \in Nat /\ Skip(x) > x
  <2>1. x + 4 <= L
    BY <1>1 DEF Mongo!IsSequence
  <2>2. x + 1 \in Nat /\ x + 1 > 0 /\ (x + 1) + 3 <= Len(p)
    BY <1>0, <2>1
  <2>3. Mongo!U32(p, x + 1) \in Nat
    BY <2>2, NumberAt
  <2> QED
    BY <1>0, <2>1, <2>3
<1>2. \A x \in Nat : End(x) \in S
  OBVIOUS
<1> HIDE DEF S, End, Skip
<1>3. last \in [Nat -> S] /\ step \in [Nat -> [S -> S]]
  BY <1>2
<1>4. next \in [Nat -> Nat] /\ \A x \in Nat : x \notin stop => x <= L /\ next[x] > x
  BY <1>1
<1>5. PICK f : IsWalk(f, S, stop, last, next, step)
  <2> HIDE DEF stop, last, next, step, L
  <2> QED
    BY <1>0, <1>3, <1>4, WalkExists
<1>6. f \in [Nat -> S] /\ \A x \in Nat : f[x] = IF x \in stop THEN last[x] ELSE step[x][f[next[x]]]
  <2> HIDE DEF stop, last, next, step
  <2> QED
    BY <1>5 DEF IsWalk
<1>7. ASSUME NEW x \in Nat
      PROVE  f[x] = IF Mongo!IsSequence(p, x) THEN f[Skip(x)] ELSE End(x)
  <2>1. CASE ~Mongo!IsSequence(p, x)
    <3>1. x \in stop /\ last[x] = End(x)
      BY <2>1
    <3> HIDE DEF stop, last, next, step
    <3> QED
      BY <1>6, <2>1, <3>1
  <2>2. CASE Mongo!IsSequence(p, x)
    <3>1. x \notin stop /\ next[x] = Skip(x) /\ next[x] \in Nat
      BY <1>1, <2>2
    <3>2. f[next[x]] \in S
      BY <1>6, <3>1
    <3>3. step[x][f[next[x]]] = f[next[x]]
      <4> HIDE DEF next
      <4> QED
        BY <3>2
    <3> HIDE DEF stop, last, next, step
    <3> QED
      BY <1>6, <2>2, <3>1, <3>3
  <2> QED
    BY <2>1, <2>2
<1>8. Is(f)
  <2> DEFINE R(x) == IF Mongo!IsSequence(p, x) THEN f[Skip(x)] ELSE End(x)
  <2>1. \A x \in Nat : f[x] = R(x)
    BY <1>7
  <2> HIDE DEF R
  <2>2. f = [x \in Nat |-> R(x)]
    BY <1>6, <2>1
  <2> QED
    BY <2>2 DEF R
<1>9. Mongo!Section(p) = CHOOSE g : Is(g)
  BY DEF Mongo!Section, Skip, End
<1>10. Is(Mongo!Section(p))
  <2> HIDE DEF Is
  <2> QED
    BY <1>8, <1>9
<1> DEFINE g == Mongo!Section(p)
<1> HIDE DEF g
<1>11. g = [x \in Nat |-> IF Mongo!IsSequence(p, x) THEN g[Skip(x)] ELSE End(x)]
  BY <1>10 DEF g
<1>12. \A x \in Nat : g[x] = IF Mongo!IsSequence(p, x) THEN g[Skip(x)] ELSE End(x)
  BY <1>11, Zenon
<1> DEFINE good == {x \in Nat : g[x] \in S}
<1>13. \A x \in Nat : x \in stop => x \in good
  BY <1>2, <1>12
<1>14. \A x \in Nat : x \notin stop =>
         x <= L /\ next[x] \in Nat /\ next[x] > x /\ (next[x] \in good => x \in good)
  <2>1. ASSUME NEW x \in Nat, x \notin stop
        PROVE  x <= L /\ next[x] \in Nat /\ next[x] > x /\ (next[x] \in good => x \in good)
    <3>1. Mongo!IsSequence(p, x) /\ next[x] = Skip(x)
      BY <2>1
    <3>2. x <= L /\ next[x] \in Nat /\ next[x] > x
      BY <1>1, <3>1
    <3>3. g[x] = g[next[x]]
      BY <1>12, <3>1
    <3> HIDE DEF next, L
    <3> QED
      BY <3>2, <3>3
  <2> QED
    BY <2>1
<1>15. \A x \in Nat : x \in good
  <2> HIDE DEF stop, next, good, L
  <2> QED
    BY <1>0, <1>13, <1>14, WalkInduction
<1>16. g[at] \in S
  BY <1>15
<1> QED
  BY <1>16 DEF S, g

Labels == {"CMD", "DB", "COLL", "HAS", "EMPTY_FILTER"}

(* The text of a command is made of labelled parts.                        *)
LEMMA Labelled ==
  ASSUME NEW data
  PROVE  LET t == Mongo!ToRuleString(Mongo!BuildInfo(data))
         IN  \A k \in DOMAIN t : t[k][1] \in Labels
<1> DEFINE c == Mongo!BuildInfo(data)
           t == Mongo!ToRuleString(c)
           N == {Name["$where"], Name["$function"], Name["$accumulator"]}
           X == N \cup {c.command, c.database, c.collection, <<>>}
           V == Labels \X X
           Part(label, s) == IF s = <<>> THEN <<>> ELSE << <<label, s>> >>
           p1 == << <<"CMD", c.command>> >>
           p2 == Part("DB", c.database)
           p3 == Part("COLL", c.collection)
           p4 == [k \in DOMAIN c.ops |-> <<"HAS", c.ops[k]>>]
           p5 == IF c.emptyFilter THEN << <<"EMPTY_FILTER", <<>> >> >> ELSE <<>>
<1>1. c.ops \in Seq(N)
  <2> DEFINE a == Mongo!Found(data, Name["$where"])
             b == Mongo!Found(data, Name["$function"])
             d == Mongo!Found(data, Name["$accumulator"])
  <2>1. a \in Seq(N) /\ b \in Seq(N) /\ d \in Seq(N)
    BY DEF Mongo!Found
  <2>2. c.ops = (a \o b) \o d
    BY DEF Mongo!BuildInfo, Mongo!ScanDangerousOps
  <2> HIDE DEF a, b, d, N
  <2>3. a \o b \in Seq(N)
    BY <2>1, ConcatProperties
  <2>4. (a \o b) \o d \in Seq(N)
    BY <2>1, <2>3, ConcatProperties
  <2> QED
    BY <2>2, <2>4
<1>2. t = (((p1 \o p2) \o p3) \o p4) \o p5
  BY DEF Mongo!ToRuleString
<1> DEFINE cmd == c.command
           db == c.database
           coll == c.collection
           ops == c.ops
<1> HIDE DEF c, N
<1>3. <<"CMD", cmd>> \in V /\ <<"DB", db>> \in V /\ <<"COLL", coll>> \in V /\ <<"EMPTY_FILTER", <<>> >> \in V
  BY DEF Labels
<1>4. \A s \in N : <<"HAS", s>> \in V
  BY DEF Labels
<1> HIDE DEF V
<1>5. p1 \in Seq(V) /\ p2 \in Seq(V) /\ p3 \in Seq(V) /\ p5 \in Seq(V)
  BY <1>3
<1>6. p4 \in Seq(V)
  <2>1. Len(ops) \in Nat /\ DOMAIN ops = 1 .. Len(ops) /\ \A k \in 1 .. Len(ops) : ops[k] \in N
    BY <1>1, LenProperties, ElementOfSeq
  <2>2. p4 \in [1 .. Len(ops) -> V]
    BY <1>4, <2>1
  <2> HIDE DEF p4
  <2> QED
    BY <2>1, <2>2, AsSeq
<1> HIDE DEF p1, p2, p3, p4, p5
<1>7. t \in Seq(V)
  <2>1. p1 \o p2 \in Seq(V)
    BY <1>5, ConcatProperties
  <2>2. (p1 \o p2) \o p3 \in Seq(V)
    BY <1>5, <2>1, ConcatProperties
  <2>3. ((p1 \o p2) \o p3) \o p4 \in Seq(V)
    BY <1>6, <2>2, ConcatProperties
  <2>4. (((p1 \o p2) \o p3) \o p4) \o p5 \in Seq(V)
    BY <1>5, <2>3, ConcatProperties
  <2> QED
    BY <1>2, <2>4
<1>8. ASSUME NEW k \in DOMAIN t PROVE t[k][1] \in Labels
  <2>1. t[k] \in V
    <3> HIDE DEF t
    <3>1. k \in 1 .. Len(t)
      BY <1>7, LenProperties
    <3> QED
      BY <1>7, <3>1, ElementOfSeq
  <2> QED
    BY <2>1 DEF V
<1> QED
  BY <1>8 DEF c

(* The inductive invariant of the connection holds at first.               *)
LEMMA InspectInitial == InspectInit => InspectInv
<1> SUFFICES ASSUME InspectInit PROVE InspectInv
  OBVIOUS
<1> USE DEF InspectInit
<1>1. InspectTypeOK
  BY DEF InspectTypeOK, Protocols
<1>2. StageInv
  BY DEF StageInv
<1>3. LoginDecoded /\ OnlyWrapPanics
  BY NotPanic DEF LoginDecoded, OnlyWrapPanics, AfterLogin
<1>4. TextIsMeant /\ SqlCaught /\ Answered
  BY DEF TextIsMeant, SqlCaught, Answered
<1> QED
  BY <1>1, <1>2, <1>3, <1>4 DEF InspectInv

(* The login is parsed.                                                    *)
LEMMA LoginKeeps == InspectInv /\ Login => InspectInv'
<1> SUFFICES ASSUME InspectInv, Login PROVE InspectInv'
  OBVIOUS
<1>0. /\ stage = "login" /\ proto = "mysql" /\ login \in Logins /\ intent = Nothing
      /\ verdict = Nothing /\ answer = Nothing
  BY DEF InspectInv, StageInv, Login
<1>1. PICK p \in Cuts(LoginSent(login)) \cup {LoginBytes(login, o) : o \in OddLengths} :
        /\ wire' = p
        /\ whole' = (p = LoginSent(login))
        /\ who' = ParseHandshakeResponse(p)
        /\ stage' = IF whole' /\ {"ssl", "compress"} \cap login.flags = {} THEN "command" ELSE "over"
  BY DEF Login
<1>2. UNCHANGED <<proto, login, intent, text, verdict, answer>>
  BY DEF Login
<1>3. BeginsLike(p, login)
  BY <1>0, <1>1, SentBegins
<1>4. IsParsed(who', wire', login) /\ PanicIsWrap(who', wire', login)
  BY <1>0, <1>1, <1>3, AnyLogin
<1>5. Len(wire') \in Nat
  <2>1. p \in Seq(Byte)
    BY <1>3 DEF BeginsLike
  <2> QED
    BY <1>1, <2>1, LenProperties
<1>6. stage' \in {"command", "over"} /\ (stage' = "command" => whole') /\ whole' \in BOOLEAN
  BY <1>1
<1>7. InspectTypeOK'
  <2>1. \/ who' \in {Nothing, Panic}
        \/ \E u \in Seq(Byte), d \in Seq(Byte) :
             NulFree(u) /\ NulFree(d) /\ who' = Identity(login.caps, u, d)
    <3>1. CASE Len(wire') < 32
      BY <1>4, <3>1 DEF IsParsed
    <3>2. CASE Len(wire') = 32
      <4>1. who' = Identity(login.caps, <<>>, <<>>)
        BY <1>4, <3>2 DEF IsParsed
      <4>2. <<>> \in Seq(Byte) /\ NulFree(<<>>)
        BY DEF NulFree
      <4> QED
        BY <4>1, <4>2
    <3>3. CASE Len(wire') > 32
      <4>1. login.user \in Seq(Byte) /\ NulFree(login.user)
        BY <1>0, ClientIs
      <4>2. who' \in {Nothing, Panic} \/ \E d \in Seq(Byte) : NulFree(d) /\ who' = Identity(login.caps, login.user, d)
        BY <1>4, <3>3 DEF IsParsed
      <4>3. CASE who' \in {Nothing, Panic}
        BY <4>3
      <4>4. CASE \E d \in Seq(Byte) : NulFree(d) /\ who' = Identity(login.caps, login.user, d)
        <5>1. PICK d \in Seq(Byte) : NulFree(d) /\ who' = Identity(login.caps, login.user, d)
          BY <4>4
        <5> QED
          BY <4>1, <5>1, Zenon
      <4> QED
        BY <4>2, <4>3, <4>4
    <3>4. \A x \in Nat : x < 32 \/ x = 32 \/ x > 32
      OBVIOUS
    <3>5. Len(wire') < 32 \/ Len(wire') = 32 \/ Len(wire') > 32
      BY <1>5, <3>4, Zenon
    <3> QED
      BY <3>1, <3>2, <3>3, <3>5, Zenon
  <2>2. login.caps \in 0 .. Word - 1
    BY <1>0, InspectionAssumption
  <2>3. (\/ who \in {Nothing, Panic}
         \/ /\ who.caps \in 0 .. Word - 1
            /\ NulFree(who.user) /\ NulFree(who.database)
            /\ who.user \in Seq(Byte) /\ who.database \in Seq(Byte))'
    BY <2>1, <2>2 DEF Identity
  <2> QED
    BY <1>2, <1>6, <2>3 DEF InspectInv, InspectTypeOK, RulesFor
<1>8. StageInv'
  BY <1>0, <1>2, <1>6 DEF StageInv
<1>9. LoginDecoded'
  <2>1. whole' => who' = Identity(login.caps, login.user, IF "db" \in login.flags THEN login.database ELSE <<>>)
    BY <1>0, <1>1, WholeLogin
  <2>2. /\ Len(wire') < 32 => who' = Nothing
        /\ Len(wire') = 32 => who' = Identity(login.caps, <<>>, <<>>)
    BY <1>4 DEF IsParsed
  <2>4. Len(wire') > 32 /\ who' \notin {Nothing, Panic} /\ wire' \in Cuts(LoginSent(login)) =>
          who'.database \in Cuts(IF "db" \in login.flags THEN login.database ELSE <<>>)
    BY <1>0, <1>1, CutLogin
  <2>3. Len(wire') > 32 /\ who' \notin {Nothing, Panic} => who'.caps = login.caps /\ who'.user = login.user
    BY <1>4 DEF IsParsed, Identity
  <2> QED
    BY <1>2, <2>1, <2>2, <2>3, <2>4, Zenon DEF LoginDecoded
<1>10. OnlyWrapPanics'
  <2>1. Has(login.caps, "lenenc") => "lenenc" \in login.flags
    BY <1>0, ClientIs DEF Flags
  <2>2. Has(login.caps, "db") => "db" \in login.flags
    BY <1>0, ClientIs DEF Flags
  <2> QED
    BY <1>2, <1>4, <2>1, <2>2 DEF OnlyWrapPanics, PanicIsWrap
<1>11. TextIsMeant' /\ SqlCaught' /\ Answered'
  BY <1>0, <1>2 DEF TextIsMeant, SqlCaught, Answered
<1> QED
  BY <1>7, <1>8, <1>9, <1>10, <1>11 DEF InspectInv

(* A packet is parsed: what holds whatever the protocol.                   *)
LEMMA ParsedKeeps ==
  ASSUME InspectInv, stage = "command", NEW p, NEW meant, NEW t, Parsed(p, meant, t), whole' \in BOOLEAN,
         proto # "mongodb" => meant # Nothing,
         proto = "mysql" => meant # Nothing,
         t = Nothing \/ (IF proto = "mongodb" THEN \A k \in DOMAIN t : t[k][1] \in Labels ELSE t \in Seq(Byte)),
         TextIsMeant'
  PROVE  InspectInv'
<1>0. verdict = Nothing /\ answer = Nothing
  BY DEF InspectInv, StageInv
<1>1. /\ wire' = p /\ intent' = meant /\ text' = t
      /\ stage' = IF t = Nothing THEN "over" ELSE "decide"
      /\ UNCHANGED <<proto, login, who, verdict, answer>>
  BY DEF Parsed
<1>2. InspectTypeOK'
  <2>1. stage' \in {"login", "command", "decide", "answer", "over"}
    BY <1>1
  <2>2. (text = Nothing \/ (IF proto = "mongodb"
                        THEN \A k \in DOMAIN text : text[k][1] \in {"CMD", "DB", "COLL", "HAS", "EMPTY_FILTER"}
                        ELSE text \in Seq(Byte)))'
    BY <1>1 DEF Labels
  <2>3. (\/ who \in {Nothing, Panic}
         \/ /\ who.caps \in 0 .. Word - 1
            /\ NulFree(who.user) /\ NulFree(who.database)
            /\ who.user \in Seq(Byte) /\ who.database \in Seq(Byte))'
    BY <1>1 DEF InspectInv, InspectTypeOK
  <2> QED
    BY <1>0, <1>1, <2>1, <2>2, <2>3 DEF InspectInv, InspectTypeOK
<1>3. StageInv'
  BY <1>0, <1>1 DEF InspectInv, StageInv
<1>4. LoginDecoded' /\ OnlyWrapPanics'
  BY <1>1 DEF LoginDecoded, OnlyWrapPanics, AfterLogin
<1>5. SqlCaught' /\ Answered'
  BY <1>0, <1>1 DEF SqlCaught, Answered
<1> QED
  BY <1>2, <1>3, <1>4, <1>5 DEF InspectInv

(* The intent of an SQL client is never taken for none.                    *)
LEMMA Meant ==
  ASSUME NEW t \in SqlTexts, NEW params \in 0 .. 1
  PROVE  t \in Seq(Byte) /\ [sql |-> t, params |-> params] # Nothing
<1>1. t \in Seq(Byte)
  BY InspectionAssumption
<1>2. [sql |-> t, params |-> params] \in [sql : Seq(Byte), params : Nat]
  BY <1>1
<1> QED
  BY <1>1, <1>2, InspectionAssumption

(* A MySQL query keeps the invariant: its text is the one sent.            *)
LEMMA MySQLKeeps == InspectInv /\ MySQLQuery => InspectInv'
<1> SUFFICES ASSUME InspectInv, MySQLQuery PROVE InspectInv'
  OBVIOUS
<1>0. stage = "command" /\ proto = "mysql" /\ login \in Logins /\ whole /\ intent = Nothing /\ whole' = TRUE
  BY DEF InspectInv, StageInv, MySQLQuery
<1> DEFINE attrs == "attrs" \in login.flags
<1>1. PICK t \in SqlTexts, params \in 0 .. 1 :
        Parsed(QueryBytes(t, params, attrs), [sql |-> t, params |-> params],
               ExtractQuery(QueryBytes(t, params, attrs), Has(who.caps, "attrs")))
  BY DEF MySQLQuery
<1> DEFINE p == QueryBytes(t, params, attrs)
           x == ExtractQuery(p, Has(who.caps, "attrs"))
           meant == [sql |-> t, params |-> params]
<1>2. who.caps = login.caps
  <2>1. who = Identity(login.caps, login.user, IF "db" \in login.flags THEN login.database ELSE <<>>)
    BY <1>0 DEF InspectInv, LoginDecoded, AfterLogin
  <2> QED
    BY <2>1 DEF Identity
<1>3. attrs <=> Has(who.caps, "attrs")
  BY <1>0, <1>2, ClientIs DEF Flags
<1>4. x = IF params > 0 /\ attrs THEN Nothing ELSE t
  <2>1. CASE attrs
    <3>1. x = ExtractQuery(QueryBytes(t, params, TRUE), TRUE)
      BY <1>3, <2>1
    <3>2. ExtractQuery(QueryBytes(t, params, TRUE), TRUE) = IF params > 0 /\ TRUE THEN Nothing ELSE t
      BY QueryRead
    <3> QED
      BY <2>1, <3>1, <3>2
  <2>2. CASE ~attrs
    <3>0. attrs = FALSE /\ Has(who.caps, "attrs") = FALSE
      BY <1>3, <2>2
    <3>1. x = ExtractQuery(QueryBytes(t, params, FALSE), FALSE)
      <4> HIDE DEF attrs
      <4> QED
        BY <3>0, Zenon
    <3>2. ExtractQuery(QueryBytes(t, params, FALSE), FALSE) = IF params > 0 /\ FALSE THEN Nothing ELSE t
      BY QueryRead
    <3> QED
      BY <2>2, <3>1, <3>2
  <2> QED
    BY <2>1, <2>2
<1>5. meant # Nothing /\ t \in Seq(Byte) /\ meant.sql = t /\ meant.params = params
  BY Meant
<1> HIDE DEF p, x, meant, attrs
<1>6. Parsed(p, meant, x)
  BY <1>1 DEF p, x, meant, attrs
<1>7. TextIsMeant'
  <2>1. intent' = meant /\ text' = x /\ UNCHANGED <<proto, login>>
    BY <1>6 DEF Parsed
  <2> QED
    BY <1>0, <1>4, <1>5, <2>1 DEF TextIsMeant, attrs
<1>8. x = Nothing \/ (IF proto = "mongodb" THEN \A k \in DOMAIN x : x[k][1] \in Labels ELSE x \in Seq(Byte))
  BY <1>0, <1>4, <1>5
<1> QED
  BY <1>0, <1>5, <1>6, <1>7, <1>8, ParsedKeeps

(* So does a PostgreSQL query.                                             *)
LEMMA PostgresKeeps == InspectInv /\ PostgresQuery => InspectInv'
<1> SUFFICES ASSUME InspectInv, PostgresQuery PROVE InspectInv'
  OBVIOUS
<1>0. stage = "command" /\ proto = "postgres" /\ whole' = TRUE
  BY DEF PostgresQuery
<1>1. PICK t \in SqlTexts, type \in {"Q", "P"} :
        LET p == IF type = "Q" THEN t \o <<0>> ELSE <<1, 0>> \o t \o <<0, 0, 0>>
        IN  Parsed(p, [sql |-> t, params |-> 0], ExtractSQL([type |-> type, payload |-> p]))
  BY DEF PostgresQuery
<1> DEFINE p == IF type = "Q" THEN t \o <<0>> ELSE <<1, 0>> \o t \o <<0, 0, 0>>
           x == ExtractSQL([type |-> type, payload |-> p])
           meant == [sql |-> t, params |-> 0]
<1>2. x = t
  <2>1. CASE type = "Q"
    BY <2>1, SQLRead
  <2>2. CASE type = "P"
    BY <2>2, SQLRead
  <2> QED
    BY <2>1, <2>2
<1>3. meant # Nothing /\ t \in Seq(Byte) /\ meant.sql = t
  BY Meant
<1>4. Parsed(p, meant, x)
  BY <1>1
<1> HIDE DEF p, x, meant
<1>5. TextIsMeant'
  <2>1. intent' = meant /\ text' = x /\ UNCHANGED <<proto, login>>
    BY <1>4 DEF Parsed
  <2> QED
    BY <1>0, <1>2, <1>3, <2>1 DEF TextIsMeant
<1>6. x = Nothing \/ (IF proto = "mongodb" THEN \A k \in DOMAIN x : x[k][1] \in Labels ELSE x \in Seq(Byte))
  BY <1>0, <1>2, <1>3
<1> QED
  BY <1>0, <1>3, <1>4, <1>5, <1>6, ParsedKeeps

(* The bytes of a MongoDB message are numbers.                             *)
LEMMA MongoNumbers == \A s \in Seq(0 .. MongoBase - 1) : s \in Seq(Nat)
<1> DEFINE S == 0 .. MongoBase - 1
<1>1. S \subseteq Nat
  OBVIOUS
<1> HIDE DEF S
<1>2. ASSUME NEW s \in Seq(S) PROVE s \in Seq(Nat)
  BY <1>1, Widens
<1> QED
  BY <1>2 DEF S

(* Whatever has become of a MongoDB message, its text is nothing or made   *)
(* of labelled parts.                                                      *)
LEMMA Damaged ==
  ASSUME NEW m \in Messages, NEW sent, sent = MessageBytes(m),
         NEW p \in Cuts(sent) \cup {[sent EXCEPT ![k] = b] : k \in DOMAIN sent, b \in Garbage}
  PROVE  p \in Seq(Nat)
<1> DEFINE S == 0 .. MongoBase - 1
<1>1. sent \in Seq(S) /\ Garbage \subseteq S
  BY InspectionAssumption
<1>2. \A s \in Seq(S) : s \in Seq(Nat)
  BY MongoNumbers
<1> HIDE DEF S
<1>3. Len(sent) \in Nat /\ DOMAIN sent = 1 .. Len(sent) /\ sent \in [1 .. Len(sent) -> S]
  BY <1>1, LenProperties
<1>4. CASE p \in Cuts(sent)
  <2>1. PICK c \in 0 .. Len(sent) : p = SubSeq(sent, 1, c)
    BY <1>4 DEF Cuts
  <2>2. 1 \in 1 .. Len(sent) + 1 /\ c \in 1 - 1 .. Len(sent)
    BY <1>3
  <2>3. p \in Seq(S)
    BY <1>1, <2>1, <2>2, PartType
  <2> QED
    BY <1>2, <2>3
<1>5. CASE p \in {[sent EXCEPT ![k] = b] : k \in DOMAIN sent, b \in Garbage}
  <2>1. PICK k \in DOMAIN sent, b \in Garbage : p = [sent EXCEPT ![k] = b]
    BY <1>5
  <2>2. p \in [1 .. Len(sent) -> S]
    BY <1>1, <1>3, <2>1
  <2>3. p \in Seq(S)
    BY <1>3, <2>2, AsSeq
  <2> QED
    BY <1>2, <2>3
<1> QED
  BY <1>4, <1>5

(* A MongoDB message, whole or damaged, keeps the invariant.               *)
LEMMA MongoKeeps == InspectInv /\ MongoMessage => InspectInv'
<1> SUFFICES ASSUME InspectInv, MongoMessage PROVE InspectInv'
  OBVIOUS
<1>0. stage = "command" /\ proto = "mongodb"
  BY DEF MongoMessage
<1>1. PICK m \in Messages :
        LET sent == MessageBytes(m)
        IN  \E p \in Cuts(sent) \cup {[sent EXCEPT ![k] = b] : k \in DOMAIN sent, b \in Garbage} :
             /\ Parsed(p, m, RuleText(Mongo!ExtractCommand(
                               [responseTo |-> m.responseTo, opCode |-> m.opCode, payload |-> p])))
             /\ whole' = (p = sent)
  BY DEF MongoMessage
<1> DEFINE sent == MessageBytes(m)
<1>2. PICK p \in Cuts(sent) \cup {[sent EXCEPT ![k] = b] : k \in DOMAIN sent, b \in Garbage} :
             /\ Parsed(p, m, RuleText(Mongo!ExtractCommand(
                               [responseTo |-> m.responseTo, opCode |-> m.opCode, payload |-> p])))
             /\ whole' = (p = sent)
  BY <1>1
<1> DEFINE message == [responseTo |-> m.responseTo, opCode |-> m.opCode, payload |-> p]
           c == Mongo!ExtractCommand(message)
           x == RuleText(c)
<1>3. p \in Seq(Nat)
  BY Damaged
<1>4. c = Nothing \/ \E data : c = Mongo!BuildInfo(data)
  <2>0. c = Nothing \/ c = Mongo!ParseOpMsg(p) \/ c = Mongo!ParseOpQuery(p)
    BY DEF Mongo!ExtractCommand
  <2>1. Mongo!ParseOpMsg(p) = Nothing \/ \E data : Mongo!ParseOpMsg(p) = Mongo!BuildInfo(data)
    <3>1. Mongo!ParseOpMsg(p) = Nothing \/ Mongo!ParseOpMsg(p) = Mongo!Section(p)[5]
      BY DEF Mongo!ParseOpMsg
    <3>2. Mongo!Section(p)[5] = Nothing \/ \E y \in Nat : Mongo!Section(p)[5] = Mongo!Body(p, y)
      BY <1>3, SectionIs
    <3> QED
      BY <3>1, <3>2 DEF Mongo!Body
  <2>2. Mongo!ParseOpQuery(p) = Nothing \/ \E data : Mongo!ParseOpQuery(p) = Mongo!BuildInfo(data)
    BY DEF Mongo!ParseOpQuery
  <2> HIDE DEF c
  <2> QED
    BY <2>0, <2>1, <2>2
<1>5. x = Nothing \/ (\A k \in DOMAIN x : x[k][1] \in Labels)
  <2>1. CASE c = Nothing
    BY <2>1 DEF RuleText
  <2>2. CASE c # Nothing
    <3>1. PICK data : c = Mongo!BuildInfo(data)
      BY <1>4, <2>2
    <3>2. x = Mongo!ToRuleString(Mongo!BuildInfo(data))
      BY <2>2, <3>1 DEF RuleText
    <3> HIDE DEF x
    <3> QED
      BY <3>2, Labelled
  <2> QED
    BY <2>1, <2>2
<1> HIDE DEF x
<1>6. Parsed(p, m, x) /\ whole' \in BOOLEAN
  BY <1>2 DEF x
<1>7. TextIsMeant'
  <2>1. proto' = proto
    BY <1>6 DEF Parsed
  <2> QED
    BY <1>0, <2>1 DEF TextIsMeant
<1>8. x = Nothing \/ (IF proto = "mongodb" THEN \A k \in DOMAIN x : x[k][1] \in Labels ELSE x \in Seq(Byte))
  BY <1>0, <1>5
<1> QED
  BY <1>0, <1>6, <1>7, <1>8, ParsedKeeps

(* The decision blocks what a block rule is about, and only that.          *)
LEMMA DecideKeeps == InspectInv /\ Decide => InspectInv'
<1> SUFFICES ASSUME InspectInv, Decide PROVE InspectInv'
  OBVIOUS
<1>0. /\ stage = "decide" /\ stage' = "answer" /\ verdict' = Evaluate(RulesFor(proto), proto, text)
      /\ UNCHANGED <<proto, login, wire, whole, who, intent, text, answer>>
  BY DEF Decide
<1>1. answer = Nothing /\ (proto # "mongodb" => intent # Nothing) /\ text # Nothing /\ proto \in Protocols
  BY <1>0 DEF InspectInv, StageInv, InspectTypeOK
<1> DEFINE rules == RulesFor(proto)
<1>2. /\ verdict' \in [action : {"allow", "alert", "block"}, rule : PatternsOf(rules) \cup {"default-allow"}]
      /\ verdict'.action = "block" <=> \E k \in BlockRules(rules) : MatchString(proto, rules[k].pattern, text)
  BY <1>0, <1>1, EvaluateIs
<1>3. InspectTypeOK'
  BY <1>0, <1>1, <1>2 DEF InspectInv, InspectTypeOK, RulesFor
<1>4. StageInv'
  BY <1>0 DEF InspectInv, StageInv
<1>5. LoginDecoded' /\ OnlyWrapPanics' /\ TextIsMeant' /\ Answered'
  BY <1>0 DEF InspectInv, LoginDecoded, OnlyWrapPanics, AfterLogin, TextIsMeant, Answered
<1>6. SqlCaught'
  <2> SUFFICES ASSUME proto # "mongodb"
               PROVE  (verdict'.action = "block"
                       <=> \E k \in BlockRules(rules) : MatchString(proto, rules[k].pattern, intent.sql))
    BY <1>0 DEF SqlCaught, RulesFor
  <2>1. text = intent.sql
    BY <1>1 DEF InspectInv, TextIsMeant
  <2> HIDE DEF rules
  <2> QED
    BY <1>2, <2>1
<1> QED
  BY <1>3, <1>4, <1>5, <1>6 DEF InspectInv

(* The answer to a blocked command is one its client can read.             *)
LEMMA AnswerKeeps == InspectInv /\ Answer => InspectInv'
<1> SUFFICES ASSUME InspectInv, Answer PROVE InspectInv'
  OBVIOUS
<1>0. /\ stage = "answer" /\ stage' = "over"
      /\ UNCHANGED <<proto, login, wire, whole, who, intent, text, verdict>>
  BY DEF Answer
<1>1. answer' # Nothing => verdict.action = "block"
  BY DEF Answer
<1>2. InspectTypeOK'
  BY <1>0, <1>1 DEF InspectInv, InspectTypeOK, RulesFor
<1>3. StageInv'
  BY <1>0 DEF InspectInv, StageInv
<1>4. LoginDecoded' /\ OnlyWrapPanics' /\ TextIsMeant' /\ SqlCaught'
  BY <1>0 DEF InspectInv, LoginDecoded, OnlyWrapPanics, AfterLogin, TextIsMeant, SqlCaught, RulesFor
<1>5. Answered'
  <2>1. ASSUME answer' # Nothing, proto = "mysql" PROVE MySQLReadable(answer')
    <3>1. answer' = BuildErrorPacket(1, 9, <<4, 2, 0, 0, 0>>, ErrorText)
      BY <2>1 DEF Answer
    <3> QED
      BY <3>1, MySQLAnswer
  <2>2. ASSUME answer' # Nothing, proto = "postgres" PROVE PostgresReadable(answer')
    <3>1. answer' = BuildErrorResponse(ErrorText)
      BY <2>2 DEF Answer
    <3> QED
      BY <3>1, PostgresAnswer
  <2>3. ASSUME answer' # Nothing, proto = "mongodb" PROVE MongoReadable(answer')
    <3>1. answer' = Mongo!BuildBlockResponse(7, ErrorText)
      BY <2>3 DEF Answer
    <3> QED
      BY <3>1, MongoAnswer
  <2> QED
    BY <1>0, <2>1, <2>2, <2>3 DEF Answered
<1> QED
  BY <1>2, <1>3, <1>4, <1>5 DEF InspectInv

(* A step that changes nothing keeps the invariant.                        *)
LEMMA NothingMoves == InspectInv /\ UNCHANGED inspectVars => InspectInv'
<1> SUFFICES ASSUME InspectInv, UNCHANGED inspectVars PROVE InspectInv'
  OBVIOUS
<1> USE DEF inspectVars, InspectInv
<1>1. InspectTypeOK'
  BY DEF InspectTypeOK, RulesFor
<1>2. StageInv'
  BY DEF StageInv
<1>3. LoginDecoded' /\ OnlyWrapPanics' /\ TextIsMeant'
  BY DEF LoginDecoded, OnlyWrapPanics, AfterLogin, TextIsMeant
<1>4. SqlCaught' /\ Answered'
  BY DEF SqlCaught, Answered, RulesFor
<1> QED
  BY <1>1, <1>2, <1>3, <1>4

(* Every step of a connection keeps the invariant.                         *)
LEMMA InspectStep == InspectInv /\ [InspectNext]_inspectVars => InspectInv'
BY LoginKeeps, MySQLKeeps, PostgresKeeps, MongoKeeps, DecideKeeps, AnswerKeeps, NothingMoves DEF InspectNext, Over

(* So it always holds.                                                     *)
LEMMA InspectAlways == InspectSpec => []InspectInv
BY InspectInitial, InspectStep, PTL DEF InspectSpec

(***************************************************************************)
(* What a connection makes of its logins, commands and decisions.          *)
(***************************************************************************)

(* The connection is in a legal state at every moment: what                *)
(* ParseHandshakeResponse returns is nothing, a panic or strings without   *)
(* NUL, what is matched is made of bytes or labels, what Evaluate returns  *)
(* is an action of the engine and a rule of the list, and only a blocked   *)
(* command is answered.                                                    *)
THEOREM InspectTypeCorrect == InspectSpec => []InspectTypeOK
<1>1. InspectInv => InspectTypeOK
  BY DEF InspectInv
<1> QED
  BY <1>1, InspectAlways, PTL

(* ParseHandshakeResponse reads every login right, for every byte base,    *)
(* every user, database and authentication data and every set of           *)
(* capabilities: whole, it gives what the client sent; cut anywhere or     *)
(* with any other length, it never gives another user, and cut, no         *)
(* database but a beginning of the client's.                               *)
THEOREM LoginsAreRead == InspectSpec => []LoginDecoded
<1>1. InspectInv => LoginDecoded
  BY DEF InspectInv
<1> QED
  BY <1>1, InspectAlways, PTL

(* ParseHandshakeResponse panics only for a length that does not fit an    *)
(* int once the offset is added: no other login can stop the agent.        *)
THEOREM PanicsAreWraps == InspectSpec => []OnlyWrapPanics
<1>1. InspectInv => OnlyWrapPanics
  BY DEF InspectInv
<1> QED
  BY <1>1, InspectAlways, PTL

(* ExtractQuery and ExtractSQL give the rules the text the client sent,    *)
(* with query attributes and without; the attribute flag the query is read *)
(* with is the one ParseHandshakeResponse took from the login before it.   *)
THEOREM TextsAreMeant == InspectSpec => []TextIsMeant
<1>1. InspectInv => TextIsMeant
  BY DEF InspectInv
<1> QED
  BY <1>1, InspectAlways, PTL

(* With the default lists, DefaultRules and DefaultPostgresRules, an SQL   *)
(* text is blocked exactly when it is one a block rule is about: no alert  *)
(* that matches as well comes before the block, whatever the words of the  *)
(* patterns are.                                                           *)
THEOREM SqlIsCaught == InspectSpec => []SqlCaught
<1>1. InspectInv => SqlCaught
  BY DEF InspectInv
<1> QED
  BY <1>1, InspectAlways, PTL

(* What BuildErrorPacket, BuildErrorResponse and BuildBlockResponse build  *)
(* can be read by the client, for every error text and every byte base:    *)
(* the announced lengths are the right ones, and the text is found in it;  *)
(* with MongoDB by the walk of the elements of a BSON document.            *)
THEOREM AnswersAreRead == InspectSpec => []Answered
<1>1. InspectInv => Answered
  BY DEF InspectInv
<1> QED
  BY <1>1, InspectAlways, PTL
-----------------------------------------------------------------------------
(* What ExtractCommand does with an OP_QUERY whose document is shorter     *)
(* than it announces: it gives a command without a name and a database     *)
(* rather than none.                                                       *)
LEMMA CutOpQuery ==
  ASSUME NEW k, NEW p, k.responseTo = 0, k.opCode = "OpQuery", k.payload = p,
         NEW data, data = SubSeq(p, Mongo!NulFrom(p, 5) + 9, Len(p)),
         ~(Len(p) < 9), ~(Mongo!NulFrom(p, 5) + 9 > Len(p)), ~Mongo!Sized(data)
  PROVE  LET c == Mongo!ExtractCommand(k)
         IN  c = Mongo!BuildInfo(data) /\ c.command = <<>> /\ c.database = <<>>
<1>1. Mongo!ExtractCommand(k) = Mongo!BuildInfo(data)
  <2>1. Mongo!ExtractCommand(k) = Mongo!ParseOpQuery(p)
    BY DEF Mongo!ExtractCommand, Mongo!IsClientMessage
  <2> QED
    BY <2>1, Zenon DEF Mongo!ParseOpQuery
<1>2. Mongo!FirstKeyValue(data) = <<<<>>, <<>>>>
  BY Zenon DEF Mongo!FirstKeyValue
<1>3. Mongo!FirstKeyValue(data)[1] = <<>>
  BY <1>2
<1>4. Mongo!Database(Mongo!ParseTopLevel(data)) = <<>>
  <2>1. Mongo!ParseTopLevel(data) = <<>>
    BY Zenon DEF Mongo!ParseTopLevel
  <2>2. DOMAIN <<>> = {}
    OBVIOUS
  <2> QED
    BY <2>1, <2>2, Zenon DEF Mongo!Database
<1>5. /\ Mongo!BuildInfo(data).command = Mongo!FirstKeyValue(data)[1]
      /\ Mongo!BuildInfo(data).database = Mongo!Database(Mongo!ParseTopLevel(data))
  BY DEF Mongo!BuildInfo
<1> QED
  BY <1>1, <1>3, <1>4, <1>5, Zenon

(* What FingerprintValues does with a row in which one column looks like a *)
(* credential: no column has a token.                                      *)
LEMMA CredentialTakesRow ==
  ASSUME NEW key, NEW values, NEW cap, NEW l \in DOMAIN values, CredBlock(values[l])
  PROVE  FingerprintValues(key, values, cap) = Nil
BY Zenon DEF FingerprintValues, Fingerprint
=============================================================================
