--------------------------- MODULE PostgresQuery ---------------------------
(***************************************************************************)
(* The parsers of PostgresMessages on any payload, and ParseDataRow        *)
(* (src/protocol/postgres/query.go): a loop, one action for each field.    *)
(***************************************************************************)
EXTENDS PostgresMessages

CONSTANTS
  Texts,    \* payloads of messages other than DataRow
  Rows,     \* rows the server sends: sequences of columns, Null or bytes
  Null,     \* the SQL NULL
  Slack     \* how much a field count may be off

ASSUME QueryAssumption ==
  /\ Texts \subseteq Seq(Byte)
  /\ Rows \subseteq Seq(Seq(Byte) \cup {Null})
  /\ Slack \in Nat
  /\ \A r \in Rows :
       /\ Len(r) + Slack < Base * Base
       /\ \A k \in DOMAIN r : r[k] # Null => Len(r[k]) < Word \div 2

VARIABLES
  pkt,   \* the packet: its type and its payload
  row,   \* history: the row the server encoded, for a DataRow
  pc,    \* before, inside or after ParseDataRow
  n,     \* fields announced
  i,     \* fields passed
  pos,   \* where the next field starts, from 1
  vals   \* the values found, or Nothing

vars == <<pkt, row, pc, n, i, pos, vals>>
-----------------------------------------------------------------------------
(* The server's encoding of a row, with any field count near the true one  *)
(* and cut anywhere.                                                       *)
Column(c) == IF c = Null THEN PutUint32(Word - 1) ELSE PutUint32(Len(c)) \o c
Columns(r) ==
  LET encoded[k \in 0 .. Len(r)] == IF k = 0 THEN <<>> ELSE encoded[k - 1] \o Column(r[k])
  IN  encoded
Counts(r) == {c \in (Len(r) - Slack) .. (Len(r) + Slack) : c >= 0}
RowPayloads(r) ==
  LET columns == Columns(r)[Len(r)]
  IN  {SubSeq(<<c \div Base, c % Base>> \o columns, 1, cut) :
         c \in Counts(r), cut \in 0 .. Len(columns) + 2}

Init ==
  /\ \/ row = <<>> /\ \E t \in {"Q", "P", "B", "E", "Z"}, p \in Texts : pkt = [type |-> t, payload |-> p]
     \/ row \in Rows /\ \E p \in RowPayloads(row) : pkt = [type |-> "D", payload |-> p]
  /\ pc = "start" /\ n = 0 /\ i = 0 /\ pos = 1 /\ vals = Nothing

(* ParseDataRow is called: another type or a missing count is refused.     *)
Begin ==
  /\ pc = "start"
  /\ IF pkt.type # "D" \/ Len(pkt.payload) < 2
     THEN pc' = "done" /\ UNCHANGED <<n, pos, vals>>
     ELSE pc' = "row" /\ n' = Uint16(pkt.payload, 1) /\ pos' = 3 /\ vals' = <<>>
  /\ UNCHANGED <<pkt, row, i>>

(* Faulty variant: one field more than announced.                          *)
FieldFitsOneMore ==
  /\ i <= n
  /\ pos + 3 <= Len(pkt.payload)
  /\ pos + 3 + Int32(pkt.payload, pos) <= Len(pkt.payload)

(* A field remains and is all there.                                       *)
FieldFits ==
  /\ i < n
  /\ pos + 3 <= Len(pkt.payload)
  /\ pos + 3 + Int32(pkt.payload, pos) <= Len(pkt.payload)

(* Faulty variant: a NULL ends the row.                                    *)
FieldNullEnds ==
  LET l == Int32(pkt.payload, pos)
  IN  /\ pc = "row" /\ FieldFits
      /\ \/ l < 0 /\ pc' = "done" /\ UNCHANGED <<vals, pos>>
         \/ /\ l >= 0 /\ pc' = pc
            /\ vals' = Append(vals, SubSeq(pkt.payload, pos + 4, pos + 3 + l))
            /\ pos' = pos + 4 + l
      /\ i' = i + 1
      /\ UNCHANGED <<pkt, row, n>>

(* One iteration that does not leave the loop: a NULL or a value.          *)
Field ==
  LET l == Int32(pkt.payload, pos)
  IN  /\ pc = "row" /\ FieldFits
      /\ \/ l < 0 /\ vals' = vals /\ pos' = pos + 4
         \/ /\ l >= 0
            /\ vals' = Append(vals, SubSeq(pkt.payload, pos + 4, pos + 3 + l))
            /\ pos' = pos + 4 + l
      /\ i' = i + 1
      /\ UNCHANGED <<pkt, row, pc, n>>

(* The loop is left: no field remains, or the next one is not all there.   *)
Leave ==
  /\ pc = "row" /\ ~FieldFits
  /\ pc' = "done"
  /\ UNCHANGED <<pkt, row, n, i, pos, vals>>

Next == Begin \/ Field \/ Leave

Spec == Init /\ [][Next]_vars
-----------------------------------------------------------------------------
(* Type invariant of ParseDataRow: it stays inside the payload.            *)
TypeOK ==
  /\ pkt.type \in {"Q", "P", "B", "E", "Z", "D"} /\ pkt.payload \in Seq(Byte)
  /\ pc \in {"start", "row", "done"}
  /\ n \in 0 .. Base * Base - 1 /\ i \in 0 .. n
  /\ pos \in 1 .. Len(pkt.payload) + 1
  /\ vals = Nothing \/ vals \in Seq(Seq(Byte))

(* The text ExtractSQL gives to be checked is the one the server runs: for *)
(* a Parse message that ParseParse accepts, the text remembered for its    *)
(* executions (none when it is empty); for a simple query that is one      *)
(* terminated string, that string.                                         *)
SameText ==
  LET p == pkt.payload
      extracted == ExtractSQL(pkt)
      parsed == ParseParse(pkt)
  IN  /\ pkt.type = "P" /\ parsed # Nothing =>
           extracted = IF parsed[2] = <<>> THEN Nothing ELSE parsed[2]
      /\ pkt.type = "Q" /\ {k \in DOMAIN p : p[k] = 0} = {Len(p)} =>
           extracted \o <<0>> = p

(* ParseParse, ParseBind and ParseExecute invert the encoding of their     *)
(* strings: what they return, with its terminators, is how the payload     *)
(* begins, and they refuse only payloads with too few terminators.         *)
Decodes ==
  LET p == pkt.payload
      nuls == Cardinality({k \in DOMAIN p : p[k] = 0})
      Begins(s) == Len(s) <= Len(p) /\ SubSeq(p, 1, Len(s)) = s
      Pair(r) == IF r = Nothing THEN nuls < 2
                 ELSE NulFree(r[1]) /\ NulFree(r[2]) /\ Begins(r[1] \o <<0>> \o r[2] \o <<0>>)
      One(r) == IF r = Nothing THEN nuls < 1 ELSE NulFree(r) /\ Begins(r \o <<0>>)
  IN  /\ pkt.type = "P" => Pair(ParseParse(pkt))
      /\ pkt.type = "B" => Pair(ParseBind(pkt))
      /\ pkt.type = "E" => One(ParseExecute(pkt))

(* ParseDataRow returns the values of the row's columns in order, NULLs    *)
(* left out: all of them, or those announced and wholly in the payload.    *)
(* The k-th column is the value whose number is that of the columns up to  *)
(* it that are not NULL.                                                   *)
Whole == {k \in 0 .. Len(row) : k <= n /\ 2 + Len(Columns(row)[k]) <= Len(pkt.payload)}
NotNulls(r, k) == {j \in 1 .. k : r[j] # Null}
ValuesOf(v, r, k) ==
  /\ Len(v) = Cardinality(NotNulls(r, k))
  /\ \A j \in NotNulls(r, k) : v[Cardinality(NotNulls(r, j))] = r[j]
RowValues ==
  pc = "done" /\ pkt.type = "D" =>
    IF Len(pkt.payload) < 2 THEN vals = Nothing ELSE ValuesOf(vals, row, Max(Whole))

(***************************************************************************)
(* The strengthening that makes TypeOK and RowValues inductive: the loop   *)
(* is where the encoding of the column it has reached starts.              *)
(***************************************************************************)
LoopInv ==
  /\ pc = "start" => i = 0 /\ vals = Nothing
  /\ pc = "row" => pkt.type = "D" /\ Len(pkt.payload) >= 2 /\ vals \in Seq(Seq(Byte))
  /\ pc = "done" /\ pkt.type = "D" /\ Len(pkt.payload) < 2 => vals = Nothing
RowInv ==
  /\ pkt.type = "D" => row \in Rows /\ pkt.payload \in RowPayloads(row)
  /\ pc = "row" => /\ i \in 0 .. Len(row)
                   /\ pos = 3 + Len(Columns(row)[i])
                   /\ ValuesOf(vals, row, i)
IInv == TypeOK /\ LoopInv /\ RowInv /\ RowValues
=============================================================================
