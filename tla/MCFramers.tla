----------------------------- MODULE MCFramers -----------------------------
(***************************************************************************)
(* Bytes of one bit, so lengths are below 16 and below 8 when signed.  The *)
(* peer sends up to three messages of any announced length, the last one   *)
(* cut anywhere; bodies are filled so that an SSLRequest can appear.       *)
(***************************************************************************)
EXTENDS Framers

MCSSLCode == <<1, 0, 1, 1>>

Digits(n) == <<n \div 8, (n \div 4) % 2, (n \div 2) % 2, n % 2>>
Reversed(d) == <<d[4], d[3], d[2], d[1]>>
Filler(n) == [i \in 1 .. n |-> IF i \in 1 .. 4 THEN MCSSLCode[i] ELSE i % 2]
Body(n) == Filler(IF n < 0 THEN 0 ELSE n)

Startup(n) == Digits(n) \o Body(n - 4)
Message(t, n) == <<t>> \o Digits(n) \o Body(n - 4)
Mongo(n, r) == Reversed(Digits(n)) \o <<r, 1>> \o Body(n - 6)

Cuts(w) == {SubSeq(w, 1, n) : n \in 0 .. Len(w)}

PostgresWires ==
  {Startup(a) \o Message(t, b) : a \in 0 .. 15, t \in {0, 1}, b \in {3, 4, 6, 7, 12}}
  \cup {Startup(8) \o Startup(a) \o Message(1, b) : a \in {4, 5, 8}, b \in {4, 6}}
  \cup {Digits(8) \o <<1, 0, 1, 0>> \o m : m \in {Message(0, 5), Startup(9)}}
MongoWires == {Mongo(a, r) \o Mongo(b, 0) : a \in 0 .. 15, r \in {0, 1}, b \in {5, 6, 7, 9}}

MCStreams ==
  UNION {{<<"postgres", c>> : c \in Cuts(w)} : w \in PostgresWires}
  \cup UNION {{<<"mongodb", c>> : c \in Cuts(w)} : w \in MongoWires}
=============================================================================
