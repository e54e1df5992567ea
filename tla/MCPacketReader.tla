--------------------------- MODULE MCPacketReader ---------------------------
(***************************************************************************)
(* Bytes of one bit: headers of four bits, at most seven payload bits to a *)
(* fragment.  The peer sends up to three fragments, empty, short or full,  *)
(* and closes at any point of them; the prefix ends inside a header, at    *)
(* its end, or inside a body.                                              *)
(***************************************************************************)
EXTENDS PacketReader

Digits(n) == <<n % 2, (n \div 2) % 2, n \div 4>>
Fragment(n, seq) == Digits(n) \o <<seq>> \o [i \in 1 .. n |-> i % 2]

Fragments == {Fragment(n, s) : n \in {0, 2, 7}, s \in {0, 1}}
Whole == Fragments \cup {f \o g : f, g \in Fragments}
         \cup {Fragment(7, 0) \o Fragment(7, 1) \o f : f \in Fragments}

MCPrefixes == {<<>>, SubSeq(Fragment(7, 0), 1, 2), SubSeq(Fragment(7, 0), 1, 4),
               SubSeq(Fragment(7, 0), 1, 6)}
MCStreams == UNION {{SubSeq(w, 1, n) : n \in 0 .. Len(w)} : w \in Whole}
             \cup UNION {{SubSeq(w, 7, n) : n \in 6 .. Len(w)} : w \in Whole}
=============================================================================
