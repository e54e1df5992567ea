---------------------------- MODULE ByteStrings ----------------------------
(***************************************************************************)
(* What the parsers do with byte strings: the search for a NUL or for a    *)
(* word, and little-endian numbers.  A byte has base values, 256 in the    *)
(* code.                                                                   *)
(***************************************************************************)
EXTENDS Integers, Sequences, FiniteSetsExt

(* The first NUL at off or later, or the place past the end.               *)
NulFrom(p, off) ==
  Min({k \in off .. Len(p) : p[k] = 0} \cup {IF off > Len(p) THEN off ELSE Len(p) + 1})

NulFree(s) == \A k \in DOMAIN s : s[k] # 0

(* bytes.Contains.                                                         *)
HasWord(p, word) == \E k \in 0 .. Len(p) - Len(word) : SubSeq(p, k + 1, k + Len(word)) = word

(* The number its k most significant of n bytes at off make up, and what   *)
(* is left of a number after k divisions.                                  *)
Highest(p, off, n, base) ==
  LET value[k \in 0 .. n] == IF k = 0 THEN 0 ELSE value[k - 1] * base + p[off + (n - k)] IN value
Quotients(u, n, base) ==
  LET rest[k \in 0 .. n] == IF k = 0 THEN u ELSE rest[k - 1] \div base IN rest

(* The n bytes at off as a number, and the n bytes of a number.            *)
Little(p, off, n, base) == Highest(p, off, n, base)[n]
PutLittle(u, n, base) ==
  LET rest == Quotients(u, n, base) IN [k \in 1 .. n |-> rest[k - 1] % base]

Zeros(n) == [k \in 1 .. n |-> 0]
=============================================================================
