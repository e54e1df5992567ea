---------------------------- MODULE Fingerprints ----------------------------
(***************************************************************************)
(* Tokens for opaque leaves of a text (src/content/content.go).  A text is *)
(* the sequence of its lines: no pattern matches across a newline.  What a *)
(* regular expression finds is a parameter, and the keyed, truncated hash  *)
(* is taken to be injective.                                               *)
(***************************************************************************)
EXTENDS Naturals, Sequences, SequencesExt

CONSTANTS
  FindAllString(_, _),  \* what the pattern of a class finds in a line, in order
  ToLower(_),           \* a match in lower case
  CredBlock(_),         \* a line looks like a credential
  Nil

ClassPattern(c, l) == [class |-> c, lower |-> l]

LeafPatterns == <<ClassPattern("uuid", TRUE), ClassPattern("email", TRUE), ClassPattern("jwt", FALSE),
                  ClassPattern("hexdigest", TRUE), ClassPattern("opaque", FALSE)>>

NewHasher(secret) == <<"dbfw-cdfc", secret>>

Token(key, leaf) == [class |-> leaf.class, sum |-> <<key, leaf.class, leaf.canon>>]

(* Faulty variant: no match is brought to lower case.                      *)
LeafAsFound(p, match) == [class |-> p.class, canon |-> match]

(* What of a match is told apart and hashed.                               *)
Leaf(p, match) == [class |-> p.class, canon |-> IF p.lower THEN ToLower(match) ELSE match]

(* The leaves of a text in the order they are met, pattern by pattern,     *)
(* each the first time only.                                               *)
Found(p, text) ==
  FlattenSeq([l \in DOMAIN text |->
    LET ms == FindAllString(p.class, text[l]) IN [k \in DOMAIN ms |-> Leaf(p, ms[k])]])

FirstsOnly(s) ==
  LET firsts == {k \in DOMAIN s : \A j \in 1 .. k - 1 : s[j] # s[k]}
      order == SetToSortSeq(firsts, <)
  IN  [k \in DOMAIN order |-> s[order[k]]]

Leaves(text) == FirstsOnly(FlattenSeq([k \in DOMAIN LeafPatterns |-> Found(LeafPatterns[k], text)]))

(* Longest first, in order of appearance among equals; and the cap.         *)
LongestFirst(s) ==
  LET Before(a, b) == \/ Len(s[a].canon) > Len(s[b].canon)
                      \/ Len(s[a].canon) = Len(s[b].canon) /\ a < b
      order == SetToSortSeq(DOMAIN s, Before)
  IN  [k \in DOMAIN order |-> s[order[k]]]

Capped(s, maxN) == IF maxN > 0 /\ Len(s) > maxN THEN SubSeq(s, 1, maxN) ELSE s

(* Faulty variant: the cap is applied before the sort.                     *)
KeptEarly(s, maxN) == LongestFirst(Capped(s, maxN))

(* The stable sort and the cap.                                            *)
Kept(s, maxN) == Capped(LongestFirst(s), maxN)

Fingerprint(key, text, maxN) ==
  IF text \in {<<>>, << <<>> >>} \/ \E l \in DOMAIN text : CredBlock(text[l]) THEN Nil
  ELSE LET kept == Kept(Leaves(text), maxN) IN [k \in DOMAIN kept |-> Token(key, kept[k])]

(* The values joined by newlines are a text with a line for each.          *)
FingerprintValues(key, values, maxN) ==
  IF values = <<>> THEN Nil ELSE Fingerprint(key, values, maxN)
=============================================================================
