---------------------------- MODULE ResultTokens ----------------------------
(***************************************************************************)
(* From a row of a PostgreSQL answer to the tokens that correlate it with  *)
(* an HTTP body: ParseDataRow, then FingerprintValues in the agent and     *)
(* Fingerprint in the gateway, which shares the secret.                    *)
(***************************************************************************)
EXTENDS PostgresQuery, Fingerprints

CONSTANTS Bodies, Caps, Secret

ASSUME TokensAssumption == Caps \subseteq Nat /\ Bodies \subseteq Seq(Seq(Byte))

VARIABLES body, maxN, rowTokens, bodyTokens

tokenVars == <<body, maxN, rowTokens, bodyTokens>>

TokenInit ==
  /\ Init
  /\ body = <<>> /\ maxN = 0
  /\ rowTokens = Nothing /\ bodyTokens = Nothing

Parse == Next /\ UNCHANGED tokenVars

(* Agent and gateway fingerprint what they saw; the proxy skips a row      *)
(* ParseDataRow refused.                                                   *)
Fingerprinted ==
  /\ pc = "done" /\ vals # Nothing /\ bodyTokens = Nothing
  /\ body' \in Bodies /\ maxN' \in Caps
  /\ rowTokens' = FingerprintValues(NewHasher(Secret), vals, maxN')
  /\ bodyTokens' = Fingerprint(NewHasher(Secret), body', maxN')
  /\ UNCHANGED vars

Finished ==
  /\ pc = "done" /\ (vals = Nothing \/ bodyTokens # Nothing)
  /\ UNCHANGED <<vars, tokenVars>>

TokenNext == Parse \/ Fingerprinted \/ Finished

TokenSpec == TokenInit /\ [][TokenNext]_<<vars, tokenVars>>
-----------------------------------------------------------------------------
NotNull(c) == c # Null

(* The columns that reached the agent, and the leaves of a text by their   *)
(* definition: every match, canonical.                                     *)
Sent == SelectSeq(SubSeq(row, 1, Max(Whole)), NotNull)
LeafSet(text) ==
  UNION {{Leaf(p, m) : m \in UNION {Range(FindAllString(p.class, text[l])) : l \in DOMAIN text}} :
           p \in Range(LeafPatterns)}
Blocked(text) == \E l \in DOMAIN text : CredBlock(text[l])
TokenOf(leaf) == Token(NewHasher(Secret), leaf)

(* Fingerprint gives the tokens of a text's longest distinct leaves,       *)
(* longest first, no repetition using up the cap, and none for a text that *)
(* is empty or looks like a credential.                                    *)
KeepsLongest ==
  bodyTokens # Nothing =>
    LET all == LeafSet(body)
        kept == {leaf \in all : TokenOf(leaf) \in Range(bodyTokens)}
        Size(k) == Len(bodyTokens[k].sum[3])
    IN  IF Blocked(body) \/ body \in {<<>>, << <<>> >>} THEN bodyTokens = Nil
        ELSE /\ Range(bodyTokens) = {TokenOf(leaf) : leaf \in kept}
             /\ Len(bodyTokens) = Cardinality(kept)
             /\ Cardinality(kept) = IF maxN = 0 THEN Cardinality(all) ELSE Min({maxN, Cardinality(all)})
             /\ \A leaf \in all \ kept, k \in kept : Len(leaf.canon) <= Len(k.canon)
             /\ \A j, k \in DOMAIN bodyTokens : j < k => Size(j) >= Size(k)

(* A value of the row that appears in the body is correlated: it gives     *)
(* both sides one token, in any letter case if it is a uuid, an email or a *)
(* hexdigest (patterns: "canonicalize match to lowercase (must match the   *)
(* gateway side)"), unless a credential is near it or the cap leaves room  *)
(* only for others as long.                                                *)
Room(leaf, text) ==
  maxN = 0 \/ Cardinality({o \in LeafSet(text) : Len(o.canon) >= Len(leaf.canon)}) <= maxN
SameValue(a, b) == ToLower(a) = ToLower(b)
Correlates ==
  bodyTokens # Nothing /\ ~Blocked(Sent) /\ ~Blocked(body) =>
    \A a \in LeafSet(Sent), b \in LeafSet(body) :
      (/\ a.class = b.class /\ (a = b \/ a.class \in {"uuid", "email", "hexdigest"})
       /\ SameValue(a.canon, b.canon) /\ Room(a, Sent) /\ Room(b, body))
      => \E t \in Range(rowTokens) \cap Range(bodyTokens) :
           t.class = a.class /\ SameValue(t.sum[3], a.canon)
=============================================================================
