----------------------------- MODULE AgentProofs -----------------------------
(***************************************************************************)
(* Proofs about the agent for any publications, rules, queries and number  *)
(* of connections: what the console publishes is what is enforced, events  *)
(* tell the truth while the mode changes, and none is received twice.      *)
(***************************************************************************)
EXTENDS Agent, NumberLemmas, SequenceTheorems

(* A converted rule is a rule (convertRules).                              *)
LEMMA ConvertRuleType ==
  ASSUME NEW ar \in ApiRule
  PROVE  ConvertRule(ar) \in Rule
<1>1. Lower[ar.action] \in Actions
  BY AgentAssumption DEF ApiRule
<1> QED
  BY <1>1 DEF ConvertRule, Rule, ApiRule

(* What the loop of convertRules holds after each iteration.               *)
LEMMA ConvertedDef ==
  ASSUME NEW pub \in Seq(ApiRule)
  PROVE  /\ Converted(pub) \in [0 .. Len(pub) -> Seq(Rule)]
         /\ Converted(pub)[0] = <<>>
         /\ \A i \in 1 .. Len(pub) :
              Converted(pub)[i] = IF pub[i].enabled
                                  THEN Append(Converted(pub)[i - 1], ConvertRule(pub[i]))
                                  ELSE Converted(pub)[i - 1]
<1> DEFINE n == Len(pub)
           Next1(i, s) == IF pub[i].enabled THEN Append(s, ConvertRule(pub[i])) ELSE s
           step == [i \in 1 .. n |-> [s \in Seq(Rule) |-> Next1(i, s)]]
           Is(f) == f = [i \in 0 .. n |-> IF i = 0 THEN <<>> ELSE Next1(i, f[i - 1])]
<1>0. n \in Nat /\ <<>> \in Seq(Rule)
  BY LenProperties, EmptySeq
<1>1. ASSUME NEW i \in 1 .. n, NEW s \in Seq(Rule) PROVE Next1(i, s) \in Seq(Rule)
  <2>1. pub[i] \in ApiRule
    BY ElementOfSeq
  <2>2. ConvertRule(pub[i]) \in Rule
    BY <2>1, ConvertRuleType
  <2> QED
    BY <2>2, AppendProperties
<1>2. step \in [1 .. n -> [Seq(Rule) -> Seq(Rule)]]
  BY <1>1
<1>3. \E f : Is(f)
  <2>0. \E f \in [0 .. n -> Seq(Rule)] :
          f[0] = <<>> /\ \A i \in 1 .. n : f[i] = step[i][f[i - 1]]
    <3> DEFINE start == <<>>
               S == Seq(Rule)
    <3>1. start \in S /\ n \in Nat /\ step \in [1 .. n -> [S -> S]]
      BY <1>0, <1>2
    <3> HIDE DEF n, step, start, S
    <3>2. \E f : IsLoop(f, n, S, start, step)
      BY <3>1, LoopExists
    <3> QED
      BY <3>2 DEF IsLoop, start, S
  <2>1. PICK f \in [0 .. n -> Seq(Rule)] :
          f[0] = <<>> /\ \A i \in 1 .. n : f[i] = step[i][f[i - 1]]
    BY <2>0
  <2>2. ASSUME NEW i \in 1 .. n PROVE f[i] = Next1(i, f[i - 1])
    <3>1. i - 1 \in 0 .. n
      BY <1>0
    <3>2. f[i - 1] \in Seq(Rule)
      BY <2>1, <3>1
    <3> QED
      BY <2>1, <3>2
  <2>3. Is(f)
    <3> HIDE DEF Next1
    <3> QED
      BY <1>0, <2>1, <2>2
  <2> QED
    BY <2>3
<1>4. Converted(pub) = CHOOSE f : Is(f)
  BY DEF Converted
<1>5. Is(Converted(pub))
  <2> HIDE DEF Is
  <2> QED
    BY <1>3, <1>4
<1> DEFINE out == Converted(pub)
<1> HIDE DEF out
<1>6. out = [i \in 0 .. n |-> IF i = 0 THEN <<>> ELSE Next1(i, out[i - 1])]
  BY <1>5 DEF out
<1>7. /\ DOMAIN out = 0 .. n /\ out[0] = <<>>
      /\ \A i \in 1 .. n : out[i] = Next1(i, out[i - 1])
  <2> HIDE DEF Next1
  <2> QED
    BY <1>0, <1>6
<1>8. \A i \in 0 .. n : out[i] \in Seq(Rule)
  <2> HIDE DEF n, Next1
  <2> DEFINE good == {i \in 0 .. n : out[i] \in Seq(Rule)}
  <2>0. out[0] \in Seq(Rule)
    BY <1>0, <1>7, Zenon
  <2>1. 0 \in good
    BY <1>0, <2>0
  <2>2. ASSUME NEW i \in 1 .. n, i - 1 \in good PROVE i \in good
    BY <1>1, <1>7, <2>2
  <2>3. \A i \in 1 .. n : i - 1 \in good => i \in good
    BY <2>2
  <2>4. \A i \in 0 .. n : i \in good
    <3> HIDE DEF good
    <3> QED
      BY <1>0, <2>1, <2>3, LoopInduction
  <2> QED
    BY <2>4
<1>9. out \in [0 .. n -> Seq(Rule)]
  BY <1>6, <1>7, <1>8
<1> QED
  BY <1>7, <1>9 DEF out

(* The list given to Reload is a rule list (convertRules).                 *)
LEMMA ConvertRulesType ==
  ASSUME NEW pub \in Seq(ApiRule)
  PROVE  ConvertRules(pub) \in Seq(Rule)
<1>1. Len(pub) \in 0 .. Len(pub)
  BY LenProperties
<1> QED
  BY <1>1, ConvertedDef DEF ConvertRules

(* A rule the console means as a match matches once converted, and no      *)
(* other does (convertRules and Rule.matches).                             *)
LEMMA ConvertedMatches ==
  ASSUME NEW ar \in ApiRule, ar.enabled, ar.pattern \notin BadPatterns, NEW q
  PROVE  Matches(ConvertRule(ar), q) <=> Applies(ar, q)
<1>1. Admits({}, q.user) /\ Admits({}, q.database)
  BY DEF Admits
<1>2. CASE ar.pattern \in Patterns
  <2>1. ConvertRule(ar).pattern = ar.pattern /\ ar.pattern # Nil /\ ar.pattern # NoPattern
    BY <1>2, RulesAssumption, AgentAssumption DEF ConvertRule
  <2> QED
    BY <1>1, <2>1 DEF Matches, Applies, ConvertRule
<1>3. CASE ar.pattern \notin Patterns
  <2>1. ar.pattern = NoPattern
    BY <1>3 DEF ApiRule
  <2>2. ConvertRule(ar).pattern = Nil
    BY <1>3 DEF ConvertRule
  <2> QED
    BY <1>1, <2>1, <2>2 DEF Matches, Applies, ConvertRule
<1> QED
  BY <1>2, <1>3

(* The decision of a list is that of its first matching rule (Evaluate).   *)
LEMMA FirstMatchIs ==
  ASSUME NEW rs \in Seq(Rule), NEW q, NEW m \in 1 .. Len(rs),
         Matches(rs[m], q), \A j \in 1 .. m - 1 : ~Matches(rs[j], q)
  PROVE  FirstMatch(rs, q) = DecisionOf(rs[m])
<1>1. DOMAIN rs = 1 .. Len(rs) /\ Len(rs) \in Nat
  BY LenProperties
<1>2. m \in Matching(rs, q) /\ \A j \in Matching(rs, q) : j \in Nat /\ m <= j
  BY <1>1 DEF Matching
<1>3. \A j \in Matching(rs, q) : IsFirst(j, rs, q) <=> j = m
  BY <1>1, <1>2 DEF IsFirst
<1>4. (CHOOSE j \in Matching(rs, q) : IsFirst(j, rs, q)) = m
  BY <1>2, <1>3
<1> QED
  BY <1>2, <1>4 DEF FirstMatch

(***************************************************************************)
(* Enforcing a converted publication is enforcing what the console means:  *)
(* by induction over the loop, the rules converted so far decide as the    *)
(* rules read so far (convertRules and Evaluate).                          *)
(***************************************************************************)
LEMMA ConversionKeepsIntent ==
  ASSUME NEW pub \in Seq(ApiRule), Compilable(pub), NEW q
  PROVE  Intended(pub, q, FirstMatch(ConvertRules(pub), q))
<1> DEFINE n == Len(pub)
           out == Converted(pub)
           Meant(k) == Applies(pub[k], q) /\ \A j \in 1 .. k - 1 : ~Applies(pub[j], q)
           Hits(i, m) == Matches(out[i][m], q) /\ \A j \in 1 .. m - 1 : ~Matches(out[i][j], q)
           Nothing(i) == /\ \A k \in 1 .. i : ~Applies(pub[k], q)
                         /\ \A m \in 1 .. Len(out[i]) : ~Matches(out[i][m], q)
           Something(i) ==
             \E k \in 1 .. i, m \in 1 .. Len(out[i]) :
               Meant(k) /\ Hits(i, m)
                 /\ DecisionOf(out[i][m]) = [action |-> Lower[pub[k].action], rule |-> pub[k].name]
           good == {i \in 0 .. n : Nothing(i) \/ Something(i)}
<1>0. n \in Nat /\ DOMAIN pub = 1 .. n
  BY LenProperties
<1>1. /\ \A i \in 0 .. n : out[i] \in Seq(Rule)
      /\ out[0] = <<>>
      /\ \A i \in 1 .. n : out[i] = IF pub[i].enabled
                                    THEN Append(out[i - 1], ConvertRule(pub[i]))
                                    ELSE out[i - 1]
  BY ConvertedDef
<1> HIDE DEF n, out
<1>2. Len(out[0]) = 0
  BY <1>1, EmptySeq
<1>3. 0 \in good
  BY <1>0, <1>2
<1>4. ASSUME NEW i \in 1 .. n, i - 1 \in good PROVE i \in good
  <2>0. i - 1 \in 0 .. n /\ i \in 0 .. n /\ i \in Nat
    BY <1>0
  <2>1. pub[i] \in ApiRule
    BY <1>0, ElementOfSeq DEF n
  <2>2. out[i - 1] \in Seq(Rule) /\ Len(out[i - 1]) \in Nat
    BY <1>1, <2>0, LenProperties
  <2>3. CASE ~pub[i].enabled
    <3>1. out[i] = out[i - 1]
      BY <1>1, <2>3
    <3>2. ~Applies(pub[i], q)
      BY <2>3 DEF Applies
    <3>3. Nothing(i - 1) => Nothing(i)
      BY <2>0, <3>1, <3>2
    <3>4. Something(i - 1) => Something(i)
      BY <2>0, <3>1
    <3> QED
      BY <1>4, <2>0, <3>3, <3>4
  <2>4. CASE pub[i].enabled
    <3> DEFINE l == Len(out[i - 1])
               r == ConvertRule(pub[i])
    <3>1. out[i] = Append(out[i - 1], r)
      BY <1>1, <2>4
    <3>2. r \in Rule
      BY <2>1, ConvertRuleType
    <3>3. /\ Len(out[i]) = l + 1 /\ out[i][l + 1] = r
          /\ \A m \in 1 .. l : out[i][m] = out[i - 1][m]
      BY <2>2, <3>1, <3>2, AppendProperties
    <3>4. Matches(r, q) <=> Applies(pub[i], q)
      BY <1>0, <2>1, <2>4, ConvertedMatches DEF Compilable
    <3>5. DecisionOf(r) = [action |-> Lower[pub[i].action], rule |-> pub[i].name]
      BY DEF DecisionOf, ConvertRule
    <3> HIDE DEF l, r
    <3>6. l \in Nat
      BY <2>2 DEF l
    <3>7. ASSUME Something(i - 1) PROVE Something(i)
      <4>1. PICK k \in 1 .. i - 1, m \in 1 .. l :
              Meant(k) /\ Hits(i - 1, m)
                /\ DecisionOf(out[i - 1][m]) = [action |-> Lower[pub[k].action], rule |-> pub[k].name]
        BY <3>7 DEF l
      <4>2. k \in 1 .. i /\ m \in 1 .. Len(out[i]) /\ out[i][m] = out[i - 1][m]
            /\ \A j \in 1 .. m - 1 : out[i][j] = out[i - 1][j]
        BY <2>0, <3>3, <3>6, <4>1
      <4>3. Hits(i, m)
        BY <4>1, <4>2
      <4> QED
        BY <4>1, <4>2, <4>3
    <3>8. ASSUME Nothing(i - 1), Applies(pub[i], q) PROVE Something(i)
      <4>1. Meant(i)
        BY <2>0, <3>8
      <4>2. Hits(i, l + 1)
        BY <3>3, <3>4, <3>6, <3>8 DEF l
      <4>3. l + 1 \in 1 .. Len(out[i]) /\ i \in 1 .. i
        BY <2>0, <3>3, <3>6
      <4> QED
        BY <3>3, <3>5, <4>1, <4>2, <4>3
    <3>9. ASSUME Nothing(i - 1), ~Applies(pub[i], q) PROVE Nothing(i)
      <4>1. \A k \in 1 .. i : k \in 1 .. i - 1 \/ k = i
        BY <2>0
      <4>2. \A m \in 1 .. Len(out[i]) : m \in 1 .. l \/ m = l + 1
        BY <3>3, <3>6
      <4> QED
        BY <3>3, <3>4, <3>9, <4>1, <4>2 DEF l
    <3> QED
      BY <1>4, <2>0, <3>7, <3>8, <3>9
  <2> QED
    BY <2>3, <2>4
<1>5. n \in good
  <2>1. \A i \in 1 .. n : i - 1 \in good => i \in good
    BY <1>4
  <2> HIDE DEF good
  <2>2. \A i \in 0 .. n : i \in good
    BY <1>0, <1>3, <2>1, LoopInduction
  <2> QED
    BY <1>0, <2>2
<1>6. ConvertRules(pub) = out[n] /\ out[n] \in Seq(Rule) /\ Len(out[n]) \in Nat
  BY <1>0, <1>1, LenProperties DEF ConvertRules, out, n
<1>7. CASE Nothing(n)
  <2>1. DOMAIN out[n] = 1 .. Len(out[n])
    BY <1>6, LenProperties
  <2>2. Matching(out[n], q) = {}
    BY <1>7, <2>1 DEF Matching
  <2>3. FirstMatch(out[n], q) = DefaultAllow
    BY <2>2 DEF FirstMatch
  <2> QED
    BY <1>0, <1>6, <1>7, <2>3 DEF Intended
<1>8. CASE Something(n)
  <2>1. PICK k \in 1 .. n, m \in 1 .. Len(out[n]) :
          Meant(k) /\ Hits(n, m)
            /\ DecisionOf(out[n][m]) = [action |-> Lower[pub[k].action], rule |-> pub[k].name]
    BY <1>8
  <2>2. FirstMatch(out[n], q) = DecisionOf(out[n][m])
    BY <1>6, <2>1, FirstMatchIs
  <2> QED
    BY <1>0, <1>6, <2>1, <2>2 DEF Intended
<1> QED
  BY <1>5, <1>7, <1>8

(* Evaluate always has a decision (the loop and the statement after it).   *)
LEMMA FirstMatchType ==
  ASSUME NEW rs \in Seq(Rule), NEW q
  PROVE  FirstMatch(rs, q) \in Decision
<1>1. DOMAIN rs = 1 .. Len(rs) /\ Len(rs) \in Nat
  BY LenProperties
<1>2. CASE Matching(rs, q) = {}
  BY <1>2, RulesAssumption DEF FirstMatch, DefaultAllow, Decision
<1>3. CASE Matching(rs, q) # {}
  <2>1. Matching(rs, q) \subseteq Nat
    BY <1>1 DEF Matching
  <2>2. \E k \in Matching(rs, q) : \A j \in Matching(rs, q) : k <= j
    BY <1>3, <2>1, SmallestOf
  <2>3. PICK k \in Matching(rs, q) : \A j \in Matching(rs, q) : k <= j
    BY <2>2
  <2>4. k \in 1 .. Len(rs) /\ Matches(rs[k], q) /\ \A j \in 1 .. k - 1 : ~Matches(rs[j], q)
    BY <1>1, <2>3 DEF Matching
  <2>5. FirstMatch(rs, q) = DecisionOf(rs[k]) /\ rs[k] \in Rule
    BY <2>4, FirstMatchIs, ElementOfSeq
  <2> QED
    BY <2>5 DEF DecisionOf, Rule, Decision
<1> QED
  BY <1>2, <1>3

(* Every publication is a list of API rules.                               *)
LEMMA PublicationType ==
  ASSUME NEW k \in 1 .. Len(Publications)
  PROVE  Publications[k] \in Seq(ApiRule)
BY AgentAssumption, ElementOfSeq

LEMMA IInvInit == Init => IInv
<1> SUFFICES ASSUME Init PROVE IInv
  OBVIOUS
<1>1. TypeOK
  <2>1. (CHOOSE q \in Queries : TRUE) \in Queries
    BY AgentAssumption
  <2>2. DefaultAllow \in Decision
    BY RulesAssumption DEF DefaultAllow, Decision
  <2>3. Len(Publications) \in Nat /\ MaxSeq \in Nat
    BY AgentAssumption, LenProperties
  <2>4. /\ pc \in [Conns -> {"idle", "level", "push"}] /\ query \in [Conns -> Queries]
        /\ dec \in [Conns -> Decision] /\ level \in [Conns -> Levels]
        /\ tapAtCall \in [Conns -> BOOLEAN] /\ steady \in [Conns -> BOOLEAN]
    BY <2>1, <2>2 DEF Init, Levels
  <2>5. seq \in [Conns -> 0 .. MaxSeq] /\ received \in [Conns \X (1 .. MaxSeq) -> Nat]
    BY <2>3 DEF Init
  <2>6. published \in 0 .. Len(Publications) /\ {body, version} \subseteq 0 .. published
    BY <2>3 DEF Init
  <2> QED
    BY <2>4, <2>5, <2>6, AgentAssumption DEF Init, TypeOK
<1>2. FeedInv /\ EnforcesIntent /\ ModeInv /\ TruthfulEvents
  BY DEF Init, FeedInv, EnforcesIntent, ModeInv, TruthfulEvents
<1>3. PushInv /\ AtMostOnce
  BY DEF Init, PushInv, AtMostOnce
<1> QED
  BY <1>1, <1>2, <1>3 DEF IInv

(* Every step of the console, the client and the connections keeps the     *)
(* types: what is converted and decided are rules and decisions.           *)
LEMMA TypeStep ==
  ASSUME TypeOK, FeedInv, PushInv, [Next]_vars
  PROVE  TypeOK'
<1>0. Len(Publications) \in Nat /\ MaxSeq \in Nat
  BY AgentAssumption, LenProperties
<1> USE DEF TypeOK, feedVars, modeVars, callVars, eventVars
<1>1. CASE Publish
  BY <1>0, <1>1 DEF Publish
<1>2. CASE PollStart
  BY <1>2 DEF PollStart
<1>3. CASE PollAnswer
  BY <1>0, <1>3 DEF PollAnswer
<1>4. CASE PollApply
  <2>1. body \in 1 .. Len(Publications) /\ body \in 0 .. published
    BY <1>0, <1>4 DEF PollApply, FeedInv
  <2>2. rules' \in Seq(Rule)
    BY <1>4, <2>1, PublicationType, ConvertRulesType DEF PollApply
  <2> QED
    BY <1>0, <1>4, <2>1, <2>2 DEF PollApply
<1>5. CASE PollFail
  BY <1>0, <1>5 DEF PollFail
<1>6. ASSUME NEW m \in Modes, SetModeBegin(m) PROVE TypeOK'
  BY <1>6 DEF SetModeBegin
<1>7. CASE SetModeEnd
  <2>1. PICK m \in setting : /\ agentType' = IF m.type = "" THEN agentType ELSE m.type
                             /\ monitorOnly' = m.monitor /\ setting' = {}
                             /\ UNCHANGED <<feedVars, callVars, eventVars, decisions>>
    BY <1>7 DEF SetModeEnd
  <2>2. m.type \in {"", "proxy", "tap"} /\ m.monitor \in BOOLEAN
    BY <2>1, AgentAssumption
  <2> QED
    BY <2>1, <2>2
<1>8. ASSUME NEW c \in Conns, NEW q \in Queries, Evaluate(c, q) PROVE TypeOK'
  <2> DEFINE d == FirstMatch(rules, q)
  <2>1. d \in Decision
    BY FirstMatchType
  <2> HIDE DEF d
  <2>2. /\ seq[c] < MaxSeq /\ seq' = [seq EXCEPT ![c] = @ + 1]
        /\ query' = [query EXCEPT ![c] = q] /\ dec' = [dec EXCEPT ![c] = d]
        /\ decisions' = decisions \cup {[version |-> version, conn |-> c, seq |-> seq[c] + 1,
                                         query |-> q, dec |-> d]}
        /\ pc' = [pc EXCEPT ![c] = IF d.action = "ignore" THEN "idle" ELSE "level"]
        /\ tapAtCall' = [tapAtCall EXCEPT ![c] = monitorOnly]
        /\ steady' = [steady EXCEPT ![c] = setting = {}]
        /\ UNCHANGED <<feedVars, modeVars, level, eventVars>>
    BY <1>8 DEF Evaluate, d
  <2>3. seq' \in [Conns -> 0 .. MaxSeq]
    BY <1>0, <2>2
  <2>4. pc' \in [Conns -> {"idle", "level", "push"}] /\ query' \in [Conns -> Queries]
        /\ dec' \in [Conns -> Decision]
    BY <2>1, <2>2
  <2>5. tapAtCall' \in [Conns -> BOOLEAN] /\ steady' \in [Conns -> BOOLEAN]
    BY <2>2
  <2>6. decisions' \subseteq [version : 0 .. published, conn : Conns, seq : 1 .. MaxSeq,
                              query : Queries, dec : Decision]
    <3>1. seq[c] + 1 \in 1 .. MaxSeq
      BY <1>0, <2>2
    <3> QED
      BY <2>1, <2>2, <3>1
  <2> QED
    BY <2>2, <2>3, <2>4, <2>5, <2>6
<1>9. ASSUME NEW c \in Conns, SinkLevel(c) PROVE TypeOK'
  BY <1>9 DEF SinkLevel, LevelOf, Levels
<1>10. ASSUME NEW c \in Conns, SinkPush(c) PROVE TypeOK'
  <2>1. PICK t \in TypeReads :
          pushes' = pushes \cup {[conn |-> c, seq |-> seq[c], level |-> level[c], type |-> t,
                                  action |-> dec[c].action, tap |-> tapAtCall[c],
                                  steady |-> steady[c], sent |-> FALSE]}
    BY <1>10 DEF SinkPush
  <2>2. t \in {"proxy", "tap", "torn"}
    <3>1. \A m \in setting : m.type \in {"", "proxy", "tap"}
      BY AgentAssumption
    <3> QED
      BY <2>1, <3>1 DEF TypeReads
  <2>3. seq[c] \in 1 .. MaxSeq
    <3>1. pc[c] # "idle" /\ seq[c] \in 0 .. MaxSeq
      BY <1>10 DEF SinkPush
    <3>2. seq[c] > 0
      BY <3>1 DEF PushInv
    <3> QED
      BY <1>0, <3>1, <3>2
  <2>4. dec[c].action \in Actions /\ level[c] \in Levels
        /\ tapAtCall[c] \in BOOLEAN /\ steady[c] \in BOOLEAN
    BY DEF Decision
  <2>5. [conn |-> c, seq |-> seq[c], level |-> level[c], type |-> t,
         action |-> dec[c].action, tap |-> tapAtCall[c],
         steady |-> steady[c], sent |-> FALSE] \in Push
    BY <2>2, <2>3, <2>4 DEF Push
  <2>6. pushes' \subseteq Push
    BY <2>1, <2>5, Zenon
  <2>7. pc' = [pc EXCEPT ![c] = "idle"]
        /\ UNCHANGED <<feedVars, modeVars, query, dec, seq, level, tapAtCall, steady, received, decisions>>
    BY <1>10 DEF SinkPush
  <2> QED
    BY <2>6, <2>7
<1>11. ASSUME NEW e \in pushes, PushArrives(e) PROVE TypeOK'
  <2>1. e \in Push
    OBVIOUS
  <2>2. [e EXCEPT !.sent = TRUE] \in Push /\ e.conn \in Conns /\ e.seq \in 1 .. MaxSeq
    BY <2>1 DEF Push
  <2>3. pushes' \subseteq Push
    BY <1>11, <2>2 DEF PushArrives
  <2>4. received' \in [Conns \X (1 .. MaxSeq) -> Nat]
    BY <1>11, <2>2 DEF PushArrives
  <2> QED
    BY <1>11, <2>3, <2>4 DEF PushArrives
<1>12. ASSUME NEW e \in pushes, PushEnds(e) PROVE TypeOK'
  BY <1>12 DEF PushEnds
<1>13. CASE UNCHANGED vars
  BY <1>13 DEF vars
<1> QED
  BY <1>1, <1>2, <1>3, <1>4, <1>5, <1>6, <1>7, <1>8, <1>9, <1>10, <1>11, <1>12, <1>13 DEF Next

(* Only an answered poll changes the list, to a whole publication, and     *)
(* only Evaluate decides (fetchRules, Reload and Evaluate).                *)
LEMMA FeedStep ==
  ASSUME TypeOK, FeedInv, EnforcesIntent, [Next]_vars
  PROVE  FeedInv' /\ EnforcesIntent'
<1>0. Len(Publications) \in Nat
  BY AgentAssumption, LenProperties
<1> USE DEF feedVars, modeVars, callVars, eventVars
<1>1. CASE PollAnswer
  BY <1>1 DEF PollAnswer, FeedInv, EnforcesIntent, TypeOK
<1>2. CASE PollApply
  BY <1>2 DEF PollApply, FeedInv, EnforcesIntent
<1>3. CASE PollStart \/ PollFail \/ Publish
  BY <1>3 DEF PollStart, PollFail, Publish, FeedInv, EnforcesIntent
<1>4. ASSUME NEW c \in Conns, NEW q \in Queries, Evaluate(c, q)
      PROVE  FeedInv' /\ EnforcesIntent'
  <2> DEFINE d == FirstMatch(rules, q)
  <2>1. /\ UNCHANGED <<poll, body, rules, version>>
        /\ decisions' = decisions \cup {[version |-> version, conn |-> c, seq |-> seq[c] + 1,
                                         query |-> q, dec |-> d]}
    BY <1>4 DEF Evaluate
  <2>2. ASSUME version > 0, Compilable(Publications[version])
        PROVE  Intended(Publications[version], q, d)
    <3>1. version \in 1 .. Len(Publications)
      BY <1>0, <2>2 DEF TypeOK
    <3>2. Publications[version] \in Seq(ApiRule)
      BY <3>1, PublicationType
    <3>3. rules = ConvertRules(Publications[version])
      BY <2>2 DEF FeedInv
    <3> QED
      BY <2>2, <3>2, <3>3, ConversionKeepsIntent
  <2> HIDE DEF d
  <2>3. EnforcesIntent'
    BY <2>1, <2>2 DEF EnforcesIntent
  <2> QED
    BY <2>1, <2>3 DEF FeedInv
<1>5. ASSUME UNCHANGED <<poll, body, rules, version, decisions>>
      PROVE  FeedInv' /\ EnforcesIntent'
  BY <1>5 DEF FeedInv, EnforcesIntent
<1>6. CASE UNCHANGED vars
  BY <1>5, <1>6 DEF vars
<1>7. ASSUME \/ \E m \in Modes : SetModeBegin(m)
             \/ SetModeEnd
             \/ \E c \in Conns : SinkLevel(c) \/ SinkPush(c)
             \/ \E e \in pushes : PushArrives(e) \/ PushEnds(e)
      PROVE  UNCHANGED <<poll, body, rules, version, decisions>>
  BY <1>7 DEF SetModeBegin, SetModeEnd, SinkLevel, SinkPush, PushArrives, PushEnds
<1> QED
  BY <1>1, <1>2, <1>3, <1>4, <1>5, <1>6, <1>7 DEF Next

(* The sink reads the mode of its call unless a SetMode is in progress     *)
(* (SetMode and Sink).                                                     *)
LEMMA ModeStep ==
  ASSUME TypeOK, ModeInv, TruthfulEvents, [Next]_vars
  PROVE  ModeInv' /\ TruthfulEvents'
<1> USE DEF feedVars, modeVars, callVars, eventVars
<1>1. ASSUME UNCHANGED <<setting, monitorOnly, pc, dec, level, tapAtCall, steady, pushes>>
      PROVE  ModeInv' /\ TruthfulEvents'
  BY <1>1 DEF ModeInv, TruthfulEvents
<1>2. ASSUME NEW m \in Modes, SetModeBegin(m) PROVE ModeInv' /\ TruthfulEvents'
  BY <1>2 DEF SetModeBegin, ModeInv, TruthfulEvents, TypeOK
<1>3. CASE SetModeEnd
  <2>1. setting # {} /\ UNCHANGED <<pc, dec, level, tapAtCall, steady, pushes>>
    BY <1>3 DEF SetModeEnd
  <2>2. \A c \in Conns : ~steady[c]
    BY <2>1 DEF ModeInv
  <2> QED
    BY <2>1, <2>2 DEF ModeInv, TruthfulEvents
<1>4. ASSUME NEW c \in Conns, NEW q \in Queries, Evaluate(c, q) PROVE ModeInv' /\ TruthfulEvents'
  <2> DEFINE d == FirstMatch(rules, q)
  <2> HIDE DEF d
  <2>1. /\ UNCHANGED <<setting, monitorOnly, level, pushes>>
        /\ dec' = [dec EXCEPT ![c] = d]
        /\ pc' = [pc EXCEPT ![c] = IF d.action = "ignore" THEN "idle" ELSE "level"]
        /\ tapAtCall' = [tapAtCall EXCEPT ![c] = monitorOnly]
        /\ steady' = [steady EXCEPT ![c] = setting = {}]
    BY <1>4 DEF Evaluate, d
  <2>2. ModeInv'
    BY <2>1 DEF ModeInv, TypeOK
  <2> QED
    BY <2>1, <2>2 DEF TruthfulEvents
<1>5. ASSUME NEW c \in Conns, SinkLevel(c) PROVE ModeInv' /\ TruthfulEvents'
  <2>1. PICK tap \in MonitorReads : level' = [level EXCEPT ![c] = LevelOf(dec[c].action, tap)]
    BY <1>5 DEF SinkLevel
  <2>2. pc' = [pc EXCEPT ![c] = "push"]
        /\ UNCHANGED <<setting, monitorOnly, dec, tapAtCall, steady, pushes>>
    BY <1>5 DEF SinkLevel
  <2>3. steady[c] => tap = tapAtCall[c]
    BY <2>1 DEF MonitorReads, ModeInv
  <2>4. /\ LevelOf(dec[c].action, tap) = "BLOCK" => dec[c].action = "block"
        /\ LevelOf(dec[c].action, tap) = "INFO" => dec[c].action \notin {"block", "alert"}
        /\ dec[c].action = "block" => (LevelOf(dec[c].action, tap) = "BLOCK" <=> ~tap)
    BY DEF LevelOf
  <2>5. level'[c] = LevelOf(dec[c].action, tap) /\ \A x \in Conns \ {c} : level'[x] = level[x]
    BY <2>1 DEF TypeOK
  <2>6. pc'[c] = "push" /\ \A x \in Conns \ {c} : pc'[x] = pc[x]
    BY <2>2 DEF TypeOK
  <2>7. ModeInv'
    BY <2>2, <2>3, <2>4, <2>5, <2>6 DEF ModeInv
  <2> QED
    BY <2>2, <2>7 DEF TruthfulEvents
<1>6. ASSUME NEW c \in Conns, SinkPush(c) PROVE ModeInv' /\ TruthfulEvents'
  <2>1. PICK t \in TypeReads :
          pushes' = pushes \cup {[conn |-> c, seq |-> seq[c], level |-> level[c], type |-> t,
                                  action |-> dec[c].action, tap |-> tapAtCall[c],
                                  steady |-> steady[c], sent |-> FALSE]}
    BY <1>6 DEF SinkPush
  <2>2. pc[c] = "push" /\ pc' = [pc EXCEPT ![c] = "idle"]
        /\ UNCHANGED <<setting, monitorOnly, dec, level, tapAtCall, steady>>
    BY <1>6 DEF SinkPush
  <2>3. steady[c] => t # "torn"
    BY <2>1 DEF TypeReads, ModeInv, TypeOK
  <2>4. ModeInv'
    BY <2>2 DEF ModeInv, TypeOK
  <2>5. TruthfulEvents'
    BY <2>1, <2>2, <2>3 DEF TruthfulEvents, ModeInv
  <2> QED
    BY <2>4, <2>5
<1>7. ASSUME NEW e \in pushes, PushArrives(e) PROVE ModeInv' /\ TruthfulEvents'
  <2>1. pushes' = (pushes \ {e}) \cup {[e EXCEPT !.sent = TRUE]}
        /\ UNCHANGED <<setting, monitorOnly, pc, dec, level, tapAtCall, steady>>
    BY <1>7 DEF PushArrives
  <2>2. e \in Push
    BY DEF TypeOK
  <2> DEFINE f == [e EXCEPT !.sent = TRUE]
  <2>3. /\ f.level = e.level /\ f.action = e.action /\ f.steady = e.steady
        /\ f.type = e.type /\ f.tap = e.tap
    BY <2>2 DEF Push
  <2> HIDE DEF f
  <2>4. \A x \in pushes' : x \in pushes \/ x = f
    BY <2>1 DEF f
  <2> QED
    BY <2>1, <2>3, <2>4 DEF ModeInv, TruthfulEvents
<1>8. ASSUME NEW e \in pushes, PushEnds(e) PROVE ModeInv' /\ TruthfulEvents'
  BY <1>8 DEF PushEnds, ModeInv, TruthfulEvents
<1>9. ASSUME Publish \/ PollStart \/ PollAnswer \/ PollApply \/ PollFail \/ UNCHANGED vars
      PROVE  UNCHANGED <<setting, monitorOnly, pc, dec, level, tapAtCall, steady, pushes>>
  BY <1>9 DEF Publish, PollStart, PollAnswer, PollApply, PollFail, vars
<1> QED
  BY <1>1, <1>2, <1>3, <1>4, <1>5, <1>6, <1>7, <1>8, <1>9 DEF Next

(* A call that is not ignored starts one push, whose event arrives at most *)
(* once (Evaluate, Sink and pushEvent).                                    *)
LEMMA PushStep ==
  ASSUME TypeOK, PushInv, AtMostOnce, [Next]_vars
  PROVE  PushInv' /\ AtMostOnce'
<1>0. MaxSeq \in Nat
  BY AgentAssumption
<1>a. \A e \in pushes : e.conn \in Conns /\ e.seq \in 1 .. MaxSeq /\ e.seq \in Nat
  BY <1>0 DEF TypeOK, Push
<1>b. \A e \in pushes :
        /\ e.seq <= seq[e.conn]
        /\ pc[e.conn] # "idle" => e.seq < seq[e.conn]
        /\ ~e.sent => received[<<e.conn, e.seq>>] = 0
  BY DEF PushInv
<1>c. \A e, f \in pushes : f.conn = e.conn /\ f.seq = e.seq => f = e
  BY DEF PushInv
<1>d. \A x \in Conns : seq[x] \in Nat
  BY <1>0 DEF TypeOK
<1> USE DEF feedVars, modeVars, callVars, eventVars
<1>e. \A e \in pushes : Reportable(decisions, e.conn, e.seq)
  BY DEF PushInv
<1>f. \A x \in Conns : pc[x] # "idle" => seq[x] > 0 /\ Reportable(decisions, x, seq[x])
  BY DEF PushInv
<1>g. \A x \in decisions : x.conn \in Conns /\ x.seq \in Nat /\ x.seq <= seq[x.conn]
  BY <1>0 DEF PushInv, TypeOK
<1>1. ASSUME UNCHANGED <<pc, seq, pushes, received, decisions>>
      PROVE  PushInv' /\ AtMostOnce'
  BY <1>1 DEF PushInv, AtMostOnce
<1>2. ASSUME NEW c \in Conns, NEW q \in Queries, Evaluate(c, q) PROVE PushInv' /\ AtMostOnce'
  <2>1. /\ pc[c] = "idle" /\ seq' = [seq EXCEPT ![c] = @ + 1]
        /\ \A x \in Conns \ {c} : pc'[x] = pc[x]
        /\ UNCHANGED <<pushes, received>>
    BY <1>2 DEF Evaluate, TypeOK
  <2>2. /\ seq[c] \in Nat /\ seq'[c] = seq[c] + 1
        /\ \A x \in Conns \ {c} : seq'[x] = seq[x]
    BY <1>0, <2>1 DEF TypeOK
  <2> DEFINE d == FirstMatch(rules, q)
             y == [version |-> version, conn |-> c, seq |-> seq[c] + 1, query |-> q, dec |-> d]
  <2>3. decisions' = decisions \cup {y} /\ (pc'[c] # "idle" => d.action # "ignore")
    BY <1>2 DEF Evaluate, TypeOK
  <2>4. y.conn = c /\ y.seq = seq[c] + 1 /\ y.dec.action = d.action
    OBVIOUS
  <2> HIDE DEF d, y
  <2>a. ASSUME NEW x \in Conns, NEW n \in Nat, n <= seq[x], Reportable(decisions, x, n)
        PROVE  Reportable(decisions', x, n)
    <3>1. ~(y.conn = x /\ y.seq = n)
      BY <2>2, <2>4, <2>a
    <3> QED
      BY <2>3, <2>a, <3>1 DEF Reportable
  <2>b. ASSUME pc'[c] # "idle" PROVE Reportable(decisions', c, seq[c] + 1)
    <3>1. \A x \in decisions : ~(x.conn = c /\ x.seq = seq[c] + 1)
      BY <1>g, <2>2
    <3>2. d.action # "ignore"
      BY <2>3, <2>b
    <3>3. \A x \in decisions' : x.conn = c /\ x.seq = seq[c] + 1 => x = y
      BY <2>3, <3>1
    <3>4. y \in decisions'
      BY <2>3
    <3>5. \A x \in decisions' : x.conn = c /\ x.seq = seq[c] + 1 => x.dec.action # "ignore"
      BY <2>4, <3>2, <3>3
    <3> QED
      BY <2>4, <3>4, <3>5 DEF Reportable
  <2>5. ASSUME NEW e \in pushes
        PROVE  /\ e.seq <= seq'[e.conn] /\ (pc'[e.conn] # "idle" => e.seq < seq'[e.conn])
               /\ Reportable(decisions', e.conn, e.seq)
    <3>0. Reportable(decisions', e.conn, e.seq)
      BY <1>a, <1>b, <1>e, <2>a
    <3>1. CASE e.conn = c
      <4>1. e.seq <= seq[c] /\ e.seq \in Nat /\ seq'[e.conn] = seq[c] + 1
        BY <1>a, <1>b, <2>2, <3>1
      <4> QED
        BY <2>2, <3>0, <4>1
    <3>2. CASE e.conn # c
      BY <1>a, <1>b, <2>1, <2>2, <3>0, <3>2
    <3> QED
      BY <3>1, <3>2
  <2>6. ASSUME NEW x \in Conns, pc'[x] # "idle"
        PROVE  seq'[x] > 0 /\ Reportable(decisions', x, seq'[x])
    <3>1. CASE x = c
      BY <2>2, <2>6, <2>b, <3>1
    <3>2. CASE x # c
      <4>1. pc[x] # "idle" /\ seq'[x] = seq[x] /\ seq[x] \in Nat
        BY <1>d, <2>1, <2>2, <2>6, <3>2
      <4>2. seq[x] > 0 /\ Reportable(decisions, x, seq[x])
        BY <1>f, <4>1
      <4> QED
        BY <2>a, <4>1, <4>2
    <3> QED
      BY <3>1, <3>2
  <2>c. \A x \in decisions' : x.seq <= seq'[x.conn]
    <3>1. \A x \in decisions : x.seq <= seq'[x.conn]
      <4> SUFFICES ASSUME NEW x \in decisions PROVE x.seq <= seq'[x.conn]
        OBVIOUS
      <4>1. x.conn \in Conns /\ x.seq \in Nat /\ x.seq <= seq[x.conn]
        BY <1>g
      <4>2. seq'[x.conn] >= seq[x.conn] /\ seq[x.conn] \in Nat /\ seq'[x.conn] \in Nat
        BY <1>d, <2>2, <4>1
      <4> QED
        BY <4>1, <4>2
    <3>2. y.seq <= seq'[y.conn]
      BY <2>2, <2>4
    <3> QED
      BY <2>3, <3>1, <3>2
  <2>7. \A x \in Conns, n \in 1 .. MaxSeq :
          n > seq'[x] \/ (n = seq'[x] /\ pc'[x] # "idle") => received[<<x, n>>] = 0
    BY <1>0, <1>d, <2>1, <2>2 DEF PushInv
  <2>8. AtMostOnce'
    <3>1. ASSUME NEW x \in Conns, NEW n \in 1 .. MaxSeq, received[<<x, n>>] = 1
          PROVE  Reportable(decisions', x, n)
      <4>1. Reportable(decisions, x, n)
        BY <3>1 DEF AtMostOnce
      <4>2. ~(n > seq[x])
        BY <3>1 DEF PushInv
      <4>3. n \in Nat /\ n <= seq[x]
        BY <1>0, <1>d, <4>2
      <4> QED
        BY <2>a, <4>1, <4>3
    <3> QED
      BY <2>1, <3>1 DEF AtMostOnce
  <2> QED
    BY <1>c, <2>1, <2>5, <2>6, <2>7, <2>8, <2>c DEF PushInv
<1>3. ASSUME NEW c \in Conns, SinkLevel(c) PROVE PushInv' /\ AtMostOnce'
  <2>1. /\ pc[c] = "level" /\ pc'[c] = "push" /\ \A x \in Conns \ {c} : pc'[x] = pc[x]
        /\ UNCHANGED <<seq, pushes, received, decisions>>
    BY <1>3 DEF SinkLevel, TypeOK
  <2>2. \A x \in Conns : pc'[x] # "idle" <=> pc[x] # "idle"
    BY <2>1
  <2>3. \A e \in pushes : e.conn \in Conns
    BY DEF TypeOK, Push
  <2> QED
    BY <2>1, <2>2, <2>3 DEF PushInv, AtMostOnce
<1>4. ASSUME NEW c \in Conns, SinkPush(c) PROVE PushInv' /\ AtMostOnce'
  <2>1. PICK t \in TypeReads :
          pushes' = pushes \cup {[conn |-> c, seq |-> seq[c], level |-> level[c], type |-> t,
                                  action |-> dec[c].action, tap |-> tapAtCall[c],
                                  steady |-> steady[c], sent |-> FALSE]}
    BY <1>4 DEF SinkPush
  <2> DEFINE e == [conn |-> c, seq |-> seq[c], level |-> level[c], type |-> t,
                   action |-> dec[c].action, tap |-> tapAtCall[c],
                   steady |-> steady[c], sent |-> FALSE]
  <2>2. e.conn = c /\ e.seq = seq[c] /\ ~e.sent
    OBVIOUS
  <2>3. pushes' = pushes \cup {e}
    BY <2>1
  <2> HIDE DEF e
  <2>4. /\ pc[c] = "push" /\ pc'[c] = "idle" /\ \A x \in Conns \ {c} : pc'[x] = pc[x]
        /\ UNCHANGED <<seq, received, decisions>>
    BY <1>4 DEF SinkPush, TypeOK
  <2>6. seq[c] \in 1 .. MaxSeq
    BY <1>0, <2>4 DEF TypeOK, PushInv
  <2>7. \A f \in pushes : ~(f.conn = c /\ f.seq = seq[c])
    <3> SUFFICES ASSUME NEW f \in pushes, f.conn = c, f.seq = seq[c] PROVE FALSE
      OBVIOUS
    <3>1. f.seq < seq[c]
      BY <1>b, <2>4
    <3> QED
      BY <2>6, <3>1
  <2>8. received[<<c, seq[c]>>] = 0
    BY <2>4, <2>6 DEF PushInv
  <2>9. ASSUME NEW f \in pushes'
        PROVE  /\ f.seq <= seq[f.conn]
               /\ pc'[f.conn] # "idle" => f.seq < seq[f.conn]
               /\ ~f.sent => received[<<f.conn, f.seq>>] = 0
               /\ Reportable(decisions, f.conn, f.seq)
    <3>1. CASE f = e
      <4>1. Reportable(decisions, c, seq[c])
        BY <1>f, <2>4
      <4> QED
        BY <2>2, <2>4, <2>6, <2>8, <3>1, <4>1
    <3>2. CASE f \in pushes
      BY <1>a, <1>b, <1>e, <2>4, <3>2
    <3> QED
      BY <2>3, <3>1, <3>2
  <2>10. \A f, g \in pushes' : g.conn = f.conn /\ g.seq = f.seq => g = f
    BY <1>c, <2>2, <2>3, <2>7
  <2>11. \A x \in Conns : pc'[x] # "idle" => pc[x] # "idle"
    BY <2>4
  <2> QED
    BY <2>4, <2>9, <2>10, <2>11 DEF PushInv, AtMostOnce
<1>5. ASSUME NEW e \in pushes, PushArrives(e) PROVE PushInv' /\ AtMostOnce'
  <2> DEFINE f == [e EXCEPT !.sent = TRUE]
  <2>1. e.conn \in Conns /\ e.seq \in 1 .. MaxSeq
    BY DEF TypeOK, Push
  <2>2. f.conn = e.conn /\ f.seq = e.seq /\ f.sent
    BY DEF TypeOK, Push
  <2>3. /\ ~e.sent /\ pushes' = (pushes \ {e}) \cup {f} /\ UNCHANGED <<pc, seq, decisions>>
        /\ received' = [received EXCEPT ![<<e.conn, e.seq>>] = @ + 1]
    BY <1>5 DEF PushArrives
  <2> HIDE DEF f
  <2>5. received[<<e.conn, e.seq>>] = 0
    BY <1>b, <2>3
  <2>6. \A x \in Conns, n \in 1 .. MaxSeq :
          received'[<<x, n>>] = IF x = e.conn /\ n = e.seq THEN 1 ELSE received[<<x, n>>]
    BY <2>1, <2>3, <2>5 DEF TypeOK
  <2>7. \A g \in pushes' : g = f \/ (g \in pushes /\ ~(g.conn = e.conn /\ g.seq = e.seq))
    BY <1>c, <2>3
  <2>8. ASSUME NEW g \in pushes'
        PROVE  /\ g.seq <= seq[g.conn]
               /\ pc[g.conn] # "idle" => g.seq < seq[g.conn]
               /\ ~g.sent => received'[<<g.conn, g.seq>>] = 0
               /\ Reportable(decisions, g.conn, g.seq)
    <3>1. CASE g = f
      BY <1>b, <1>e, <2>2, <3>1
    <3>2. CASE g # f
      BY <1>a, <1>b, <1>e, <2>6, <2>7, <3>2
    <3> QED
      BY <3>1, <3>2
  <2>9. \A g, h \in pushes' : h.conn = g.conn /\ h.seq = g.seq => h = g
    BY <1>c, <2>2, <2>7
  <2>10. e.seq <= seq[e.conn] /\ (pc[e.conn] # "idle" => e.seq < seq[e.conn])
    BY <1>b
  <2>11. \A x \in Conns, n \in 1 .. MaxSeq :
           n > seq[x] \/ (n = seq[x] /\ pc[x] # "idle") => received'[<<x, n>>] = 0
    BY <1>0, <2>1, <2>6, <2>10 DEF PushInv, TypeOK
  <2>12. AtMostOnce'
    <3>1. \A x \in Conns, n \in 1 .. MaxSeq :
            received'[<<x, n>>] <= 1 /\ (received'[<<x, n>>] = 1 => Reportable(decisions, x, n))
      <4> SUFFICES ASSUME NEW x \in Conns, NEW n \in 1 .. MaxSeq
                   PROVE  received'[<<x, n>>] <= 1 /\ (received'[<<x, n>>] = 1 => Reportable(decisions, x, n))
        OBVIOUS
      <4>1. CASE x = e.conn /\ n = e.seq
        BY <1>e, <2>6, <4>1
      <4>2. CASE ~(x = e.conn /\ n = e.seq)
        BY <2>6, <4>2 DEF AtMostOnce
      <4> QED
        BY <4>1, <4>2
    <3> QED
      BY <2>3, <3>1 DEF AtMostOnce
  <2> QED
    BY <2>3, <2>8, <2>9, <2>11, <2>12 DEF PushInv
<1>6. ASSUME NEW e \in pushes, PushEnds(e) PROVE PushInv' /\ AtMostOnce'
  BY <1>6 DEF PushEnds, PushInv, AtMostOnce
<1>7. ASSUME \/ Publish \/ PollStart \/ PollAnswer \/ PollApply \/ PollFail \/ SetModeEnd
             \/ UNCHANGED vars
             \/ \E m \in Modes : SetModeBegin(m)
      PROVE  UNCHANGED <<pc, seq, pushes, received, decisions>>
  BY <1>7 DEF Publish, PollStart, PollAnswer, PollApply, PollFail, SetModeBegin, SetModeEnd, vars
<1> QED
  BY <1>1, <1>2, <1>3, <1>4, <1>5, <1>6, <1>7 DEF Next

(* The conjunction is inductive.                                           *)
LEMMA IInvStep == IInv /\ [Next]_vars => IInv'
BY TypeStep, FeedStep, ModeStep, PushStep DEF IInv

(* The agent's state stays well formed: in particular every list that      *)
(* convertRules gives to Reload is a rule list (fetchRules).               *)
THEOREM TypeCorrect == Spec => []TypeOK
<1>1. IInv => TypeOK
  BY DEF IInv
<1> QED
  BY <1>1, IInvInit, IInvStep, PTL DEF Spec

(* Every decision made on a published list is the one the console means,   *)
(* for lists of any length (convertRules, Reload and Evaluate).            *)
THEOREM IntentIsEnforced == Spec => []EnforcesIntent
<1>1. IInv => EnforcesIntent
  BY DEF IInv
<1> QED
  BY <1>1, IInvInit, IInvStep, PTL DEF Spec

(* Events tell the truth about the decision, and in a call that no SetMode *)
(* overlaps also about the mode (SetMode and Sink).                        *)
THEOREM EventsAreTruthful == Spec => []TruthfulEvents
<1>1. IInv => TruthfulEvents
  BY DEF IInv
<1> QED
  BY <1>1, IInvInit, IInvStep, PTL DEF Spec

(* No event is received twice, and none without a decision or for an       *)
(* ignored query, although a push may end before, after or without its     *)
(* arrival (Evaluate, Sink and pushEvent).                                 *)
THEOREM EventsArriveOnce == Spec => []AtMostOnce
<1>1. IInv => AtMostOnce
  BY DEF IInv
<1> QED
  BY <1>1, IInvInit, IInvStep, PTL DEF Spec
=============================================================================
