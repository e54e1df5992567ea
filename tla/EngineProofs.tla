---------------------------- MODULE EngineProofs ----------------------------
(***************************************************************************)
(* Proofs about the rule engine for any number of callers, any rule lists, *)
(* any queries and any number of reloads.                                  *)
(***************************************************************************)
EXTENDS Engine, TLAPS

(***************************************************************************)
(* The loop computes the first-match decision.                             *)
(***************************************************************************)

(* A rule that matches, all rules before it not matching, gives the        *)
(* decision (the body of the loops of Evaluate and Decide).                *)
LEMMA ScanHit ==
  ASSUME NEW S, NEW rs \in Seq(S), NEW q, NEW k \in 1..Len(rs),
         Matches(rs[k], q), \A j \in 1..(k-1) : ~Matches(rs[j], q)
  PROVE  FirstMatch(rs, q) = DecisionOf(rs[k])
<1>1. DOMAIN rs = 1..Len(rs) /\ Len(rs) \in Nat
  OBVIOUS
<1>2. k \in Matching(rs, q)
  BY <1>1 DEF Matching
<1>3. \A j \in Matching(rs, q) : k <= j
  BY <1>1 DEF Matching
<1>4. IsFirst(k, rs, q)
  BY <1>2, <1>3 DEF IsFirst
<1>5. \A j \in Matching(rs, q) : IsFirst(j, rs, q) => j = k
  BY <1>1, <1>2, <1>3 DEF IsFirst, Matching
<1>6. (CHOOSE j \in Matching(rs, q) : IsFirst(j, rs, q)) = k
  BY <1>2, <1>4, <1>5
<1> QED
  BY <1>2, <1>6 DEF FirstMatch

(* A list none of whose rules matches gives default-allow (the statement   *)
(* after the loops of Evaluate and Decide).                                *)
LEMMA ScanMiss ==
  ASSUME NEW S, NEW rs \in Seq(S), NEW q, \A j \in 1..Len(rs) : ~Matches(rs[j], q)
  PROVE  FirstMatch(rs, q) = DefaultAllow
<1>1. DOMAIN rs = 1..Len(rs)
  OBVIOUS
<1>2. Matching(rs, q) = {}
  BY <1>1 DEF Matching
<1> QED
  BY <1>2 DEF FirstMatch

(* Every decision of a well-typed list is a Decision.                      *)
LEMMA DecisionOfType ==
  ASSUME NEW r \in Rule
  PROVE  DecisionOf(r) \in Decision
BY DEF DecisionOf, Rule, Decision

(* The decision after the loop is a Decision (default-allow of Evaluate    *)
(* and Decide).                                                            *)
LEMMA DefaultAllowType == DefaultAllow \in Decision
BY RulesAssumption DEF DefaultAllow, Decision

(* A step that runs Conclude keeps the types.                              *)
LEMMA ConcludeType ==
  ASSUME TypeOK, NEW c \in Callers, NEW d \in Decision, Conclude(c, d)
  PROVE  TypeOK'
<1>1. Len(installed) \in Nat
  BY DEF TypeOK
<1>2. [caller |-> c, seq |-> seq[c], query |-> query[c], from |-> from[c],
       upto |-> Len(installed), dec |-> d] \in Entry
  BY <1>1 DEF TypeOK, Entry
<1>3. ledger' \subseteq Entry
  BY <1>2 DEF Conclude, TypeOK
<1>4. pc' \in [Callers -> Labels] /\ dec' \in [Callers -> Decision]
  BY DEF Conclude, TypeOK, Goto, Labels
<1> QED
  BY <1>3, <1>4 DEF Conclude, TypeOK, engineVars

(* A step that runs CallSink appends a well-typed event or nothing.        *)
LEMMA CallSinkType ==
  ASSUME TypeOK, NEW c \in Callers, CallSink(c)
  PROVE  sent' \in [Callers -> Seq(Event)]
<1> DEFINE ev == [seq |-> seq[c], query |-> query[c], dec |-> dec[c], sink |-> snapSink[c]]
<1>1. CASE snapSink[c] # NoSink /\ dec[c].action # "ignore"
  <2>1. ev \in Event
    BY <1>1, EngineAssumption DEF TypeOK, Event
  <2>2. Append(sent[c], ev) \in Seq(Event)
    BY <2>1 DEF TypeOK
  <2> QED
    BY <1>1, <2>2 DEF CallSink, TypeOK
<1>2. CASE ~(snapSink[c] # NoSink /\ dec[c].action # "ignore")
  BY <1>2 DEF CallSink, TypeOK
<1> QED
  BY <1>1, <1>2

(* A new engine with no call in progress is well typed (New).              *)
LEMMA TypeInit == Init => TypeOK
<1> SUFFICES ASSUME Init PROVE TypeOK
  OBVIOUS
<1>1. (CHOOSE q \in Queries : TRUE) \in Queries
  BY EngineAssumption
<1>2. <<rules>> \in Seq(RuleSets) /\ <<>> \in Seq(Event)
  BY DEF Init
<1>3. 0 \in 0..MaxCalls
  BY EngineAssumption
<1> QED
  BY <1>1, <1>2, <1>3, DefaultAllowType DEF Init, TypeOK, Labels

(* Every operation of the engine and every step of a call keeps the types. *)
LEMMA TypeStep == TypeOK /\ [Next]_vars => TypeOK'
<1> SUFFICES ASSUME TypeOK, [Next]_vars PROVE TypeOK'
  OBVIOUS
<1>1. ASSUME NEW s \in Sinks \cup {NoSink}, SetSink(s) PROVE TypeOK'
  BY <1>1 DEF SetSink, TypeOK, callVars, historyVars
<1>2. ASSUME NEW rs \in RuleSets, Reload(rs) PROVE TypeOK'
  <2>1. installed' \in Seq(RuleSets)
    BY <1>2 DEF Reload, TypeOK
  <2> QED
    BY <1>2, <2>1 DEF Reload, TypeOK, callVars
<1>3. ASSUME NEW c \in Callers, NEW o \in {"evaluate", "decide"}, NEW q \in Queries,
             Call(c, o, q)
      PROVE  TypeOK'
  <2>1. seq' \in [Callers -> 0..MaxCalls]
    BY <1>3, EngineAssumption DEF Call, TypeOK
  <2>2. from' \in [Callers -> Nat]
    BY <1>3 DEF Call, TypeOK
  <2> QED
    BY <1>3, <2>1, <2>2 DEF Call, TypeOK, Goto, Labels, engineVars
<1>4. ASSUME NEW c \in Callers, Snapshot(c) PROVE TypeOK'
  BY <1>4 DEF Snapshot, TypeOK, Goto, Labels, engineVars, historyVars
<1>5. ASSUME NEW c \in Callers, Scan(c) PROVE TypeOK'
  <2> DEFINE rs == snapRules[c]
  <2>0. rs \in Seq(Rule) /\ idx[c] \in Nat \ {0}
    <3>1. snapRules[c] \in RuleSets \cup {<<>>} /\ idx[c] \in Nat \ {0}
      BY DEF TypeOK
    <3>2. <<>> \in Seq(Rule)
      OBVIOUS
    <3> QED
      BY <3>1, <3>2, EngineAssumption
  <2>1. CASE idx[c] <= Len(rs) /\ Matches(rs[idx[c]], query[c])
    <3>1. rs[idx[c]] \in Rule
      BY <2>0, <2>1
    <3>2. Conclude(c, DecisionOf(rs[idx[c]]))
      BY <1>5, <2>0, <2>1 DEF Scan
    <3> QED
      BY <3>1, <3>2, ConcludeType, DecisionOfType
  <2>2. CASE idx[c] <= Len(rs) /\ ~Matches(rs[idx[c]], query[c])
    <3>1. idx' = [idx EXCEPT ![c] = @ + 1]
          /\ UNCHANGED <<engineVars, pc, op, query, seq, snapRules, snapSink, dec,
                         sent, historyVars>>
      BY <1>5, <2>0, <2>2 DEF Scan
    <3> QED
      BY <3>1 DEF TypeOK, engineVars, historyVars
  <2>3. CASE idx[c] > Len(rs)
    <3>1. Conclude(c, DefaultAllow)
      BY <1>5, <2>0, <2>3 DEF Scan
    <3> QED
      BY <3>1, ConcludeType, DefaultAllowType
  <2> QED
    BY <2>0, <2>1, <2>2, <2>3
<1>6. ASSUME NEW c \in Callers, Return(c) PROVE TypeOK'
  <2>1. sent' \in [Callers -> Seq(Event)]
    BY <1>6, CallSinkType DEF Return, TypeOK
  <2> QED
    BY <1>6, <2>1 DEF Return, TypeOK, Goto, Labels, engineVars, historyVars
<1>7. ASSUME NEW c \in Callers, EmitSnapshot(c) PROVE TypeOK'
  BY <1>7 DEF EmitSnapshot, TypeOK, Goto, Labels, engineVars, historyVars
<1>8. ASSUME NEW c \in Callers, EmitReturn(c) PROVE TypeOK'
  <2>1. sent' \in [Callers -> Seq(Event)]
    BY <1>8, CallSinkType DEF EmitReturn
  <2> QED
    BY <1>8, <2>1 DEF EmitReturn, TypeOK, Goto, Labels, engineVars, historyVars
<1>9. ASSUME NEW c \in Callers, DropHeld(c) PROVE TypeOK'
  BY <1>9 DEF DropHeld, TypeOK, Goto, Labels, engineVars, historyVars
<1>10. CASE UNCHANGED vars
  BY <1>10 DEF TypeOK, vars
<1> QED
  BY <1>1, <1>2, <1>3, <1>4, <1>5, <1>6, <1>7, <1>8, <1>9, <1>10 DEF Next

(* The type invariant holds in every reachable state of the engine.        *)
THEOREM TypeCorrect == Spec => []TypeOK
BY TypeInit, TypeStep, PTL DEF Spec
-----------------------------------------------------------------------------
(***************************************************************************)
(* FreshDecision and EventFidelity, from the inductive invariant IInv.     *)
(***************************************************************************)

(* What the three disjuncts of Scan are, given types: a hit, a miss, the   *)
(* end of the list.                                                        *)
LEMMA ScanCases ==
  ASSUME TypeOK, NEW c \in Callers, Scan(c)
  PROVE  /\ snapRules[c] \in Seq(Rule) /\ idx[c] \in Nat \ {0}
         /\ \/ /\ idx[c] <= Len(snapRules[c])
               /\ Matches(snapRules[c][idx[c]], query[c])
               /\ Conclude(c, DecisionOf(snapRules[c][idx[c]]))
            \/ /\ idx[c] <= Len(snapRules[c])
               /\ ~Matches(snapRules[c][idx[c]], query[c])
               /\ idx' = [idx EXCEPT ![c] = @ + 1]
               /\ UNCHANGED <<engineVars, pc, op, query, seq, snapRules, snapSink, dec,
                              sent, historyVars>>
            \/ /\ idx[c] > Len(snapRules[c])
               /\ Conclude(c, DefaultAllow)
<1>1. snapRules[c] \in RuleSets \cup {<<>>} /\ idx[c] \in Nat \ {0}
  BY DEF TypeOK
<1>2. <<>> \in Seq(Rule)
  OBVIOUS
<1> QED
  BY <1>1, <1>2, EngineAssumption DEF Scan

(* The loop concludes with the first-match decision of its snapshot.       *)
LEMMA ScanConcludes ==
  ASSUME TypeOK, ScanInv, NEW c \in Callers, Scan(c)
  PROVE  \/ Conclude(c, FirstMatch(snapRules[c], query[c]))
         \/ /\ idx[c] <= Len(snapRules[c])
            /\ ~Matches(snapRules[c][idx[c]], query[c])
            /\ idx' = [idx EXCEPT ![c] = @ + 1]
            /\ UNCHANGED <<engineVars, pc, op, query, seq, snapRules, snapSink, dec,
                           sent, historyVars>>
<1> DEFINE rs == snapRules[c]
<1>1. rs \in Seq(Rule) /\ idx[c] \in Nat \ {0} /\ Len(rs) \in Nat
  BY ScanCases
<1>2. pc[c] = "scan"
  BY DEF Scan
<1>3. idx[c] <= Len(rs) + 1 /\ \A j \in 1 .. (idx[c] - 1) : ~Matches(rs[j], query[c])
  BY <1>2 DEF ScanInv
<1>4. CASE idx[c] <= Len(rs) /\ Matches(rs[idx[c]], query[c])
  <2>1. idx[c] \in 1..Len(rs)
    BY <1>1, <1>4
  <2>2. FirstMatch(rs, query[c]) = DecisionOf(rs[idx[c]])
    BY <1>1, <1>3, <1>4, <2>1, ScanHit
  <2>3. Conclude(c, DecisionOf(rs[idx[c]]))
    BY <1>1, <1>4, ScanCases
  <2> QED
    BY <2>2, <2>3
<1>5. CASE idx[c] > Len(rs)
  <2>1. \A j \in 1 .. Len(rs) : ~Matches(rs[j], query[c])
    BY <1>1, <1>3, <1>5
  <2>2. FirstMatch(rs, query[c]) = DefaultAllow
    BY <1>1, <2>1, ScanMiss
  <2>3. Conclude(c, DefaultAllow)
    BY <1>1, <1>5, ScanCases
  <2> QED
    BY <2>2, <2>3
<1>6. CASE idx[c] <= Len(rs) /\ ~Matches(rs[idx[c]], query[c])
  BY <1>1, <1>6, ScanCases
<1> QED
  BY <1>1, <1>4, <1>5, <1>6

(* The engine's rules stay the newest list installed (Reload, and every    *)
(* step that leaves the rules alone).                                      *)
LEMMA HistoryStep ==
  TypeOK /\ HistoryInv /\ [Next]_vars => HistoryInv'
<1> SUFFICES ASSUME TypeOK, HistoryInv, [Next]_vars PROVE HistoryInv'
  OBVIOUS
<1> USE DEF HistoryInv
<1>0. Len(installed) \in Nat /\ Len(installed) >= 1
  BY DEF TypeOK
<1>1. ASSUME NEW rs \in RuleSets, Reload(rs) PROVE HistoryInv'
  <2>1. installed' = Append(installed, rs) /\ rules' = rs /\ from' = from /\ ledger' = ledger
    BY <1>1 DEF Reload
  <2>2. Len(installed') = Len(installed) + 1 /\ installed'[Len(installed) + 1] = rs
        /\ installed' # <<>>
    BY <2>1 DEF TypeOK
  <2>3. \A e \in ledger : e.upto \in Nat
    BY DEF TypeOK, Entry
  <2> QED
    BY <1>0, <2>1, <2>2, <2>3
<1>2. ASSUME NEW c \in Callers, NEW o \in {"evaluate", "decide"}, NEW q \in Queries,
             Call(c, o, q)
      PROVE  HistoryInv'
  BY <1>0, <1>2 DEF Call, engineVars, TypeOK
<1>3. ASSUME NEW c \in Callers, NEW d, Conclude(c, d) PROVE HistoryInv'
  <2>1. installed' = installed /\ rules' = rules /\ from' = from
    BY <1>3 DEF Conclude, engineVars
  <2>2. \A e \in ledger' : e \in ledger \/ (e.from = from[c] /\ e.upto = Len(installed))
    BY <1>3 DEF Conclude
  <2> QED
    BY <1>0, <2>1, <2>2
<1>4. ASSUME NEW c \in Callers, Scan(c) PROVE HistoryInv'
  BY <1>3, <1>4, ScanCases DEF engineVars, historyVars
<1>5. CASE UNCHANGED <<rules, installed, from, ledger>>
  BY <1>5
<1> QED
  BY <1>1, <1>2, <1>4, <1>5
     DEF Next, SetSink, Snapshot, Return, EmitSnapshot, EmitReturn, DropHeld, vars,
         engineVars, historyVars

(* A loop in progress keeps working on a list installed during its call,   *)
(* with no match behind it, whatever Reload does meanwhile (Evaluate and   *)
(* Decide).                                                                *)
LEMMA ScanStep ==
  TypeOK /\ HistoryInv /\ ScanInv /\ [Next]_vars => ScanInv'
<1> SUFFICES ASSUME TypeOK, HistoryInv, ScanInv, [Next]_vars, NEW d \in Callers,
                    pc'[d] = "scan"
             PROVE  /\ idx'[d] <= Len(snapRules'[d]) + 1
                    /\ \A j \in 1 .. (idx'[d] - 1) : ~Matches(snapRules'[d][j], query'[d])
                    /\ \E v \in from'[d] .. Len(installed') : installed'[v] = snapRules'[d]
  BY DEF ScanInv
<1>0. Len(installed) \in Nat /\ Len(installed) >= 1
  BY DEF TypeOK, HistoryInv
<1>1. ASSUME UNCHANGED <<snapRules, idx, query, from, installed>>, pc'[d] = pc[d]
      PROVE  /\ idx'[d] <= Len(snapRules'[d]) + 1
             /\ \A j \in 1 .. (idx'[d] - 1) : ~Matches(snapRules'[d][j], query'[d])
             /\ \E v \in from'[d] .. Len(installed') : installed'[v] = snapRules'[d]
  BY <1>1 DEF ScanInv
<1>2. ASSUME NEW rs \in RuleSets, Reload(rs)
      PROVE  /\ idx'[d] <= Len(snapRules'[d]) + 1
             /\ \A j \in 1 .. (idx'[d] - 1) : ~Matches(snapRules'[d][j], query'[d])
             /\ \E v \in from'[d] .. Len(installed') : installed'[v] = snapRules'[d]
  <2>1. UNCHANGED <<snapRules, idx, query, from, pc>> /\ installed' = Append(installed, rs)
    BY <1>2 DEF Reload, callVars
  <2>2. Len(installed') = Len(installed) + 1
        /\ \A v \in 1 .. Len(installed) : installed'[v] = installed[v]
    BY <2>1 DEF TypeOK
  <2>3. PICK v \in from[d] .. Len(installed) : installed[v] = snapRules[d]
    BY <2>1 DEF ScanInv
  <2>4. v \in from[d] .. Len(installed') /\ installed'[v] = snapRules[d]
    BY <1>0, <2>2, <2>3 DEF HistoryInv
  <2> QED
    BY <2>1, <2>4 DEF ScanInv
<1>3. ASSUME NEW c \in Callers, NEW o \in {"evaluate", "decide"}, NEW q \in Queries,
             Call(c, o, q)
      PROVE  /\ idx'[d] <= Len(snapRules'[d]) + 1
             /\ \A j \in 1 .. (idx'[d] - 1) : ~Matches(snapRules'[d][j], query'[d])
             /\ \E v \in from'[d] .. Len(installed') : installed'[v] = snapRules'[d]
  <2>1. d # c
    BY <1>3 DEF Call, Goto, TypeOK
  <2> QED
    BY <1>3, <2>1 DEF Call, Goto, ScanInv, TypeOK
<1>4. ASSUME NEW c \in Callers, Snapshot(c)
      PROVE  /\ idx'[d] <= Len(snapRules'[d]) + 1
             /\ \A j \in 1 .. (idx'[d] - 1) : ~Matches(snapRules'[d][j], query'[d])
             /\ \E v \in from'[d] .. Len(installed') : installed'[v] = snapRules'[d]
  <2>1. CASE d = c
    <3>1. idx'[d] = 1 /\ snapRules'[d] = rules /\ from' = from /\ installed' = installed
      BY <1>4, <2>1 DEF Snapshot, TypeOK, historyVars
    <3>2. Len(rules) \in Nat
      BY EngineAssumption DEF TypeOK
    <3>3. Len(installed) \in from[d] .. Len(installed)
      BY <1>0 DEF HistoryInv
    <3> QED
      BY <3>1, <3>2, <3>3 DEF HistoryInv
  <2>2. CASE d # c
    BY <1>4, <2>2 DEF Snapshot, Goto, ScanInv, TypeOK, historyVars
  <2> QED
    BY <2>1, <2>2
<1>5. ASSUME NEW c \in Callers, Scan(c)
      PROVE  /\ idx'[d] <= Len(snapRules'[d]) + 1
             /\ \A j \in 1 .. (idx'[d] - 1) : ~Matches(snapRules'[d][j], query'[d])
             /\ \E v \in from'[d] .. Len(installed') : installed'[v] = snapRules'[d]
  <2>1. ASSUME NEW x, Conclude(c, x)
        PROVE  /\ idx'[d] <= Len(snapRules'[d]) + 1
               /\ \A j \in 1 .. (idx'[d] - 1) : ~Matches(snapRules'[d][j], query'[d])
               /\ \E v \in from'[d] .. Len(installed') : installed'[v] = snapRules'[d]
    BY <2>1, <1>1 DEF Conclude, Goto, TypeOK
  <2>2. CASE /\ idx[c] <= Len(snapRules[c])
             /\ ~Matches(snapRules[c][idx[c]], query[c])
             /\ idx' = [idx EXCEPT ![c] = @ + 1]
             /\ UNCHANGED <<engineVars, pc, op, query, seq, snapRules, snapSink, dec,
                            sent, historyVars>>
    <3>1. UNCHANGED <<pc, query, snapRules, from, installed>>
      BY <2>2 DEF historyVars
    <3>2. CASE d = c
      <4>1. idx'[d] = idx[d] + 1 /\ idx[d] \in Nat \ {0} /\ Len(snapRules[d]) \in Nat
        BY <2>2, <3>2, <1>5, ScanCases DEF TypeOK
      <4>2. \A j \in 1 .. idx[d] : j \in 1 .. (idx[d] - 1) \/ j = idx[d]
        BY <4>1
      <4>3. \A j \in 1 .. (idx'[d] - 1) : ~Matches(snapRules[d][j], query[d])
        BY <2>2, <3>1, <3>2, <4>1, <4>2 DEF ScanInv
      <4> QED
        BY <2>2, <3>1, <3>2, <4>1, <4>3 DEF ScanInv
    <3>3. CASE d # c
      BY <2>2, <3>1, <3>3 DEF ScanInv, TypeOK
    <3> QED
      BY <3>2, <3>3
  <2> QED
    BY <1>5, <2>1, <2>2, ScanCases
<1>6. ASSUME NEW c \in Callers, Return(c) \/ EmitSnapshot(c) \/ EmitReturn(c) \/ DropHeld(c)
      PROVE  UNCHANGED <<snapRules, idx, query, from, installed>> /\ pc'[d] = pc[d]
  BY <1>6 DEF Return, EmitSnapshot, EmitReturn, DropHeld, Goto, TypeOK, historyVars
<1>7. CASE (\E s \in Sinks \cup {NoSink} : SetSink(s)) \/ UNCHANGED vars
  BY <1>1, <1>7 DEF SetSink, vars, callVars, historyVars
<1> QED
  BY <1>1, <1>2, <1>3, <1>4, <1>5, <1>6, <1>7 DEF Next

(* No step records a decision that mixes lists or is older than its call   *)
(* (Evaluate and Decide racing Reload).                                    *)
LEMMA FreshStep ==
  TypeOK /\ HistoryInv /\ ScanInv /\ FreshDecision /\ [Next]_vars => FreshDecision'
<1> SUFFICES ASSUME TypeOK, HistoryInv, ScanInv, FreshDecision, [Next]_vars
             PROVE  FreshDecision'
  OBVIOUS
<1>0. Len(installed) \in Nat
  BY DEF TypeOK
<1>1. ASSUME NEW rs \in RuleSets, Reload(rs) PROVE FreshDecision'
  <2>1. ledger' = ledger /\ installed' = Append(installed, rs)
    BY <1>1 DEF Reload
  <2>2. \A v \in 1 .. Len(installed) : installed'[v] = installed[v]
    BY <2>1 DEF TypeOK
  <2> SUFFICES ASSUME NEW e \in ledger
               PROVE  \E v \in e.from .. e.upto : e.dec = FirstMatch(installed'[v], e.query)
    BY <2>1 DEF FreshDecision
  <2>3. PICK v \in e.from .. e.upto : e.dec = FirstMatch(installed[v], e.query)
    BY DEF FreshDecision
  <2>4. v \in 1 .. Len(installed)
    BY <1>0, <2>3 DEF HistoryInv, TypeOK, Entry
  <2> QED
    BY <2>2, <2>3, <2>4
<1>2. ASSUME NEW c \in Callers, Scan(c) PROVE FreshDecision'
  <2>1. CASE Conclude(c, FirstMatch(snapRules[c], query[c]))
    <3>1. installed' = installed
      BY <2>1 DEF Conclude
    <3>2. PICK v \in from[c] .. Len(installed) : installed[v] = snapRules[c]
      BY <1>2 DEF ScanInv, Scan
    <3>3. \A e \in ledger' : \/ e \in ledger
                             \/ /\ e.from = from[c] /\ e.upto = Len(installed)
                                /\ e.query = query[c]
                                /\ e.dec = FirstMatch(snapRules[c], query[c])
      BY <2>1 DEF Conclude
    <3> QED
      BY <3>1, <3>2, <3>3 DEF FreshDecision
  <2>2. CASE UNCHANGED <<ledger, installed>>
    BY <2>2 DEF FreshDecision
  <2> QED
    BY <1>2, <2>1, <2>2, ScanConcludes DEF historyVars
<1>3. CASE UNCHANGED <<ledger, installed>>
  BY <1>3 DEF FreshDecision
<1> QED
  BY <1>1, <1>2, <1>3
     DEF Next, SetSink, Call, Snapshot, Return, EmitSnapshot, EmitReturn, DropHeld, vars,
         historyVars

(* What CallSink does to the events of one caller: at most one is added,   *)
(* at the end, and it carries the current query and decision.              *)
LEMMA CallSinkAdds ==
  ASSUME TypeOK, NEW c \in Callers, CallSink(c), NEW d \in Callers,
         NEW k \in DOMAIN sent'[d]
  PROVE  \/ k \in DOMAIN sent[d] /\ sent'[d][k] = sent[d][k]
         \/ /\ d = c /\ k = Len(sent[c]) + 1 /\ dec[c].action # "ignore"
            /\ sent'[c][k].seq = seq[c] /\ sent'[c][k].query = query[c]
            /\ sent'[c][k].dec = dec[c]
<1> DEFINE ev == [seq |-> seq[c], query |-> query[c], dec |-> dec[c], sink |-> snapSink[c]]
<1>1. CASE snapSink[c] # NoSink /\ dec[c].action # "ignore" /\ d = c
  <2>1. sent'[c] = Append(sent[c], ev) /\ sent[c] \in Seq(Event)
    BY <1>1 DEF CallSink, TypeOK
  <2>2. ev \in Event
    BY <1>1 DEF TypeOK, Event
  <2>3. \/ k \in DOMAIN sent[c] /\ sent'[c][k] = sent[c][k]
        \/ k = Len(sent[c]) + 1 /\ sent'[c][k] = ev
    BY <1>1, <2>1, <2>2
  <2> QED
    BY <1>1, <2>3
<1>2. CASE ~(snapSink[c] # NoSink /\ dec[c].action # "ignore" /\ d = c)
  BY <1>2 DEF CallSink, TypeOK
<1> QED
  BY <1>1, <1>2

(* A decision that waits to be emitted stays the recorded one, and its     *)
(* event is not sent before (Decide followed by Emit).                     *)
LEMMA HeldStep ==
  TypeOK /\ HeldInv /\ [Next]_vars => HeldInv'
<1> SUFFICES ASSUME TypeOK, HeldInv, [Next]_vars, NEW d \in Callers
             PROVE  /\ pc'[d] \in {"decided", "held", "emit"} =>
                         \E e \in ledger' : /\ e.caller = d /\ e.seq = seq'[d]
                                            /\ e.query = query'[d] /\ e.dec = dec'[d]
                    /\ \A k \in DOMAIN sent'[d] :
                         /\ sent'[d][k].seq <= seq'[d]
                         /\ pc'[d] # "idle" => sent'[d][k].seq < seq'[d]
  BY DEF HeldInv
<1> DEFINE Goal == /\ pc'[d] \in {"decided", "held", "emit"} =>
                         \E e \in ledger' : /\ e.caller = d /\ e.seq = seq'[d]
                                            /\ e.query = query'[d] /\ e.dec = dec'[d]
                   /\ \A k \in DOMAIN sent'[d] :
                         /\ sent'[d][k].seq <= seq'[d]
                         /\ pc'[d] # "idle" => sent'[d][k].seq < seq'[d]
<1>0. /\ seq[d] \in Nat
      /\ \A k \in DOMAIN sent[d] : sent[d][k].seq \in Nat
  <2>1. \A k \in DOMAIN sent[d] : sent[d][k] \in Event
    BY DEF TypeOK
  <2> QED
    BY <2>1, EngineAssumption DEF TypeOK, Event
<1>1. ASSUME UNCHANGED <<pc, ledger, seq, query, dec, sent>> PROVE Goal
  BY <1>1 DEF HeldInv
<1>2. ASSUME NEW c \in Callers, NEW o \in {"evaluate", "decide"}, NEW q \in Queries,
             Call(c, o, q)
      PROVE  Goal
  <2>1. UNCHANGED <<ledger, dec, sent>>
    BY <1>2 DEF Call
  <2>2. CASE d = c
    <3>1. pc'[d] = "enter" /\ seq'[d] = seq[d] + 1
      BY <1>2, <2>2 DEF Call, Goto, TypeOK
    <3> QED
      BY <1>0, <2>1, <3>1 DEF HeldInv
  <2>3. CASE d # c
    <3>1. pc'[d] = pc[d] /\ seq'[d] = seq[d] /\ query'[d] = query[d]
      BY <1>2, <2>3 DEF Call, Goto, TypeOK
    <3> QED
      BY <2>1, <3>1 DEF HeldInv
  <2> QED
    BY <2>2, <2>3
<1>3. ASSUME NEW c \in Callers, Snapshot(c) PROVE Goal
  BY <1>3 DEF Snapshot, Goto, HeldInv, TypeOK, historyVars
<1>4. ASSUME NEW c \in Callers, Scan(c) PROVE Goal
  <2>1. ASSUME NEW x, Conclude(c, x) PROVE Goal
    <3> DEFINE new == [caller |-> c, seq |-> seq[c], query |-> query[c],
                       from |-> from[c], upto |-> Len(installed), dec |-> x]
    <3>1. new \in ledger' /\ ledger \subseteq ledger' /\ UNCHANGED <<seq, query, sent>>
      BY <2>1 DEF Conclude
    <3>2. CASE d = c
      <4>1. dec'[d] = x /\ pc'[d] = "decided" /\ pc[d] = "scan"
        BY <1>4, <2>1, <3>2 DEF Conclude, Goto, TypeOK, Scan
      <4>2. new.caller = d /\ new.seq = seq[d] /\ new.query = query[d] /\ new.dec = x
        BY <3>2
      <4> QED
        BY <3>1, <4>1, <4>2 DEF HeldInv
    <3>3. CASE d # c
      <4>1. dec'[d] = dec[d] /\ pc'[d] = pc[d]
        BY <2>1, <3>3 DEF Conclude, Goto, TypeOK
      <4> QED
        BY <3>1, <4>1 DEF HeldInv
    <3> QED
      BY <3>2, <3>3
  <2> QED
    BY <1>1, <1>4, <2>1, ScanCases DEF historyVars
<1>5. ASSUME NEW c \in Callers, pc[c] # "idle", pc' = [pc EXCEPT ![c] = "idle"],
             CallSink(c), UNCHANGED <<ledger, seq, query, dec>>
      PROVE  Goal
  <2>1. ASSUME NEW k \in DOMAIN sent'[d]
        PROVE  /\ sent'[d][k].seq <= seq[d]
               /\ pc'[d] # "idle" => sent'[d][k].seq < seq[d]
    BY <1>0, <1>5, CallSinkAdds DEF HeldInv, TypeOK
  <2> QED
    BY <1>5, <2>1 DEF HeldInv, TypeOK
<1>6. ASSUME NEW c \in Callers, Return(c) PROVE Goal
  <2>1. CASE op[c] = "evaluate" /\ CallSink(c) /\ Goto(c, "idle")
    BY <1>5, <1>6, <2>1 DEF Return, Goto, historyVars
  <2>2. CASE op[c] = "decide" /\ sent' = sent /\ Goto(c, "held")
    BY <1>6, <2>2 DEF Return, Goto, HeldInv, TypeOK, historyVars
  <2> QED
    BY <1>6, <2>1, <2>2 DEF Return
<1>7. ASSUME NEW c \in Callers, EmitSnapshot(c) PROVE Goal
  BY <1>7 DEF EmitSnapshot, Goto, HeldInv, TypeOK, historyVars
<1>8. ASSUME NEW c \in Callers, EmitReturn(c) PROVE Goal
  BY <1>5, <1>8 DEF EmitReturn, Goto, historyVars
<1>9. ASSUME NEW c \in Callers, DropHeld(c) PROVE Goal
  BY <1>9 DEF DropHeld, Goto, HeldInv, TypeOK, historyVars
<1>10. CASE UNCHANGED <<pc, ledger, seq, query, dec, sent>>
  BY <1>1, <1>10
<1> QED
  BY <1>2, <1>3, <1>4, <1>6, <1>7, <1>8, <1>9, <1>10
     DEF Next, SetSink, Reload, vars, callVars, historyVars

(* No step sends an event that differs from its decision, is out of order  *)
(* or is sent again (Evaluate and Emit).                                   *)
LEMMA EventStep ==
  TypeOK /\ HeldInv /\ EventFidelity /\ [Next]_vars => EventFidelity'
<1> SUFFICES ASSUME TypeOK, HeldInv, EventFidelity, [Next]_vars PROVE EventFidelity'
  OBVIOUS
<1>1. ASSUME sent' = sent, ledger \subseteq ledger' PROVE EventFidelity'
  BY <1>1 DEF EventFidelity
<1>2. ASSUME NEW c \in Callers, pc[c] \in {"decided", "emit"}, CallSink(c), ledger' = ledger
      PROVE  EventFidelity'
  <2> SUFFICES ASSUME NEW d \in Callers, NEW k \in DOMAIN sent'[d]
               PROVE  /\ \E e \in ledger : /\ e.caller = d /\ e.seq = sent'[d][k].seq
                                           /\ e.query = sent'[d][k].query
                                           /\ e.dec = sent'[d][k].dec
                      /\ sent'[d][k].dec.action # "ignore"
                      /\ \A j \in DOMAIN sent'[d] :
                           j < k => sent'[d][j].seq < sent'[d][k].seq
    BY <1>2 DEF EventFidelity
  <2>0. DOMAIN sent[d] = 1 .. Len(sent[d]) /\ Len(sent[d]) \in Nat
    BY DEF TypeOK
  <2>1. CASE k \in DOMAIN sent[d] /\ sent'[d][k] = sent[d][k]
    <3>1. \A j \in DOMAIN sent'[d] :
             j < k => j \in DOMAIN sent[d] /\ sent'[d][j] = sent[d][j]
      BY <1>2, <2>0, <2>1, CallSinkAdds
    <3> QED
      BY <2>1, <3>1 DEF EventFidelity
  <2>2. CASE /\ d = c /\ k = Len(sent[c]) + 1 /\ dec[c].action # "ignore"
             /\ sent'[c][k].seq = seq[c] /\ sent'[c][k].query = query[c]
             /\ sent'[c][k].dec = dec[c]
    <3>1. \A j \in DOMAIN sent'[d] :
             j < k => j \in DOMAIN sent[d] /\ sent'[d][j] = sent[d][j]
      BY <1>2, <2>0, <2>2, CallSinkAdds
    <3>2. \A j \in DOMAIN sent[d] : sent[d][j].seq < seq[c]
      BY <1>2, <2>2 DEF HeldInv
    <3>3. \E e \in ledger : /\ e.caller = c /\ e.seq = seq[c]
                            /\ e.query = query[c] /\ e.dec = dec[c]
      BY <1>2 DEF HeldInv
    <3> QED
      BY <2>2, <3>1, <3>2, <3>3
  <2> QED
    BY <1>2, <2>1, <2>2, CallSinkAdds
<1>3. ASSUME NEW c \in Callers, Scan(c) PROVE EventFidelity'
  BY <1>1, <1>3, ScanCases DEF Conclude, historyVars
<1>4. ASSUME NEW c \in Callers, Return(c) PROVE EventFidelity'
  BY <1>1, <1>2, <1>4 DEF Return, historyVars
<1>5. ASSUME NEW c \in Callers, EmitReturn(c) PROVE EventFidelity'
  BY <1>2, <1>5 DEF EmitReturn, historyVars
<1>6. CASE UNCHANGED <<sent, ledger>>
  BY <1>1, <1>6
<1> QED
  BY <1>3, <1>4, <1>5, <1>6
     DEF Next, SetSink, Reload, Call, Snapshot, EmitSnapshot, DropHeld, vars, callVars,
         historyVars

(* The inductive invariant holds of a new engine (New).                    *)
LEMMA IInvInit == Init => IInv
<1> SUFFICES ASSUME Init PROVE IInv
  OBVIOUS
<1>1. TypeOK
  BY TypeInit
<1>2. HistoryInv
  BY DEF Init, HistoryInv
<1>3. ScanInv /\ HeldInv
  BY DEF Init, ScanInv, HeldInv
<1>4. FreshDecision /\ EventFidelity
  BY DEF Init, FreshDecision, EventFidelity
<1> QED
  BY <1>1, <1>2, <1>3, <1>4 DEF IInv

(* The inductive invariant holds in every reachable state.                 *)
THEOREM Inductive == Spec => []IInv
<1>1. IInv /\ [Next]_vars => IInv'
  BY TypeStep, HistoryStep, ScanStep, FreshStep, HeldStep, EventStep DEF IInv
<1> QED
  BY <1>1, IInvInit, PTL DEF Spec

(* A decision never mixes two rule lists and is never older than the call  *)
(* (Evaluate and Decide racing Reload).                                    *)
THEOREM DecisionsAreFresh == Spec => []FreshDecision
<1>1. IInv => FreshDecision
  BY DEF IInv
<1> QED
  BY <1>1, Inductive, PTL

(* Events carry the enforced decision, in order and at most once           *)
(* (Evaluate, and Decide followed by Emit, racing Reload and SetSink).     *)
THEOREM EventsAreFaithful == Spec => []EventFidelity
<1>1. IInv => EventFidelity
  BY DEF IInv
<1> QED
  BY <1>1, Inductive, PTL
-----------------------------------------------------------------------------
(***************************************************************************)
(* The engine implements the decision service.                             *)
(***************************************************************************)

(* The service reads rules as the engine does (Rules is instantiated in    *)
(* both with the same constants).                                          *)
LEMMA SameFirstMatch ==
  ASSUME NEW rs, NEW q
  PROVE  Service!FirstMatch(rs, q) = FirstMatch(rs, q)
<1>1. ASSUME NEW r PROVE Service!Matches(r, q) <=> Matches(r, q)
  BY DEF Matches, Admits, EqualFold, Service!Matches, Service!Admits, Service!EqualFold
<1>2. Service!Matching(rs, q) = Matching(rs, q)
  BY <1>1 DEF Matching, Service!Matching
<1>3. (CHOOSE k \in Service!Matching(rs, q) : Service!IsFirst(k, rs, q))
      = (CHOOSE k \in Matching(rs, q) : IsFirst(k, rs, q))
  BY <1>2 DEF IsFirst, Service!IsFirst
<1> QED
  BY <1>2, <1>3 DEF FirstMatch, Service!FirstMatch, DecisionOf, Service!DecisionOf,
                    DefaultAllow, Service!DefaultAllow

(* A new engine is a new decision service (New).                           *)
LEMMA ServiceInit == Init => Service!Init
<1> SUFFICES ASSUME Init PROVE Service!Init
  OBVIOUS
<1>1. TypeOK
  BY TypeInit
<1>2. Status = [c \in Callers |-> "idle"]
  BY DEF Init, Status
<1>3. Answer \in [Callers -> Decision]
  BY DefaultAllowType DEF Init, Answer
<1> QED
  BY <1>1, <1>2, <1>3 DEF Init, TypeOK, Service!Init, Decision, Service!Decision

(* The iterations of the loop are invisible: whether it goes on or ends,   *)
(* the call keeps the answer it had when the lock was released.            *)
LEMMA ScanInvisible ==
  ASSUME TypeOK, ScanInv, NEW c \in Callers, Scan(c)
  PROVE  UNCHANGED Service!svcVars
<1>0. pc[c] = "scan"
  BY DEF Scan
<1>1. CASE Conclude(c, FirstMatch(snapRules[c], query[c]))
  <2>1. pc' = [pc EXCEPT ![c] = "decided"]
        /\ dec' = [dec EXCEPT ![c] = FirstMatch(snapRules[c], query[c])]
        /\ UNCHANGED <<rules, sink, op, query, seq, snapRules, snapSink, sent>>
    BY <1>1 DEF Conclude, Goto, engineVars
  <2>2. Status' = Status
    BY <1>0, <2>1 DEF Status, TypeOK
  <2>3. Answer' = Answer
    BY <1>0, <2>1 DEF Answer, TypeOK
  <2> QED
    BY <2>1, <2>2, <2>3 DEF Service!svcVars
<1>2. CASE UNCHANGED <<engineVars, pc, op, query, seq, snapRules, snapSink, dec, sent,
                       historyVars>>
  BY <1>2 DEF Service!svcVars, Status, Answer, engineVars
<1> QED
  BY <1>1, <1>2, ScanConcludes

(* Every step of the engine is a step of the decision service or invisible *)
(* to it (all operations of the engine).                                   *)
LEMMA ServiceStep ==
  TypeOK /\ ScanInv /\ [Next]_vars => [Service!Next]_(Service!svcVars)
<1> SUFFICES ASSUME TypeOK, ScanInv, [Next]_vars PROVE [Service!Next]_(Service!svcVars)
  OBVIOUS
<1>1. ASSUME NEW s \in Sinks \cup {NoSink}, SetSink(s) PROVE Service!SetSink(s)
  BY <1>1 DEF SetSink, Service!SetSink, Status, Answer, callVars
<1>2. ASSUME NEW rs \in RuleSets, Reload(rs) PROVE Service!Reload(rs)
  BY <1>2 DEF Reload, Service!Reload, Status, Answer, callVars
<1>3. ASSUME NEW c \in Callers, NEW o \in {"evaluate", "decide"}, NEW q \in Queries,
             Call(c, o, q)
      PROVE  Service!Ask(c, o, q)
  <2>1. pc[c] = "idle" /\ pc' = [pc EXCEPT ![c] = "enter"]
        /\ query' = [query EXCEPT ![c] = q] /\ UNCHANGED <<snapRules, dec>>
    BY <1>3 DEF Call, Goto
  <2>2. Status[c] = "idle" /\ Status' = [Status EXCEPT ![c] = "asked"]
    BY <2>1 DEF Status, TypeOK
  <2>3. Answer' = Answer
    BY <2>1 DEF Answer, TypeOK
  <2> QED
    BY <1>3, <2>2, <2>3 DEF Call, Service!Ask, Service!Become, engineVars
<1>4. ASSUME NEW c \in Callers, Snapshot(c) PROVE Service!Answer(c)
  <2>1. pc[c] = "enter" /\ pc' = [pc EXCEPT ![c] = "scan"]
        /\ snapRules' = [snapRules EXCEPT ![c] = rules] /\ UNCHANGED <<query, dec>>
    BY <1>4 DEF Snapshot, Goto
  <2>2. Status[c] = "asked" /\ Status' = [Status EXCEPT ![c] = "answered"]
    BY <2>1 DEF Status, TypeOK
  <2>3. Answer' = [Answer EXCEPT ![c] = FirstMatch(rules, query[c])]
    BY <2>1 DEF Answer, TypeOK
  <2> QED
    BY <1>4, <2>2, <2>3, SameFirstMatch
       DEF Snapshot, Service!Answer, Service!Become, engineVars
<1>5. ASSUME NEW c \in Callers, pc[c] \in {"decided", "emit"}, CallSink(c)
      PROVE  Service!Deliver(c)
  <2>1. Answer[c] = dec[c]
    BY <1>5 DEF Answer
  <2> QED
    BY <1>5, <2>1 DEF CallSink, Service!Deliver, Service!Event
<1>6. ASSUME NEW c \in Callers, NEW l \in {"idle", "held", "emit"},
             pc[c] \in {"decided", "held", "emit"}, pc' = [pc EXCEPT ![c] = l],
             UNCHANGED <<snapRules, query, dec>>
      PROVE  Status' = [Status EXCEPT ![c] = l] /\ Answer' = Answer
  BY <1>6 DEF Status, Answer, TypeOK
<1>7. ASSUME NEW c \in Callers, Return(c) PROVE Service!Return(c)
  <2>1. pc[c] = "decided" /\ Status[c] = "answered"
    BY <1>7 DEF Return, Status
  <2>2. CASE op[c] = "evaluate" /\ CallSink(c) /\ Goto(c, "idle")
    BY <1>5, <1>6, <1>7, <2>1, <2>2
       DEF Return, Goto, Service!Return, Service!Become, engineVars
  <2>3. CASE op[c] = "decide" /\ sent' = sent /\ Goto(c, "held")
    BY <1>6, <1>7, <2>1, <2>3
       DEF Return, Goto, Service!Return, Service!Become, engineVars
  <2> QED
    BY <1>7, <2>2, <2>3 DEF Return
<1>8. ASSUME NEW c \in Callers, EmitSnapshot(c) PROVE Service!Emit(c)
  <2>1. pc[c] = "held" /\ Status[c] = "held"
    BY <1>8 DEF EmitSnapshot, Status
  <2> QED
    BY <1>6, <1>8, <2>1 DEF EmitSnapshot, Goto, Service!Emit, Service!Become, engineVars
<1>9. ASSUME NEW c \in Callers, EmitReturn(c) PROVE Service!EmitReturn(c)
  <2>1. pc[c] = "emit" /\ Status[c] = "emit"
    BY <1>9 DEF EmitReturn, Status
  <2> QED
    BY <1>5, <1>6, <1>9, <2>1
       DEF EmitReturn, Goto, Service!EmitReturn, Service!Become, engineVars
<1>10. ASSUME NEW c \in Callers, DropHeld(c) PROVE Service!Drop(c)
  <2>1. pc[c] = "held" /\ Status[c] = "held"
    BY <1>10 DEF DropHeld, Status
  <2> QED
    BY <1>6, <1>10, <2>1 DEF DropHeld, Goto, Service!Drop, Service!Become, engineVars
<1>11. CASE UNCHANGED vars
  BY <1>11 DEF vars, Service!svcVars, Status, Answer
<1>12. ASSUME NEW c \in Callers, Scan(c) PROVE UNCHANGED Service!svcVars
  BY <1>12, ScanInvisible
<1>13. CASE Next
  BY <1>1, <1>2, <1>3, <1>4, <1>7, <1>8, <1>9, <1>10, <1>12, <1>13 DEF Next, Service!Next
<1> QED
  BY <1>11, <1>13

(* Every behaviour of the engine is one of the decision service: for its   *)
(* callers a decision is made in one instant, from the rules and the sink  *)
(* of that instant (Evaluate, Decide, Emit, Reload and SetSink).           *)
THEOREM Refinement == Spec => ServiceSpec
<1>1. IInv => TypeOK /\ ScanInv
  BY DEF IInv
<1> QED
  BY <1>1, Inductive, ServiceInit, ServiceStep, PTL DEF Spec, ServiceSpec, Service!Spec
=============================================================================
