------------------------- MODULE ConsoleClientProofs -------------------------
(***************************************************************************)
(* Proof, for all intervals and timeouts and any number of publications,   *)
(* that the loop of Start keeps its state well formed and that failed,     *)
(* late and repeated polls never take the enforced rules back.             *)
(***************************************************************************)
EXTENDS ConsoleClient, TLAPS

(* The constants of Start as numbers, and the caps of the two clocks.      *)
LEMMA Bounds ==
  ASSUME TypeOK
  PROVE  /\ BeatEvery \in Nat /\ BeatEvery > 0 /\ Timeout \in Nat /\ Timeout > 0
         /\ DefaultPoll \in Nat /\ DefaultPoll > 0 /\ MaxPublish \in Nat
         /\ BeatGap \in Nat /\ RuleLag \in Nat
BY ClientAssumption DEF TypeOK, BeatGap, RuleLag

(* Every effective poll interval is positive, whatever Start is given.     *)
LEMMA EffectivePositive ==
  ASSUME NEW p \in PollIntervals
  PROVE  Effective(p) \in Nat \ {0}
BY ClientAssumption DEF Effective

(* The invariant holds when Start is entered.                              *)
LEMMA IInvInit == Init => IInv
<1> SUFFICES ASSUME Init PROVE IInv
  OBVIOUS
<1>1. interval \in Nat \ {0}
  BY EffectivePositive DEF Init
<1>2. BeatGap \in Nat /\ RuleLag \in Nat /\ Timeout \in Nat /\ BeatEvery \in Nat
  BY <1>1, ClientAssumption DEF BeatGap, RuleLag
<1>3. published \in 0..MaxPublish
  BY DEF Init
<1>4. MaxPublish \in Nat
  BY ClientAssumption
<1>5. {running, ruleReady, beatReady, cancelled, healthy, skipped} \subseteq BOOLEAN
  BY Zenon DEF Init
<1>6. /\ ruleLeft \in 0..interval /\ beatLeft \in 0..BeatEvery /\ reqLeft \in 0..Timeout
      /\ {body, installed, published} \subseteq 0..MaxPublish
      /\ sinceBeat \in 0..(BeatGap + 1) /\ lag \in 0..(RuleLag + 1)
  BY <1>1, <1>2, <1>3, <1>4 DEF Init
<1>7. TypeOK
  BY <1>1, <1>5, <1>6 DEF Init, TypeOK
<1> QED
  BY <1>3, <1>4, <1>7 DEF Init, IInv, LoopInv

(* Every step of the goroutine, of the console and of time keeps it.       *)
LEMMA IInvStep == IInv /\ [Next]_vars => IInv'
<1> SUFFICES ASSUME IInv, [Next]_vars PROVE IInv'
  OBVIOUS
<1>0. /\ BeatEvery \in Nat /\ BeatEvery > 0 /\ Timeout \in Nat /\ Timeout > 0
      /\ MaxPublish \in Nat /\ BeatGap \in Nat /\ RuleLag \in Nat
  BY Bounds DEF IInv
<1>a. ASSUME interval' = interval PROVE RuleLag' = RuleLag
  BY <1>a DEF RuleLag
<1> USE DEF IInv, TypeOK, LoopInv
<1>1. CASE Begin
  BY <1>0, <1>1, <1>a DEF Begin, Send, consoleVars
<1>2. CASE FetchDone
  BY <1>0, <1>2, <1>a DEF FetchDone, AfterFetch, EndRequest, Send, consoleVars
<1>3. CASE FetchFailed
  BY <1>0, <1>3, <1>a DEF FetchFailed, AfterFetch, EndRequest, Send, consoleVars
<1>4. CASE BeatDone
  BY <1>0, <1>4, <1>a DEF BeatDone, EndRequest, consoleVars, historyVars
<1>5. CASE SelectDone
  BY <1>0, <1>5, <1>a DEF SelectDone, requestVars, consoleVars, historyVars
<1>6. CASE SelectRule
  <2>1. ruleReady' \in BOOLEAN
    BY <1>6, Zenon DEF SelectRule
  <2>2. UNCHANGED <<interval, running, ruleLeft, beatLeft, beatReady, cancelled, installed, body,
                    published, healthy, lag, skipped>>
    BY <1>6 DEF SelectRule, Send, consoleVars
  <2>3. /\ pc' \in {"fetch", "beat"} /\ reqLeft' = Timeout /\ reply' = "pending"
        /\ sinceBeat' \in {0, sinceBeat}
    BY <1>6 DEF SelectRule, Send
  <2> QED
    BY <1>0, <1>a, <2>1, <2>2, <2>3
<1>7. CASE SelectBeat
  <2>1. beatReady' \in BOOLEAN
    BY <1>7, Zenon DEF SelectBeat
  <2>2. UNCHANGED <<interval, running, ruleLeft, beatLeft, ruleReady, cancelled, installed, body,
                    published, healthy, lag, skipped>>
    BY <1>7 DEF SelectBeat, Send, consoleVars
  <2>3. /\ pc' \in {"fetch", "beat"} /\ reqLeft' = Timeout /\ reply' = "pending"
        /\ sinceBeat' \in {0, sinceBeat}
    BY <1>7 DEF SelectBeat, Send
  <2> QED
    BY <1>0, <1>a, <2>1, <2>2, <2>3
<1>8. CASE Cancel
  BY <1>0, <1>8, <1>a DEF Cancel, requestVars, consoleVars, historyVars
<1>9. CASE Publish
  BY <1>0, <1>9, <1>a DEF Publish, clientVars, requestVars
<1>10. CASE ChangeHealth
  BY <1>0, <1>10, <1>a DEF ChangeHealth, clientVars, requestVars
<1>11. CASE AnswerOk
  BY <1>0, <1>11, <1>a DEF AnswerOk, clientVars, consoleVars, historyVars
<1>12. CASE AnswerBad
  BY <1>0, <1>12, <1>a DEF AnswerBad, clientVars, consoleVars, historyVars
<1>13. CASE Tick
  <2>1. UNCHANGED <<interval, pc, running, cancelled, installed, reply, body, published, healthy>>
    BY <1>13 DEF Tick, consoleVars
  <2>2. reqLeft' \in 0..Timeout
    BY <1>0, <1>13 DEF Tick, Blocked
  <2>3. /\ ruleLeft' \in 0..interval /\ beatLeft' \in 0..BeatEvery
        /\ running => ruleLeft' > 0 /\ beatLeft' > 0
        /\ {ruleReady', beatReady', skipped'} \subseteq BOOLEAN
    BY <1>0, <1>13 DEF Tick
  <2>4. sinceBeat' \in 0..(BeatGap + 1) /\ lag' \in 0..(RuleLag + 1)
    BY <1>0, <1>13 DEF Tick, UpTo
  <2> QED
    BY <1>0, <1>a, <2>1, <2>2, <2>3, <2>4
<1>14. CASE UNCHANGED vars
  BY <1>0, <1>14, <1>a DEF vars
<1> QED
  BY <1>1, <1>2, <1>3, <1>4, <1>5, <1>6, <1>7, <1>8, <1>9, <1>10, <1>11, <1>12, <1>13, <1>14
     DEF Next, Client

(* The state of Start stays well formed: the poll interval is positive     *)
(* whatever argument it was given, and no ticker or timeout runs past 0.   *)
THEOREM TypeCorrect == Spec => []TypeOK
<1>1. IInv => TypeOK
  BY DEF IInv
<1> QED
  BY <1>1, IInvInit, IInvStep, PTL DEF Spec

(* The enforced list never goes back to an older publication (Start,       *)
(* fetchRules): only FetchDone installs a list, and the answer it installs *)
(* was made after the one enforced now.                                    *)
THEOREM RulesNeverGoBack == Spec => RulesAdvance
<1>1. IInv /\ [Next]_vars => [installed' >= installed]_vars
  <2> SUFFICES ASSUME IInv, Next PROVE installed' >= installed
    BY DEF vars
  <2>1. installed \in Nat /\ body \in Nat
    BY ClientAssumption DEF IInv, TypeOK
  <2>2. CASE FetchDone
    BY <2>1, <2>2 DEF FetchDone, IInv, LoopInv
  <2>3. CASE ~FetchDone
    <3>1. installed' = installed
      BY <2>3 DEF Next, Client, Begin, FetchFailed, BeatDone, SelectDone, SelectRule,
                  SelectBeat, Cancel, Publish, ChangeHealth, AnswerOk, AnswerBad, Tick,
                  clientVars
    <3> QED
      BY <2>1, <3>1
  <2> QED
    BY <2>2, <2>3
<1> QED
  BY <1>1, IInvInit, IInvStep, PTL DEF Spec, RulesAdvance

(***************************************************************************)
(* Heartbeats are sent in time.                                            *)
(***************************************************************************)

(* What IInv says of the numbers and flags of the loop.                    *)
LEMMA Clocks ==
  ASSUME IInv
  PROVE  /\ interval \in Nat /\ interval > 0 /\ Timeout \in Nat /\ Timeout > 0
         /\ BeatEvery \in Nat /\ BeatEvery >= 3 * Timeout
         /\ ruleLeft \in Nat /\ ruleLeft <= interval /\ beatLeft \in Nat /\ beatLeft <= BeatEvery
         /\ reqLeft \in Nat /\ reqLeft <= Timeout
         /\ sinceBeat \in Nat /\ lag \in Nat
         /\ running => ruleLeft > 0 /\ beatLeft > 0 /\ pc \in {"fetch", "beat", "select"}
         /\ pc = "select" => running
         /\ BeatGap = BeatEvery + 2 * Timeout /\ RuleLag = interval + 3 * (Timeout - 1)
         /\ reply = "pending" => pc \in {"fetch", "beat"}
BY Bounds, ClientAssumption DEF IInv, TypeOK, LoopInv, BeatGap, RuleLag

LEMMA BeatInit == Init => BeatInv /\ HeartbeatGap
<1> SUFFICES ASSUME Init PROVE BeatInv /\ HeartbeatGap
  OBVIOUS
<1>1. IInv
  BY IInvInit
<1> QED
  BY <1>1, Clocks DEF Init, BeatInv, HeartbeatGap

LEMMA BeatStep ==
  ASSUME IInv, BeatInv, HeartbeatGap, [Next]_vars
  PROVE  BeatInv' /\ HeartbeatGap'
<1>0. sinceBeat' \in Nat
  <2>1. sinceBeat' \in 0 .. BeatGap' + 1 /\ BeatGap' \in Nat
    BY IInvStep, ClientAssumption DEF IInv, TypeOK, BeatGap
  <2> QED
    BY <2>1
<1>1. interval' = interval /\ BeatGap' = BeatGap
  BY DEF Next, Client, Begin, FetchDone, FetchFailed, BeatDone, SelectDone, SelectRule, SelectBeat,
         Cancel, Publish, ChangeHealth, AnswerOk, AnswerBad, Tick, clientVars, vars, BeatGap
<1> SUFFICES ASSUME interval >= 2 * Timeout PROVE BeatInv' /\ HeartbeatGap'
  BY <1>1 DEF BeatInv, HeartbeatGap
<1> USE Clocks DEF BeatInv, HeartbeatGap
<1>2. CASE Begin
  BY <1>1, <1>2 DEF Begin, Send, consoleVars
<1>3. CASE FetchDone
  BY <1>1, <1>3 DEF FetchDone, AfterFetch, EndRequest, Send, consoleVars
<1>4. CASE FetchFailed
  BY <1>1, <1>4 DEF FetchFailed, AfterFetch, EndRequest, Send, consoleVars
<1>5. CASE BeatDone
  BY <1>1, <1>5 DEF BeatDone, EndRequest, consoleVars, historyVars
<1>6. CASE SelectDone
  BY <1>1, <1>6 DEF SelectDone, requestVars, consoleVars, historyVars
<1>7. CASE SelectRule
  <2>1. ~ruleReady' /\ UNCHANGED <<running, beatReady, skipped>>
    BY <1>7, Zenon DEF SelectRule
  <2>2. /\ pc = "select" /\ ruleReady /\ pc' = "fetch" /\ reqLeft' = Timeout
        /\ UNCHANGED <<ruleLeft, beatLeft, sinceBeat>>
    BY <1>7 DEF SelectRule, Send
  <2> QED
    BY <1>1, <2>1, <2>2
<1>8. CASE SelectBeat
  <2>1. ~beatReady' /\ UNCHANGED <<running, ruleReady, skipped>>
    BY <1>8, Zenon DEF SelectBeat
  <2>2. /\ pc = "select" /\ beatReady /\ pc' = "beat" /\ reqLeft' = Timeout /\ sinceBeat' = 0
        /\ UNCHANGED <<ruleLeft, beatLeft>>
    BY <1>8 DEF SelectBeat, Send
  <2> QED
    BY <1>1, <2>1, <2>2
<1>9. CASE Tick
  <2>0. sinceBeat' \in Nat /\ sinceBeat' <= sinceBeat + 1 /\ UNCHANGED <<pc, running>>
    BY <1>0, <1>9 DEF Tick, UpTo
  <2>1. CASE ~running
    <3>1. /\ reply = "pending" /\ reqLeft > 0 /\ reqLeft' = reqLeft - 1
          /\ UNCHANGED <<ruleLeft, beatLeft, ruleReady, beatReady, skipped>>
      BY <1>9, <2>1 DEF Tick, Blocked
    <3> QED
      BY <1>1, <2>0, <2>1, <3>1
  <2>2. CASE running
    <3>1. /\ ruleLeft' = IF ruleLeft = 1 THEN interval ELSE ruleLeft - 1
          /\ beatLeft' = IF beatLeft = 1 THEN BeatEvery ELSE beatLeft - 1
          /\ ruleReady' <=> ruleReady \/ ruleLeft = 1
          /\ beatReady' <=> beatReady \/ beatLeft = 1
          /\ skipped' <=> skipped \/ (beatReady /\ beatLeft = 1)
      BY <1>9, <2>2 DEF Tick
    <3>2. CASE pc = "select"
      <4>1. ~ruleReady /\ ~beatReady
        BY <1>9, <3>2 DEF Blocked, Tick
      <4> QED
        BY <1>1, <2>0, <2>2, <3>1, <3>2, <4>1
    <3>3. CASE pc = "beat"
      <4>1. reqLeft > 0 /\ reqLeft' = reqLeft - 1
        BY <1>9, <3>3 DEF Blocked, Tick
      <4> QED
        BY <1>1, <2>0, <2>2, <3>1, <3>3, <4>1
    <3>4. CASE pc = "fetch"
      <4>1. reqLeft > 0 /\ reqLeft' = reqLeft - 1
        BY <1>9, <3>4 DEF Blocked, Tick
      <4> QED
        BY <1>1, <2>0, <2>2, <3>1, <3>4, <4>1
    <3> QED
      BY <2>2, <3>2, <3>3, <3>4
  <2> QED
    BY <2>1, <2>2
<1>10. ASSUME UNCHANGED <<pc, running, ruleLeft, beatLeft, ruleReady, beatReady, reqLeft,
                          sinceBeat, skipped>>
       PROVE  BeatInv' /\ HeartbeatGap'
  BY <1>1, <1>10
<1>11. ASSUME Cancel \/ Publish \/ ChangeHealth \/ AnswerOk \/ AnswerBad \/ UNCHANGED vars
       PROVE  UNCHANGED <<pc, running, ruleLeft, beatLeft, ruleReady, beatReady, reqLeft,
                          sinceBeat, skipped>>
  BY <1>11 DEF Cancel, Publish, ChangeHealth, AnswerOk, AnswerBad, vars, clientVars, requestVars,
               consoleVars, historyVars
<1> QED
  BY <1>2, <1>3, <1>4, <1>5, <1>6, <1>7, <1>8, <1>9, <1>10, <1>11 DEF Next, Client

(* Heartbeats are at most one interval and two request timeouts apart and  *)
(* no heartbeat tick is dropped, whatever requests take and fail, if the   *)
(* polls are at least two request timeouts apart (Start).                  *)
THEOREM HeartbeatsInTime == Spec => []HeartbeatGap
<1>1. Init => IInv /\ BeatInv /\ HeartbeatGap
  BY IInvInit, BeatInit
<1>2. (IInv /\ BeatInv /\ HeartbeatGap) /\ [Next]_vars => (IInv /\ BeatInv /\ HeartbeatGap)'
  BY IInvStep, BeatStep
<1> QED
  BY <1>1, <1>2, PTL DEF Spec

(***************************************************************************)
(* Rules are enforced in time.                                             *)
(***************************************************************************)

(* The waits are numbers and at most one interval and three request times. *)
WaitFacts ==
  /\ Quick \in Nat /\ Rest \in Nat /\ Rest <= Quick
  /\ SelectWait \in Nat /\ BeatWait \in Nat /\ FetchWait \in Nat /\ Wait \in Nat
  /\ SelectWait <= RuleLag /\ BeatWait <= RuleLag /\ FetchWait <= RuleLag /\ Wait <= RuleLag
  /\ RuleLag \in Nat /\ lag \in Nat

LEMMA WaitBound == IInv => WaitFacts
<1> SUFFICES ASSUME IInv PROVE WaitFacts
  OBVIOUS
<1> USE Clocks
<1>1. Quick \in Nat /\ Quick = Timeout - 1 /\ Rest \in Nat /\ Rest <= Quick
  BY DEF Quick, Rest
<1>2. SelectWait \in Nat /\ SelectWait <= RuleLag
  BY <1>1 DEF SelectWait
<1>3. BeatWait \in Nat /\ BeatWait <= RuleLag
  BY <1>1 DEF BeatWait
<1>4. FetchWait \in Nat /\ FetchWait <= RuleLag
  BY <1>1, <1>2 DEF FetchWait
<1>5. pc \in {"start", "fetch", "beat", "select", "stopped"}
  BY DEF IInv, TypeOK
<1>6. Wait \in Nat /\ Wait <= RuleLag
  BY <1>1, <1>2, <1>3, <1>4, <1>5 DEF Wait
<1> QED
  BY <1>1, <1>2, <1>3, <1>4, <1>6 DEF WaitFacts

LEMMA LagInit == Init => LagInv /\ EnforcementLag
<1> SUFFICES ASSUME Init PROVE LagInv /\ EnforcementLag
  OBVIOUS
<1>1. WaitFacts
  BY IInvInit, WaitBound
<1> QED
  BY <1>1 DEF Init, LagInv, SecondBeatInv, LateInv, EnforcementLag, WaitFacts

(* A heartbeat tick that comes during a heartbeat is younger than it.      *)
LEMMA SecondBeatStep ==
  ASSUME IInv, SecondBeatInv, [Next]_vars
  PROVE  SecondBeatInv'
<1> USE Clocks DEF SecondBeatInv
<1>1. CASE SelectBeat
  <2>1. ~beatReady'
    BY <1>1, Zenon DEF SelectBeat
  <2> QED
    BY <2>1
<1>2. CASE Tick
  <2>0. UNCHANGED <<pc, running>>
    BY <1>2 DEF Tick
  <2> SUFFICES ASSUME running, pc = "beat", beatReady'
               PROVE  beatLeft' >= BeatEvery - Timeout + reqLeft'
    BY <2>0
  <2>1. /\ beatLeft' = IF beatLeft = 1 THEN BeatEvery ELSE beatLeft - 1
        /\ beatReady' <=> beatReady \/ beatLeft = 1
    BY <1>2 DEF Tick
  <2>2. reqLeft > 0 /\ reqLeft' = reqLeft - 1
    BY <1>2 DEF Tick, Blocked
  <2> QED
    BY <2>1, <2>2
<1>3. CASE Begin \/ FetchDone \/ FetchFailed \/ BeatDone \/ SelectDone \/ SelectRule
  BY <1>3 DEF Begin, FetchDone, FetchFailed, BeatDone, SelectDone, SelectRule, AfterFetch, Send
<1>4. CASE Cancel \/ Publish \/ ChangeHealth \/ AnswerOk \/ AnswerBad \/ UNCHANGED vars
  BY <1>4 DEF Cancel, Publish, ChangeHealth, AnswerOk, AnswerBad, vars, clientVars, requestVars
<1> QED
  BY <1>1, <1>2, <1>3, <1>4 DEF Next, Client

(* A fetch that has just run out of time had no healthy console.           *)
LEMMA LateStep ==
  ASSUME IInv, LateInv, [Next]_vars
  PROVE  LateInv'
<1> USE Clocks DEF LateInv
<1>1. CASE Tick
  <2> SUFFICES ASSUME pc = "fetch", reqLeft' = 0
               PROVE  lag' = 0
    BY <1>1 DEF Tick
  <2>1. reqLeft = 1 /\ reply = "pending"
    BY <1>1 DEF Tick, Blocked
  <2>2. ~healthy
    BY <1>1, <2>1 DEF Tick, Blocked
  <2> QED
    BY <1>1, <2>2 DEF Tick
<1>2. CASE Begin \/ FetchDone \/ FetchFailed \/ BeatDone \/ SelectDone \/ SelectRule \/ SelectBeat
  BY <1>2 DEF Begin, FetchDone, FetchFailed, BeatDone, SelectDone, SelectRule, SelectBeat, AfterFetch,
              Send
<1>3. CASE Cancel \/ Publish \/ ChangeHealth \/ AnswerOk \/ AnswerBad \/ UNCHANGED vars
  BY <1>3 DEF Cancel, Publish, ChangeHealth, AnswerOk, AnswerBad, vars, clientVars, requestVars,
              historyVars
<1> QED
  BY <1>1, <1>2, <1>3 DEF Next, Client

(* No step lets the newest list wait longer than the bound promises.       *)
LEMMA LagStep ==
  ASSUME IInv, LagInv, EnforcementLag, [Next]_vars
  PROVE  LagInv' /\ EnforcementLag'
<1>w. PICK w : w = Wait'
  OBVIOUS
<1> DEFINE behind == healthy /\ installed < published
<1>0. WaitFacts /\ WaitFacts'
  <2>1. IInv' => WaitFacts'
    BY WaitBound, PTL
  <2> QED
    BY <2>1, IInvStep, WaitBound
<1>1. interval' = interval /\ RuleLag' = RuleLag
  BY DEF Next, Client, Begin, FetchDone, FetchFailed, BeatDone, SelectDone, SelectRule, SelectBeat,
         Cancel, Publish, ChangeHealth, AnswerOk, AnswerBad, Tick, clientVars, vars, RuleLag
<1>2. /\ Wait \in Nat /\ w \in Nat /\ w <= RuleLag /\ RuleLag \in Nat
      /\ lag \in Nat /\ interval \in Nat /\ Quick \in Nat
  BY <1>w, <1>0, <1>1, Clocks DEF WaitFacts, Quick
<1>3. behind => lag + Wait <= RuleLag
  BY DEF LagInv
<1>4. SecondBeatInv' /\ LateInv'
  BY SecondBeatStep, LateStep DEF LagInv
<1>a. ASSUME lag' = lag, behind' => behind, lag > 0 => behind', behind' => w <= Wait
      PROVE  LagInv' /\ EnforcementLag'
  <2>1. behind' => lag' + w <= RuleLag
    BY <1>2, <1>3, <1>a
  <2>2. EnforcementLag'
    BY <1>1, <1>a DEF EnforcementLag
  <2> QED
    BY <1>w, <1>1, <1>4, <1>a, <2>1, <2>2 DEF LagInv
<1>b. ASSUME lag' = 0
      PROVE  LagInv' /\ EnforcementLag'
  <2>1. lag' + w <= RuleLag /\ ~(lag' > 0) /\ lag' <= RuleLag
    BY <1>2, <1>b
  <2> QED
    BY <1>w, <1>1, <1>4, <2>1 DEF LagInv, EnforcementLag
<1>5. CASE Begin
  <2>1. /\ pc = "start" /\ pc' = "fetch" /\ reply' = "pending" /\ reqLeft' = Timeout
        /\ UNCHANGED <<lag, healthy, installed, published>>
    BY <1>5 DEF Begin, Send, consoleVars
  <2>2. Wait = Quick
    BY <2>1 DEF Wait
  <2>3. w = Quick
    BY <1>w, <2>1, Clocks DEF Wait, FetchWait, Rest, Quick
  <2> QED
    BY <1>a, <1>2, <2>1, <2>2, <2>3 DEF LagInv
<1>6. ASSUME FetchDone \/ FetchFailed, ~(reply = "ok" /\ body = published)
      PROVE  w = Wait
  <2>1. /\ pc = "fetch" /\ (reply = "ok" \/ reply = "bad" \/ reqLeft = 0) /\ AfterFetch
        /\ UNCHANGED <<running, ruleLeft, beatLeft, ruleReady, beatReady>>
    BY <1>6 DEF FetchDone, FetchFailed
  <2>2. Wait = IF running THEN SelectWait ELSE interval + 3 * Quick
    BY <1>6, <2>1, Clocks DEF Wait, FetchWait
  <2>3. CASE running
    BY <1>w, <2>1, <2>2, <2>3 DEF AfterFetch, Wait, SelectWait, Quick
  <2>4. CASE ~running
    <3>1. pc' = "beat" /\ reply' = "pending" /\ reqLeft' = Timeout /\ ~running'
      BY <2>1, <2>4, Zenon DEF AfterFetch, Send
    <3>2. w = Quick + interval + 2 * Quick
      BY <1>w, <1>1, <3>1, Clocks DEF Wait, Rest, Quick
    <3> QED
      BY <1>2, <2>2, <2>4, <3>2
  <2> QED
    BY <2>3, <2>4
<1>7. CASE FetchDone
  <2>1. /\ reply = "ok" /\ pc = "fetch"
        /\ UNCHANGED <<healthy, published>> /\ installed' = body
        /\ lag' = IF body = published THEN 0 ELSE lag
    BY <1>7 DEF FetchDone, consoleVars
  <2>2. CASE body = published
    BY <1>b, <2>1, <2>2
  <2>3. CASE body # published
    <3>1. w = Wait
      BY <1>6, <1>7, <2>3
    <3>2. installed \in Nat /\ published \in Nat /\ body \in Nat /\ installed <= body /\ body <= published
      BY <2>1, ClientAssumption DEF IInv, TypeOK, LoopInv
    <3>3. behind' <=> healthy
      BY <2>1, <2>3, <3>2
    <3>4. behind' => behind
      BY <2>3, <3>2, <3>3
    <3>5. lag > 0 => behind'
      BY <3>3 DEF LagInv
    <3> QED
      BY <1>a, <1>2, <2>1, <2>3, <3>1, <3>4, <3>5
  <2> QED
    BY <2>2, <2>3
<1>8. CASE FetchFailed
  <2>1. UNCHANGED <<lag, healthy, installed, published>>
    BY <1>8 DEF FetchFailed, consoleVars
  <2>2. CASE reply = "ok" /\ body = published
    <3>1. lag = 0
      BY <1>8, <2>2 DEF FetchFailed, LagInv, LateInv
    <3> QED
      BY <1>b, <2>1, <3>1
  <2>3. CASE ~(reply = "ok" /\ body = published)
    BY <1>a, <1>2, <1>6, <1>8, <2>1, <2>3 DEF LagInv
  <2> QED
    BY <2>2, <2>3
<1>9. CASE BeatDone
  <2>1. /\ pc = "beat" /\ pc' = "select" /\ (reply \in {"ok", "bad"} \/ reqLeft = 0)
        /\ running' = TRUE /\ UNCHANGED <<ruleReady, beatReady, lag, healthy, installed, published>>
        /\ ruleLeft' = IF running THEN ruleLeft ELSE interval
        /\ beatLeft' = IF running THEN beatLeft ELSE BeatEvery
    BY <1>9 DEF BeatDone, consoleVars, historyVars
  <2>2. Rest = 0
    BY <2>1, Clocks DEF Rest
  <2>3. beatLeft' \in Nat /\ ruleLeft' \in Nat
    BY <2>1, Clocks
  <2>4. w <= Wait
    <3>1. CASE running
      <4>1. Wait = BeatWait /\ ruleLeft' = ruleLeft /\ beatLeft' = beatLeft
        BY <2>1, <3>1 DEF Wait
      <4>2. beatReady => beatLeft > Quick
        BY <2>1, <3>1, Clocks DEF LagInv, SecondBeatInv, Quick
      <4>3. w = IF ruleReady
                THEN (IF beatReady THEN Quick ELSE 0) + Quick
                ELSE ruleLeft + 2 * Quick
        BY <1>w, <1>2, <2>1, <4>1, <4>2, Clocks DEF Wait, SelectWait, Quick
      <4> QED
        BY <1>2, <2>2, <4>1, <4>3, Clocks DEF BeatWait
    <3>2. CASE ~running
      <4>1. Wait = interval + 2 * Quick
        BY <1>2, <2>1, <2>2, <3>2 DEF Wait
      <4>2. w <= interval + 2 * Quick
        BY <1>w, <1>2, <2>1, <3>2, Clocks DEF Wait, SelectWait, Quick
      <4> QED
        BY <4>1, <4>2
    <3> QED
      BY <3>1, <3>2
  <2> QED
    BY <1>a, <2>1, <2>4 DEF LagInv
<1>10. CASE SelectDone
  <2>1. pc' = "stopped" /\ UNCHANGED <<lag, healthy, installed, published>>
    BY <1>10 DEF SelectDone, consoleVars, historyVars
  <2>2. w = 0
    BY <1>w, <2>1 DEF Wait
  <2> QED
    BY <1>a, <1>2, <2>1, <2>2 DEF LagInv
<1>11. CASE SelectRule
  <2>1. /\ pc = "select" /\ ruleReady /\ pc' = "fetch" /\ reply' = "pending" /\ reqLeft' = Timeout
        /\ UNCHANGED <<lag, healthy, installed, published>>
    BY <1>11 DEF SelectRule, Send, consoleVars
  <2>2. w = Quick
    BY <1>w, <2>1, Clocks DEF Wait, FetchWait, Rest, Quick
  <2>3. Quick <= Wait
    BY <1>2, <2>1 DEF Wait, SelectWait
  <2> QED
    BY <1>a, <2>1, <2>2, <2>3 DEF LagInv
<1>12. CASE SelectBeat
  <2>1. /\ pc = "select" /\ beatReady /\ running /\ pc' = "beat" /\ running' /\ ~beatReady'
        /\ UNCHANGED <<lag, healthy, installed, published, ruleReady, ruleLeft, beatLeft>>
    BY <1>12, Clocks, Zenon DEF SelectBeat, Send, consoleVars
  <2>2. reply' = "pending" /\ reqLeft' = Timeout
    BY <1>12 DEF SelectBeat, Send
  <2>3. w = IF ruleReady
            THEN Quick + (IF beatLeft <= Quick THEN Quick ELSE 0) + Quick
            ELSE ruleLeft + (IF beatLeft <= Quick THEN Quick ELSE 0) + 2 * Quick
    BY <1>w, <2>1, <2>2, Clocks DEF Wait, BeatWait, Rest, Quick
  <2>4. w = Wait
    BY <2>1, <2>3 DEF Wait, SelectWait
  <2> QED
    BY <1>a, <1>2, <2>1, <2>4 DEF LagInv
<1>13. CASE Publish \/ ChangeHealth
  BY <1>b, <1>13 DEF Publish, ChangeHealth
<1>14. CASE Cancel \/ UNCHANGED vars
  <2>1. UNCHANGED <<pc, running, ruleLeft, beatLeft, ruleReady, beatReady, reqLeft, reply, body, lag,
                    healthy, installed, published>>
    BY <1>14 DEF Cancel, vars, requestVars, consoleVars, historyVars
  <2>2. w = Wait
    BY <1>w, <1>1, <2>1 DEF Wait, FetchWait, BeatWait, SelectWait, Rest, Quick
  <2> QED
    BY <1>a, <1>2, <2>1, <2>2 DEF LagInv
<1>15. CASE AnswerOk
  <2>1. /\ reply = "pending" /\ reply' = "ok" /\ body' = published
        /\ UNCHANGED <<pc, running, ruleLeft, beatLeft, ruleReady, beatReady, lag, healthy, installed,
                       published>>
    BY <1>15 DEF AnswerOk, clientVars, consoleVars, historyVars
  <2>2. CASE pc = "fetch"
    <3>1. w = 0
      BY <1>w, <2>1, <2>2 DEF Wait, FetchWait
    <3> QED
      BY <1>a, <1>2, <2>1, <3>1 DEF LagInv
  <2>3. CASE pc = "beat"
    <3>1. Rest \in Nat
      BY <1>0 DEF WaitFacts
    <3>2. CASE running
      <4>1. w = IF ruleReady
                THEN (IF beatReady \/ beatLeft <= 0 THEN Quick ELSE 0) + Quick
                ELSE ruleLeft + (IF beatReady \/ beatLeft <= 0 THEN Quick ELSE 0) + 2 * Quick
        BY <1>w, <1>2, <2>1, <2>3, <3>2, Clocks DEF Wait, BeatWait, Rest, Quick
      <4>2. w <= Wait
        BY <1>2, <2>3, <3>1, <3>2, <4>1, Clocks DEF Wait, BeatWait
      <4> QED
        BY <1>a, <2>1, <4>2 DEF LagInv
    <3>3. CASE ~running
      <4>1. w = interval + 2 * Quick
        BY <1>w, <1>1, <1>2, <2>1, <2>3, <3>3 DEF Wait, Rest, Quick
      <4>2. w <= Wait
        BY <1>2, <2>3, <3>1, <3>3, <4>1 DEF Wait
      <4> QED
        BY <1>a, <2>1, <4>2 DEF LagInv
    <3> QED
      BY <3>2, <3>3
  <2> QED
    BY <2>1, <2>2, <2>3, Clocks
<1>16. CASE AnswerBad
  <2>1. ~healthy /\ UNCHANGED <<lag, healthy>>
    BY <1>16 DEF AnswerBad, consoleVars, historyVars
  <2>2. ~behind' /\ ~(lag > 0)
    BY <2>1 DEF LagInv
  <2> QED
    BY <1>a, <2>1, <2>2
<1>17. CASE Tick
  <2>1. /\ UNCHANGED <<pc, running, reply, body, healthy, installed, published>>
        /\ lag' = IF behind THEN UpTo(RuleLag + 1, lag + 1) ELSE 0
    BY <1>17 DEF Tick, consoleVars
  <2>2. CASE ~behind
    BY <1>b, <2>1, <2>2
  <2>3. CASE behind
    <3>1. w + 1 <= Wait
      <4>1. CASE pc = "select"
        <5>1. running /\ ~ruleReady /\ ~beatReady
          BY <1>17, <4>1, Clocks DEF Tick, Blocked
        <5>2. /\ ruleReady' <=> ruleLeft = 1
              /\ beatReady' <=> beatLeft = 1
          BY <1>17, <5>1, Zenon DEF Tick
        <5>3. /\ ruleLeft' = IF ruleLeft = 1 THEN interval ELSE ruleLeft - 1
              /\ beatLeft' = IF beatLeft = 1 THEN BeatEvery ELSE beatLeft - 1
          BY <1>17, <5>1 DEF Tick
        <5>4. w = IF ruleLeft = 1
                  THEN (IF beatLeft = 1 THEN Quick ELSE 0) + Quick
                  ELSE ruleLeft - 1 + 2 * Quick
          BY <1>w, <2>1, <4>1, <5>2, <5>3, Clocks DEF Wait, SelectWait, Quick
        <5>5. Wait = ruleLeft + 2 * Quick
          BY <1>2, <4>1, <5>1, Clocks DEF Wait, SelectWait
        <5> QED
          BY <1>2, <5>1, <5>4, <5>5, Clocks
      <4>2. ASSUME pc # "select"
            PROVE  /\ reply = "pending" /\ reqLeft > 1 /\ reqLeft' = reqLeft - 1
                   /\ Rest = reqLeft - 1 /\ Rest' = reqLeft - 2
        <5>1. reply = "pending" /\ reqLeft > 1 /\ reqLeft' = reqLeft - 1
          BY <1>17, <2>3, <4>2, Clocks DEF Tick, Blocked
        <5> QED
          BY <2>1, <5>1, Clocks DEF Rest
      <4>3. CASE pc = "fetch"
        <5>1. Wait = reqLeft - 1
          BY <4>2, <4>3, Clocks DEF Wait, FetchWait
        <5>2. w = reqLeft - 2
          BY <1>w, <2>1, <4>2, <4>3, Clocks DEF Wait, FetchWait, Rest
        <5> QED
          BY <5>1, <5>2, Clocks
      <4>4. CASE pc = "beat" /\ ~running
        <5>1. Wait = reqLeft - 1 + interval + 2 * Quick
          BY <4>2, <4>4 DEF Wait
        <5>2. w = reqLeft - 2 + interval + 2 * Quick
          BY <1>w, <1>1, <2>1, <4>2, <4>4, Clocks DEF Wait, Quick
        <5> QED
          BY <1>2, <5>1, <5>2, Clocks
      <4>5. CASE pc = "beat" /\ running
        <5>1. /\ ruleLeft' = IF ruleLeft = 1 THEN interval ELSE ruleLeft - 1
              /\ beatLeft' = IF beatLeft = 1 THEN BeatEvery ELSE beatLeft - 1
          BY <1>17, <4>5 DEF Tick
        <5>2. /\ ruleReady' <=> (ruleReady \/ ruleLeft = 1)
              /\ beatReady' <=> (beatReady \/ beatLeft = 1)
          BY <1>17, <4>5, Zenon DEF Tick
        <5> DEFINE second == IF beatReady \/ beatLeft <= reqLeft - 1 THEN Quick ELSE 0
        <5>3. Wait = IF ruleReady THEN reqLeft - 1 + second + Quick
                     ELSE ruleLeft + second + 2 * Quick
          BY <4>2, <4>5 DEF Wait, BeatWait
        <5>4. w = IF ruleReady \/ ruleLeft = 1 THEN reqLeft - 2 + second + Quick
                  ELSE ruleLeft - 1 + second + 2 * Quick
          BY <1>w, <2>1, <4>2, <4>5, <5>1, <5>2, Clocks DEF Wait, BeatWait, Rest, Quick
        <5>5. second \in Nat
          BY <1>2
        <5> HIDE DEF second
        <5> QED
          BY <1>2, <4>2, <4>5, <5>3, <5>4, <5>5, Clocks DEF Quick
      <4> QED
        BY <1>17, <4>1, <4>3, <4>4, <4>5, Clocks DEF Tick, Blocked
    <3>2. lag + 1 + w <= RuleLag
      BY <1>2, <1>3, <2>3, <3>1
    <3>3. lag' = lag + 1
      BY <1>2, <2>1, <2>3, <3>2 DEF UpTo
    <3>4. lag' + w <= RuleLag /\ lag' <= RuleLag
      BY <1>2, <3>2, <3>3
    <3>5. behind'
      BY <2>1, <2>3
    <3> QED
      BY <1>w, <1>1, <1>4, <3>4, <3>5 DEF LagInv, EnforcementLag
  <2> QED
    BY <2>2, <2>3
<1> QED
  BY <1>5, <1>7, <1>8, <1>9, <1>10, <1>11, <1>12, <1>13, <1>14, <1>15, <1>16, <1>17
     DEF Next, Client

(* The newest list of a healthy console is enforced, or superseded, within *)
(* one poll interval and three request times (Start).                      *)
THEOREM RulesInTime == Spec => []EnforcementLag
<1>1. Init => IInv /\ LagInv /\ EnforcementLag
  BY IInvInit, LagInit
<1>2. IInv /\ LagInv /\ EnforcementLag /\ [Next]_vars => (IInv /\ LagInv /\ EnforcementLag)'
  BY IInvStep, LagStep
<1> QED
  BY <1>1, <1>2, PTL DEF Spec
=============================================================================
