---------------------------- MODULE ConsoleClient ----------------------------
(***************************************************************************)
(* Start of the console client (src/console/client.go): one goroutine that *)
(* polls the rules, sends heartbeats and watches for cancellation, against *)
(* a console that publishes rule lists and may answer late, badly or not   *)
(* at all.                                                                 *)
(*                                                                         *)
(* Time passes in units, only while the goroutine is blocked: what it does *)
(* between two blocking points takes no time.  A rule list is known by the *)
(* number of its publication; 0 is the list the engine was created with.   *)
(***************************************************************************)
EXTENDS Integers

CONSTANTS
  PollIntervals, \* values of the argument pollInterval, possibly <= 0
  DefaultPoll,   \* the poll interval used when the argument is <= 0 (60s)
  BeatEvery,     \* the heartbeat interval (30s)
  Timeout,       \* http.Client.Timeout (10s)
  MaxPublish     \* bound: rule lists the console publishes

ASSUME ClientAssumption ==
  /\ PollIntervals \subseteq Int
  /\ {DefaultPoll, BeatEvery, Timeout} \subseteq Nat \ {0}
  /\ BeatEvery >= 3 * Timeout
  /\ MaxPublish \in Nat

(* Faulty variant: no default.                                             *)
EffectiveAsGiven(pollInterval) == pollInterval

(* A poll interval that is not positive means the default.                 *)
Effective(pollInterval) == IF pollInterval <= 0 THEN DefaultPoll ELSE pollInterval

VARIABLES
  interval,   \* the poll interval in use
  pc,         \* where the goroutine is
  running,    \* the tickers exist
  ruleLeft,   \* time to the next rule tick
  beatLeft,   \* time to the next heartbeat tick
  ruleReady,  \* a tick waits in ruleTick.C, which holds one
  beatReady,  \* a tick waits in hbTick.C, which holds one
  reqLeft,    \* time to the timeout of the request in flight
  reply,      \* what has come back for it
  body,       \* the list in the reply
  cancelled,  \* ctx is done
  installed,  \* the list the engine enforces
  published,  \* console: the newest list
  healthy,    \* console: answers every request correctly before its timeout
  sinceBeat,  \* history: time since the last heartbeat was sent
  lag,        \* history: time the newest list of a healthy console has waited to
              \* be enforced
  skipped     \* history: a heartbeat tick was dropped because the channel was full

clientVars == <<interval, pc, running, ruleLeft, beatLeft, ruleReady, beatReady, cancelled, installed>>
requestVars == <<reqLeft, reply, body>>
consoleVars == <<published, healthy>>
historyVars == <<sinceBeat, lag, skipped>>
vars == <<interval, pc, running, ruleLeft, beatLeft, ruleReady, beatReady, cancelled, installed,
          reqLeft, reply, body, published, healthy, sinceBeat, lag, skipped>>

(* The longest waits; the clocks of the histories stop one unit past them. *)
(* A healthy answer takes at most Timeout - 1 units.                       *)
BeatGap == BeatEvery + 2 * Timeout
RuleLag == interval + 3 * (Timeout - 1)
UpTo(cap, t) == IF t > cap THEN cap ELSE t
-----------------------------------------------------------------------------
Init ==
  /\ interval \in {Effective(p) : p \in PollIntervals}
  /\ pc = "start"
  /\ running = FALSE
  /\ ruleLeft = 0 /\ beatLeft = 0
  /\ ruleReady = FALSE /\ beatReady = FALSE
  /\ reqLeft = 0 /\ reply = "none" /\ body = 0
  /\ cancelled = FALSE
  /\ installed = 0
  /\ published \in {0, 1} \cap 0..MaxPublish
  /\ healthy \in BOOLEAN
  /\ sinceBeat = 0 /\ lag = 0 /\ skipped = FALSE

(* http.Client.Do of a new request.                                        *)
Send(label) ==
  /\ pc' = label
  /\ reqLeft' = Timeout
  /\ reply' = "pending"
  /\ body' = body
  /\ sinceBeat' = IF label = "beat" THEN 0 ELSE sinceBeat

(* The immediate first poll.                                               *)
Begin ==
  /\ pc = "start"
  /\ Send("fetch")
  /\ UNCHANGED <<interval, running, ruleLeft, beatLeft, ruleReady, beatReady, cancelled, installed,
                 consoleVars, lag, skipped>>

(* The request is over; pc' says where the goroutine goes.                 *)
EndRequest ==
  /\ reqLeft' = 0 /\ reply' = "none" /\ body' = 0

(* What follows a poll: the first heartbeat, or the select of the loop.    *)
AfterFetch ==
  \/ running /\ pc' = "select" /\ EndRequest /\ sinceBeat' = sinceBeat
  \/ ~running /\ Send("beat")

(* fetchRules succeeds and its list is given to Reload.                    *)
FetchDone ==
  /\ pc = "fetch" /\ reply = "ok"
  /\ installed' = body
  /\ lag' = IF body = published THEN 0 ELSE lag
  /\ AfterFetch
  /\ UNCHANGED <<interval, running, ruleLeft, beatLeft, ruleReady, beatReady, cancelled,
                 consoleVars, skipped>>

(* Faulty variant: the empty list of a failed fetch is installed.          *)
FetchFailedReloads ==
  /\ pc = "fetch" /\ (reply = "bad" \/ reqLeft = 0)
  /\ installed' = 0
  /\ AfterFetch
  /\ UNCHANGED <<interval, running, ruleLeft, beatLeft, ruleReady, beatReady, cancelled,
                 consoleVars, lag, skipped>>

(* Faulty variant: Start returns when a poll fails.                        *)
FetchFailedReturns ==
  /\ pc = "fetch" /\ (reply = "bad" \/ reqLeft = 0)
  /\ pc' = "stopped"
  /\ EndRequest
  /\ UNCHANGED <<interval, running, ruleLeft, beatLeft, ruleReady, beatReady, cancelled,
                 installed, consoleVars, historyVars>>

(* fetchRules fails: refused, not 200, not decodable, or out of time.      *)
FetchFailed ==
  /\ pc = "fetch" /\ (reply = "bad" \/ reqLeft = 0)
  /\ AfterFetch
  /\ UNCHANGED <<interval, running, ruleLeft, beatLeft, ruleReady, beatReady, cancelled, installed,
                 consoleVars, lag, skipped>>

(* Faulty variant: an http.Client without a timeout.                       *)
BeatDoneNoTimeout ==
  /\ pc = "beat" /\ reply \in {"ok", "bad"}
  /\ pc' = "select"
  /\ EndRequest
  /\ running' = TRUE
  /\ ruleLeft' = IF running THEN ruleLeft ELSE interval
  /\ beatLeft' = IF running THEN beatLeft ELSE BeatEvery
  /\ UNCHANGED <<interval, ruleReady, beatReady, cancelled, installed, consoleVars,
                 historyVars>>

(* sendHeartbeat is over, whatever came back; the first one is followed by *)
(* the creation of the tickers.                                            *)
BeatDone ==
  /\ pc = "beat" /\ (reply \in {"ok", "bad"} \/ reqLeft = 0)
  /\ pc' = "select"
  /\ EndRequest
  /\ running' = TRUE
  /\ ruleLeft' = IF running THEN ruleLeft ELSE interval
  /\ beatLeft' = IF running THEN beatLeft ELSE BeatEvery
  /\ UNCHANGED <<interval, ruleReady, beatReady, cancelled, installed, consoleVars, historyVars>>

(* case <-ctx.Done(); the deferred Stops end the tickers.                  *)
SelectDone ==
  /\ pc = "select" /\ cancelled
  /\ pc' = "stopped"
  /\ running' = FALSE
  /\ UNCHANGED <<interval, ruleLeft, beatLeft, ruleReady, beatReady, cancelled, installed,
                 requestVars, consoleVars, historyVars>>

(* Faulty variant: a poll is made for every other tick only.               *)
SelectRuleHalf ==
  /\ pc = "select" /\ ruleReady
  /\ ruleReady' = FALSE
  /\ \/ Send("fetch")
     \/ UNCHANGED <<pc, requestVars, sinceBeat>>
  /\ UNCHANGED <<interval, running, ruleLeft, beatLeft, beatReady, cancelled, installed,
                 consoleVars, lag, skipped>>

(* Faulty variant: the heartbeat timer is restarted by every poll (a       *)
(* time.After in the select).                                              *)
SelectRuleRestarts ==
  /\ pc = "select" /\ ruleReady
  /\ ruleReady' = FALSE
  /\ beatLeft' = BeatEvery
  /\ Send("fetch")
  /\ UNCHANGED <<interval, running, ruleLeft, beatReady, cancelled, installed,
                 consoleVars, lag, skipped>>

(* case <-ruleTick.C.                                                      *)
SelectRule ==
  /\ pc = "select" /\ ruleReady
  /\ ruleReady' = FALSE
  /\ Send("fetch")
  /\ UNCHANGED <<interval, running, ruleLeft, beatLeft, beatReady, cancelled, installed,
                 consoleVars, lag, skipped>>

(* case <-hbTick.C.                                                        *)
SelectBeat ==
  /\ pc = "select" /\ beatReady
  /\ beatReady' = FALSE
  /\ Send("beat")
  /\ UNCHANGED <<interval, running, ruleLeft, beatLeft, ruleReady, cancelled, installed,
                 consoleVars, lag, skipped>>
-----------------------------------------------------------------------------
(* The owner of ctx cancels it.                                            *)
Cancel ==
  /\ ~cancelled
  /\ cancelled' = TRUE
  /\ UNCHANGED <<interval, pc, running, ruleLeft, beatLeft, ruleReady, beatReady, installed,
                 requestVars, consoleVars, historyVars>>

(* The console, known only through its answers.                            *)
Publish ==
  /\ published < MaxPublish
  /\ published' = published + 1
  /\ lag' = 0
  /\ UNCHANGED <<clientVars, requestVars, healthy, sinceBeat, skipped>>

ChangeHealth ==
  /\ healthy' = ~healthy
  /\ lag' = 0
  /\ UNCHANGED <<clientVars, requestVars, published, sinceBeat, skipped>>

AnswerOk ==
  /\ reply = "pending"
  /\ reply' = "ok" /\ body' = published
  /\ UNCHANGED <<clientVars, reqLeft, consoleVars, historyVars>>

AnswerBad ==
  /\ reply = "pending" /\ ~healthy
  /\ reply' = "bad"
  /\ UNCHANGED <<clientVars, reqLeft, body, consoleVars, historyVars>>

(* The goroutine has nothing to do before time passes.                     *)
Blocked ==
  \/ pc = "select" /\ ~ruleReady /\ ~beatReady /\ ~cancelled
  \/ reply = "pending" /\ reqLeft > 0 /\ ~(healthy /\ reqLeft = 1)

(* One unit of time: the tickers and the request's timeout advance.  A     *)
(* ticker that fires while its channel is full drops the tick.             *)
Tick ==
  /\ Blocked
  /\ reqLeft' = IF reply = "pending" THEN reqLeft - 1 ELSE reqLeft
  /\ IF running
     THEN /\ ruleLeft' = IF ruleLeft = 1 THEN interval ELSE ruleLeft - 1
          /\ beatLeft' = IF beatLeft = 1 THEN BeatEvery ELSE beatLeft - 1
          /\ ruleReady' = (ruleReady \/ ruleLeft = 1)
          /\ beatReady' = (beatReady \/ beatLeft = 1)
          /\ skipped' = (skipped \/ (beatReady /\ beatLeft = 1))
     ELSE UNCHANGED <<ruleLeft, beatLeft, ruleReady, beatReady, skipped>>
  /\ sinceBeat' = UpTo(BeatGap + 1, sinceBeat + 1)
  /\ lag' = IF healthy /\ installed < published THEN UpTo(RuleLag + 1, lag + 1) ELSE 0
  /\ UNCHANGED <<interval, pc, running, cancelled, installed, reply, body, consoleVars>>

Client ==
  \/ Begin
  \/ FetchDone
  \/ FetchFailed
  \/ BeatDone
  \/ SelectDone
  \/ SelectRule
  \/ SelectBeat

Next ==
  \/ Client
  \/ Cancel
  \/ Publish
  \/ ChangeHealth
  \/ AnswerOk
  \/ AnswerBad
  \/ Tick

Spec == Init /\ [][Next]_vars

(***************************************************************************)
(* Time never stops, the goroutine is scheduled, and a healthy console     *)
(* answers.  A Go select picks among its ready cases at random, so a case  *)
(* that is ready again and again is taken: strong fairness for each.       *)
(***************************************************************************)
Fairness ==
  /\ SF_vars(Tick)
  /\ WF_vars(Begin \/ FetchDone \/ FetchFailed \/ BeatDone)
  /\ SF_vars(SelectDone) /\ SF_vars(SelectRule) /\ SF_vars(SelectBeat)
  /\ WF_vars(healthy /\ AnswerOk)

FairSpec == Spec /\ Fairness
-----------------------------------------------------------------------------
(* Type invariant of the loop, its request and the console.                *)
TypeOK ==
  /\ interval \in Nat \ {0}
  /\ pc \in {"start", "fetch", "beat", "select", "stopped"}
  /\ {running, ruleReady, beatReady, cancelled, healthy, skipped} \subseteq BOOLEAN
  /\ ruleLeft \in 0..interval
  /\ beatLeft \in 0..BeatEvery
  /\ reqLeft \in 0..Timeout
  /\ reply \in {"none", "pending", "ok", "bad"}
  /\ {body, installed, published} \subseteq 0..MaxPublish
  /\ sinceBeat \in 0..(BeatGap + 1)
  /\ lag \in 0..(RuleLag + 1)

(* The enforced list never goes back to an older publication, whatever     *)
(* polls fail or time out (Start keeps the last list that was fetched).    *)
RulesAdvance == [][installed' >= installed]_vars

(* The strengthening that makes both inductive: a request is in flight     *)
(* only in fetch and beat, tickers run in the loop and have time left, and *)
(* an answer that fetchRules is about to install is not older than what is *)
(* enforced.                                                               *)
LoopInv ==
  /\ reply = "pending" => pc \in {"fetch", "beat"}
  /\ running => ruleLeft > 0 /\ beatLeft > 0 /\ pc \in {"fetch", "beat", "select"}
  /\ pc = "select" => running
  /\ installed <= published /\ body <= published
  /\ pc = "fetch" /\ reply = "ok" => installed <= body

IInv == TypeOK /\ LoopInv

(* A list published by a healthy console is enforced, or superseded by a   *)
(* newer one, within one poll interval and three request times: the wait   *)
(* for a tick, heartbeats ahead of it, the fetch and, when the first poll  *)
(* has failed, the first heartbeat, which delays the tickers (Start).      *)
EnforcementLag == lag <= RuleLag

(* Although a slow poll blocks the same goroutine, two heartbeats are sent *)
(* at most one heartbeat interval and two request timeouts apart, and the  *)
(* heartbeat ticker drops no tick, provided two polls are at least two     *)
(* request timeouts apart.  With a shorter interval a poll may be due      *)
(* whenever one ends, and select prefer it to the heartbeat again and      *)
(* again (Start).                                                          *)
HeartbeatGap == interval >= 2 * Timeout => sinceBeat <= BeatGap /\ ~skipped

(***************************************************************************)
(* HeartbeatGap is inductive together with this.  A heartbeat tick is      *)
(* taken within one request timeout: it waits for at most one fetch, since *)
(* a rule tick waits for at most one heartbeat, so that the next one comes *)
(* when the fetch is over at the earliest.                                 *)
(***************************************************************************)
BeatInv ==
  interval >= 2 * Timeout =>
    /\ pc = "start" => sinceBeat = 0
    /\ ~running /\ pc \in {"start", "fetch", "beat"} =>
         ~beatReady /\ ~ruleReady /\ sinceBeat + reqLeft <= Timeout
    /\ running =>
         sinceBeat <= Timeout + BeatEvery - beatLeft + (IF beatReady THEN BeatEvery ELSE 0)
    /\ running /\ beatReady => beatLeft >= BeatEvery - Timeout
    /\ running /\ pc = "select" /\ ruleReady =>
         IF beatReady THEN beatLeft = BeatEvery /\ ruleLeft = interval
         ELSE /\ ruleLeft >= interval - Timeout
              /\ ruleLeft = interval \/ beatLeft >= Timeout
    /\ running /\ pc = "beat" =>
         /\ ~beatReady /\ beatLeft >= BeatEvery - 2 * Timeout + reqLeft
         /\ ruleReady => ruleLeft >= interval - Timeout + reqLeft
    /\ running /\ pc = "fetch" =>
         IF ruleReady
         THEN reqLeft = 0 /\ ruleLeft = interval /\ (beatReady => beatLeft = BeatEvery)
         ELSE /\ ruleLeft >= reqLeft
              /\ IF beatReady
                 THEN ruleLeft > reqLeft /\ beatLeft >= BeatEvery - Timeout + reqLeft
                 ELSE ruleLeft = reqLeft => beatLeft >= reqLeft

(***************************************************************************)
(* EnforcementLag is inductive together with LagInv, which bounds how long *)
(* the newest list still has to wait, with a healthy console: the rest of  *)
(* the request in flight, the time to the next rule tick, the heartbeat    *)
(* select may prefer to it, a second one if its tick comes while the first *)
(* is under way, and the fetch.  A fetch runs out of time only when the    *)
(* console has not been healthy for the unit before.                       *)
(***************************************************************************)
Quick == Timeout - 1

Rest == IF reply = "pending" /\ reqLeft > 0 THEN reqLeft - 1 ELSE 0

SelectWait ==
  LET first == IF beatReady THEN Quick ELSE 0
      second == IF beatReady /\ beatLeft <= Quick THEN Quick ELSE 0
  IN  IF ruleReady THEN first + second + Quick
      ELSE ruleLeft + second + 2 * Quick

BeatWait ==
  LET second == IF beatReady \/ beatLeft <= Rest THEN Quick ELSE 0
  IN  IF ruleReady THEN Rest + second + Quick
      ELSE ruleLeft + second + 2 * Quick

FetchWait ==
  IF reply = "ok" /\ body = published THEN 0
  ELSE IF reply = "pending" /\ reqLeft > 0 THEN Rest
  ELSE IF running THEN SelectWait
  ELSE interval + 3 * Quick

Wait ==
  CASE pc = "start" -> Quick
    [] pc = "fetch" -> FetchWait
    [] pc = "beat" -> IF running THEN BeatWait ELSE Rest + interval + 2 * Quick
    [] pc = "select" -> SelectWait
    [] pc = "stopped" -> 0

SecondBeatInv ==
  running /\ pc = "beat" /\ beatReady => beatLeft >= BeatEvery - Timeout + reqLeft

LateInv == pc = "fetch" /\ reqLeft = 0 => lag = 0

LagInv ==
  /\ SecondBeatInv /\ LateInv
  /\ lag > 0 => healthy /\ installed < published
  /\ healthy /\ installed < published => lag + Wait <= RuleLag

(* "Sends a heartbeat every 30s": every heartbeat tick is followed by a    *)
(* heartbeat, none is dropped because the goroutine was busy (Start).      *)
EveryBeatSent == ~skipped

(* Start returns once ctx is cancelled, also when the console never        *)
(* answers.                                                                *)
StopsWhenCancelled == cancelled ~> pc = "stopped"

(* Once the console stays healthy, the engine ends up enforcing its newest *)
(* list, however many polls failed before (Start).                         *)
CatchesUp == (<>[]healthy /\ []~cancelled) => <>[](installed = published)
=============================================================================
