------------------------------- MODULE Agent -------------------------------
(***************************************************************************)
(* An agent built from the library: the console client feeds the engine    *)
(* with rules (fetchRules, convertRules, Reload) and carries its decisions *)
(* back as events (Sink, pushEvent), while connections keep asking and the *)
(* mode may change (SetMode).  All of src/console/client.go but the timing *)
(* of Start, which is in ConsoleClient.                                    *)
(*                                                                         *)
(* A call of Evaluate is one step here: Engine implements DecisionService, *)
(* in which a decision is made in one instant.  The sink it then calls     *)
(* reads the client's fields without a lock, one at a time.                *)
(***************************************************************************)
EXTENDS Rules, FiniteSets

CONSTANTS
  RawActions,    \* action texts of the console, in any letter case
  Lower,         \* [RawActions -> Actions], strings.ToLower
  BadPatterns,   \* pattern texts regexp.Compile refuses
  NoPattern,     \* the empty pattern text
  Publications,  \* the lists of API rules the console publishes, in order
  Initial,       \* the rule list the engine is created with
  Conns,         \* connections; one QueryMeta.ConnID each
  Queries,       \* queries they ask about
  Modes,         \* arguments of SetMode
  MaxSeq         \* bound: queries per connection

(* The struct apiRule.                                                     *)
ApiRule == [name : RuleNames, action : RawActions, enabled : BOOLEAN,
            pattern : Patterns \cup BadPatterns \cup {NoPattern}]

ASSUME AgentAssumption ==
  /\ Lower \in [RawActions -> Actions]
  /\ BadPatterns \cap Patterns = {} /\ NoPattern \notin Patterns \cup BadPatterns
  /\ Publications \in Seq(Seq(ApiRule))
  /\ Initial \in Seq(Rule)
  /\ Queries \subseteq Query /\ Queries # {}
  /\ Modes \subseteq [type : {"", "proxy", "tap"}, monitor : BOOLEAN]
  /\ MaxSeq \in Nat

VARIABLES
  published,    \* console: how many lists it has published
  poll,         \* the poll in progress: idle, asked, or answered
  body,         \* the publication in its answer
  rules,        \* Engine.rules
  version,      \* history: the publication they come from, 0 for Initial
  agentType,    \* Client.agentType
  monitorOnly,  \* Client.monitorOnly
  setting,      \* the SetMode in progress, if any: its arguments
  pc,           \* where each connection is in its call of Evaluate
  query,        \* its query
  dec,          \* its decision
  seq,          \* QueryMeta.Seq
  level,        \* the local variable level of the sink
  tapAtCall,    \* history: monitorOnly when the call began
  steady,       \* history: no SetMode has been in progress since the call began
  pushes,       \* goroutines running pushEvent, by event
  received,     \* console: how often each event arrived
  decisions     \* history: every decision with its query and its publication

feedVars == <<published, poll, body, rules, version>>
modeVars == <<agentType, monitorOnly, setting>>
callVars == <<pc, query, dec, seq, level, tapAtCall, steady>>
eventVars == <<pushes, received>>
vars == <<published, poll, body, rules, version, agentType, monitorOnly, setting,
          pc, query, dec, seq, level, tapAtCall, steady, pushes, received, decisions>>
-----------------------------------------------------------------------------
(* Faulty variant: the action keeps the console's letter case.             *)
ConvertRuleAsSent(ar) ==
  [name |-> ar.name, action |-> ar.action, users |-> {}, databases |-> {},
   pattern |-> IF ar.pattern \in Patterns THEN ar.pattern ELSE Nil]

(* Faulty variant: an action that is not in lower case means allow.        *)
ConvertRuleStrict(ar) ==
  [name |-> ar.name, action |-> IF ar.action \in Actions THEN ar.action ELSE "allow",
   users |-> {}, databases |-> {},
   pattern |-> IF ar.pattern \in Patterns THEN ar.pattern ELSE Nil]

(* One rule of convertRules: a pattern that is empty or does not compile   *)
(* leaves SQLPattern nil.                                                  *)
ConvertRule(ar) ==
  [name |-> ar.name, action |-> Lower[ar.action], users |-> {}, databases |-> {},
   pattern |-> IF ar.pattern \in Patterns THEN ar.pattern ELSE Nil]

(* The loop of convertRules: what out holds after each of its iterations.  *)
(* Disabled rules are skipped, the others keep their order.                *)
Converted(apiRules) ==
  LET out[i \in 0 .. Len(apiRules)] ==
        IF i = 0 THEN <<>>
        ELSE IF apiRules[i].enabled THEN Append(out[i - 1], ConvertRule(apiRules[i]))
        ELSE out[i - 1]
  IN  out

ConvertRules(apiRules) == Converted(apiRules)[Len(apiRules)]

(* The level the sink reports for an action.                               *)
LevelOf(action, tap) ==
  CASE action = "block" -> IF tap THEN "ALERT" ELSE "BLOCK"
    [] action = "alert" -> "ALERT"
    [] OTHER -> "INFO"
-----------------------------------------------------------------------------
Init ==
  /\ published = 0 /\ poll = "idle" /\ body = 0
  /\ rules = Initial /\ version = 0
  /\ agentType = "proxy" /\ monitorOnly = FALSE /\ setting = {}
  /\ pc = [c \in Conns |-> "idle"]
  /\ query = [c \in Conns |-> CHOOSE q \in Queries : TRUE]
  /\ dec = [c \in Conns |-> DefaultAllow]
  /\ seq = [c \in Conns |-> 0]
  /\ level = [c \in Conns |-> "INFO"]
  /\ tapAtCall = [c \in Conns |-> FALSE] /\ steady = [c \in Conns |-> FALSE]
  /\ pushes = {}
  /\ received = [e \in Conns \X (1 .. MaxSeq) |-> 0]
  /\ decisions = {}

(* The console publishes its next list (external).                         *)
Publish ==
  /\ published < Len(Publications)
  /\ published' = published + 1
  /\ UNCHANGED <<poll, body, rules, version, modeVars, callVars, eventVars, decisions>>

(* fetchRules sends its request; the console answers with its newest list; *)
(* the answer is converted and given to Reload, or the poll fails and the  *)
(* rules stay.                                                             *)
PollStart ==
  /\ poll = "idle" /\ poll' = "asked"
  /\ UNCHANGED <<published, body, rules, version, modeVars, callVars, eventVars, decisions>>

PollAnswer ==
  /\ poll = "asked" /\ published > 0
  /\ poll' = "answered" /\ body' = published
  /\ UNCHANGED <<published, rules, version, modeVars, callVars, eventVars, decisions>>

PollApply ==
  /\ poll = "answered" /\ poll' = "idle"
  /\ rules' = ConvertRules(Publications[body])
  /\ version' = body
  /\ body' = 0
  /\ UNCHANGED <<published, modeVars, callVars, eventVars, decisions>>

PollFail ==
  /\ poll \in {"asked", "answered"} /\ poll' = "idle"
  /\ body' = 0
  /\ UNCHANGED <<published, rules, version, modeVars, callVars, eventVars, decisions>>

(* SetMode(t, m): two plain writes, of agentType (unless t is empty) and of *)
(* monitorOnly, which race the reads of the sink until SetMode returns.    *)
SetModeBegin(m) ==
  /\ setting = {}
  /\ setting' = {m}
  /\ steady' = [c \in Conns |-> FALSE]
  /\ UNCHANGED <<feedVars, agentType, monitorOnly, pc, query, dec, seq, level, tapAtCall,
                 eventVars, decisions>>

SetModeEnd ==
  \E m \in setting :
    /\ agentType' = IF m.type = "" THEN agentType ELSE m.type
    /\ monitorOnly' = m.monitor
    /\ setting' = {}
    /\ UNCHANGED <<feedVars, callVars, eventVars, decisions>>

(* What an unsynchronised read may see: the value, the one being written,  *)
(* and, of a string, a mixture of the two.                                 *)
MonitorReads == {monitorOnly} \cup {m.monitor : m \in setting}
TypeReads ==
  {agentType} \cup UNION {{m.type, "torn"} : m \in {n \in setting : n.type # ""}}

(* Faulty variant: the sink is called for ignored queries too.             *)
EvaluateReportsAll(c, q) ==
  LET d == FirstMatch(rules, q) IN
  /\ pc[c] = "idle" /\ seq[c] < MaxSeq
  /\ seq' = [seq EXCEPT ![c] = @ + 1]
  /\ query' = [query EXCEPT ![c] = q]
  /\ dec' = [dec EXCEPT ![c] = d]
  /\ decisions' = decisions \cup {[version |-> version, conn |-> c, seq |-> seq[c] + 1,
                                   query |-> q, dec |-> d]}
  /\ pc' = [pc EXCEPT ![c] = "level"]
  /\ tapAtCall' = [tapAtCall EXCEPT ![c] = monitorOnly]
  /\ steady' = [steady EXCEPT ![c] = setting = {}]
  /\ UNCHANGED <<feedVars, modeVars, level, eventVars>>

(* Evaluate decides; unless the action is ignore it calls the sink.        *)
Evaluate(c, q) ==
  LET d == FirstMatch(rules, q) IN
  /\ pc[c] = "idle" /\ seq[c] < MaxSeq
  /\ seq' = [seq EXCEPT ![c] = @ + 1]
  /\ query' = [query EXCEPT ![c] = q]
  /\ dec' = [dec EXCEPT ![c] = d]
  /\ decisions' = decisions \cup {[version |-> version, conn |-> c, seq |-> seq[c] + 1,
                                   query |-> q, dec |-> d]}
  /\ pc' = [pc EXCEPT ![c] = IF d.action = "ignore" THEN "idle" ELSE "level"]
  /\ tapAtCall' = [tapAtCall EXCEPT ![c] = monitorOnly]
  /\ steady' = [steady EXCEPT ![c] = setting = {}]
  /\ UNCHANGED <<feedVars, modeVars, level, eventVars>>

(* Faulty variant: a closure made before SetMode keeps the old mode.       *)
SinkLevelCaptured(c) ==
  /\ pc[c] = "level"
  /\ level' = [level EXCEPT ![c] = LevelOf(dec[c].action, FALSE)]
  /\ pc' = [pc EXCEPT ![c] = "push"]
  /\ UNCHANGED <<feedVars, modeVars, query, dec, seq, tapAtCall, steady, eventVars, decisions>>

(* The sink: the switch reads monitorOnly,                                 *)
SinkLevel(c) ==
  /\ pc[c] = "level"
  /\ \E tap \in MonitorReads : level' = [level EXCEPT ![c] = LevelOf(dec[c].action, tap)]
  /\ pc' = [pc EXCEPT ![c] = "push"]
  /\ UNCHANGED <<feedVars, modeVars, query, dec, seq, tapAtCall, steady, eventVars, decisions>>

(* then the event is built, which reads agentType, and go pushEvent starts *)
(* a goroutine.  The call returns without waiting for it.                  *)
SinkPush(c) ==
  /\ pc[c] = "push"
  /\ \E t \in TypeReads :
       pushes' = pushes \cup {[conn |-> c, seq |-> seq[c], level |-> level[c], type |-> t,
                               action |-> dec[c].action, tap |-> tapAtCall[c],
                               steady |-> steady[c], sent |-> FALSE]}
  /\ pc' = [pc EXCEPT ![c] = "idle"]
  /\ UNCHANGED <<feedVars, modeVars, query, dec, seq, level, tapAtCall, steady, received, decisions>>

(* The console receives the request of a push.                             *)
PushArrives(e) ==
  /\ ~e.sent
  /\ received' = [received EXCEPT ![<<e.conn, e.seq>>] = @ + 1]
  /\ pushes' = (pushes \ {e}) \cup {[e EXCEPT !.sent = TRUE]}
  /\ UNCHANGED <<feedVars, modeVars, callVars, decisions>>

(* Faulty variant: a push that ends in an error is tried once more.        *)
PushEndsRetrying(e) ==
  /\ pushes' = IF e.sent THEN (pushes \ {e}) \cup {[e EXCEPT !.sent = FALSE]}
               ELSE pushes \ {e}
  /\ UNCHANGED <<feedVars, modeVars, callVars, received, decisions>>

(* Faulty variant: an http.Client without a timeout.                       *)
PushEndsAnswered(e) ==
  /\ e.sent
  /\ pushes' = pushes \ {e}
  /\ UNCHANGED <<feedVars, modeVars, callVars, received, decisions>>

(* pushEvent ends: answered, refused, or out of time, in which case the    *)
(* console may or may not have received the event.  It is not tried again. *)
PushEnds(e) ==
  /\ pushes' = pushes \ {e}
  /\ UNCHANGED <<feedVars, modeVars, callVars, received, decisions>>

Sink(c) == SinkLevel(c) \/ SinkPush(c)

Next ==
  \/ Publish
  \/ PollStart
  \/ PollAnswer
  \/ PollApply
  \/ PollFail
  \/ \E m \in Modes : SetModeBegin(m)
  \/ SetModeEnd
  \/ \E c \in Conns, q \in Queries : Evaluate(c, q)
  \/ \E c \in Conns : SinkLevel(c)
  \/ \E c \in Conns : SinkPush(c)
  \/ \E e \in pushes : PushArrives(e)
  \/ \E e \in pushes : PushEnds(e)

Spec == Init /\ [][Next]_vars

(* The caller's own goroutine runs, and a push ends: by its answer or by   *)
(* the timeout of the HTTP client.                                         *)
FairSpec ==
  /\ Spec
  /\ \A c \in Conns : WF_vars(Sink(c))
  /\ \A c \in Conns, n \in 1 .. MaxSeq :
       WF_vars(\E e \in pushes : e.conn = c /\ e.seq = n /\ PushEnds(e))
-----------------------------------------------------------------------------
Levels == {"BLOCK", "ALERT", "INFO"}
Push == [conn : Conns, seq : 1 .. MaxSeq, level : Levels, type : {"proxy", "tap", "torn"},
         action : Actions, tap : BOOLEAN, steady : BOOLEAN, sent : BOOLEAN]

(* Type invariant of the agent: the converted rules are rules.             *)
TypeOK ==
  /\ published \in 0 .. Len(Publications)
  /\ poll \in {"idle", "asked", "answered"}
  /\ {body, version} \subseteq 0 .. published
  /\ rules \in Seq(Rule)
  /\ agentType \in {"proxy", "tap"}
  /\ monitorOnly \in BOOLEAN /\ setting \subseteq Modes
  /\ pc \in [Conns -> {"idle", "level", "push"}]
  /\ query \in [Conns -> Queries]
  /\ dec \in [Conns -> Decision]
  /\ seq \in [Conns -> 0 .. MaxSeq]
  /\ level \in [Conns -> Levels]
  /\ tapAtCall \in [Conns -> BOOLEAN] /\ steady \in [Conns -> BOOLEAN]
  /\ pushes \subseteq Push
  /\ received \in [Conns \X (1 .. MaxSeq) -> Nat]
  /\ decisions \subseteq [version : 0 .. published, conn : Conns, seq : 1 .. MaxSeq,
                          query : Queries, dec : Decision]

(* What the console means by a publication: the action, in any letter      *)
(* case, of the first enabled rule whose pattern is empty or accepts the   *)
(* text, else allow.                                                       *)
Applies(ar, q) ==
  ar.enabled /\ (ar.pattern = NoPattern \/ q.sql \in Accepts[ar.pattern])

Compilable(pub) == \A k \in DOMAIN pub : pub[k].enabled => pub[k].pattern \notin BadPatterns

Intended(pub, q, d) ==
  \/ \E k \in DOMAIN pub :
       /\ Applies(pub[k], q)
       /\ \A j \in 1 .. k - 1 : ~Applies(pub[j], q)
       /\ d = [action |-> Lower[pub[k].action], rule |-> pub[k].name]
  \/ (\A k \in DOMAIN pub : ~Applies(pub[k], q)) /\ d = DefaultAllow

(* Every decision made on a published list whose patterns compile is the   *)
(* one the console means: switched-off rules decide nothing and the order  *)
(* and the action of the others survive convertRules, Reload and Evaluate. *)
EnforcesIntent ==
  \A x \in decisions :
    x.version > 0 /\ Compilable(Publications[x.version]) =>
      Intended(Publications[x.version], x.query, x.dec)

(* An event reports BLOCK only for a block decision and INFO never for a   *)
(* block or an alert, even while SetMode races the sink; and a call during *)
(* which no SetMode runs reports the agent type whole, and BLOCK exactly   *)
(* when the agent can block (SetMode and Sink).                            *)
TruthfulEvents ==
  \A e \in pushes :
    /\ e.level = "BLOCK" => e.action = "block"
    /\ e.level = "INFO" => e.action \notin {"block", "alert"}
    /\ e.steady => /\ e.type # "torn"
                   /\ e.action = "block" => (e.level = "BLOCK" <=> ~e.tap)

(* TruthfulEvents is inductive together with this: a level that the sink   *)
(* has chosen is truthful before the event is built, and in a steady call  *)
(* no SetMode is in progress and the mode is that of the call's beginning. *)
ModeInv ==
  \A c \in Conns :
    /\ steady[c] => setting = {} /\ tapAtCall[c] = monitorOnly
    /\ pc[c] = "push" =>
         /\ level[c] = "BLOCK" => dec[c].action = "block"
         /\ level[c] = "INFO" => dec[c].action \notin {"block", "alert"}
         /\ steady[c] /\ dec[c].action = "block" => (level[c] = "BLOCK" <=> ~tapAtCall[c])

(* EnforcesIntent with this: the engine enforces a whole publication, and  *)
(* an answer carries one.                                                  *)
FeedInv ==
  /\ poll = "answered" => body > 0
  /\ version > 0 => rules = ConvertRules(Publications[version])

(* By the decisions made, the n-th query of a connection was decided, and  *)
(* not with ignore.                                                        *)
Reportable(made, c, n) ==
  /\ \E x \in made : x.conn = c /\ x.seq = n
  /\ \A x \in made : x.conn = c /\ x.seq = n => x.dec.action # "ignore"

(* The console receives an event at most once, and none for a query that   *)
(* was not decided or was ignored (Evaluate, Sink and pushEvent).          *)
AtMostOnce ==
  \A c \in Conns, n \in 1 .. MaxSeq :
    /\ received[<<c, n>>] <= 1
    /\ received[<<c, n>>] = 1 => Reportable(decisions, c, n)

(* AtMostOnce with this: only what is reportable is in the sink or pushed, *)
(* and a query has at most one push, none before its call is over and none *)
(* after it was received, unless it is the one that delivered it.          *)
PushInv ==
  /\ \A e \in pushes :
       /\ e.seq <= seq[e.conn]
       /\ pc[e.conn] # "idle" => e.seq < seq[e.conn]
       /\ ~e.sent => received[<<e.conn, e.seq>>] = 0
       /\ \A f \in pushes : f.conn = e.conn /\ f.seq = e.seq => f = e
       /\ Reportable(decisions, e.conn, e.seq)
  /\ \A c \in Conns : pc[c] # "idle" => seq[c] > 0 /\ Reportable(decisions, c, seq[c])
  /\ \A x \in decisions : x.seq <= seq[x.conn]
  /\ \A c \in Conns, n \in 1 .. MaxSeq :
       n > seq[c] \/ (n = seq[c] /\ pc[c] # "idle") => received[<<c, n>>] = 0

IInv == TypeOK /\ FeedInv /\ EnforcesIntent /\ ModeInv /\ TruthfulEvents /\ PushInv /\ AtMostOnce

(* A connection is never held up by the console: its call returns without  *)
(* waiting for a poll or a push, and every push goroutine ends, also when  *)
(* the console never answers (Sink and pushEvent).                         *)
Settles ==
  \A c \in Conns :
    /\ pc[c] # "idle" ~> pc[c] = "idle"
    /\ \A n \in 1 .. MaxSeq :
         (\E e \in pushes : e.conn = c /\ e.seq = n)
           ~> ~(\E e \in pushes : e.conn = c /\ e.seq = n)
=============================================================================
