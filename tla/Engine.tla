------------------------------- MODULE Engine -------------------------------
(***************************************************************************)
(* The rule engine (src/engine/engine.go) under concurrent use: connection *)
(* goroutines call Evaluate, Decide and Emit while the console client      *)
(* calls Reload and SetSink.                                               *)
(*                                                                         *)
(* The mutex only ever guards loads or one store, so each critical section *)
(* is one step.  Everything after RUnlock works on the caller's own copy   *)
(* of the slice header and of the sink and interleaves with every other    *)
(* goroutine, one loop iteration at a time.                                *)
(*                                                                         *)
(* A caller makes one call at a time.  A decision obtained from Decide is  *)
(* held by the caller until it either emits the deferred event or drops it *)
(* (a block check at prepare time, whose event belongs to the execution).  *)
(***************************************************************************)
EXTENDS Rules

CONSTANTS
  Callers,     \* connection goroutines; one QueryMeta.ConnID each
  Queries,     \* queries the callers pass in
  RuleSets,    \* rule lists New and Reload may be given
  Sinks,       \* event sinks SetSink may be given
  NoSink,      \* the nil sink
  MaxCalls,    \* bound: queries decided per caller
  MaxInstalls  \* bound: rule lists installed, the one given to New included

ASSUME EngineAssumption ==
  /\ Queries \subseteq Query
  /\ Queries # {}
  /\ RuleSets \subseteq Seq(Rule)
  /\ RuleSets # {}
  /\ NoSink \notin Sinks
  /\ MaxCalls \in Nat
  /\ MaxInstalls \in Nat \ {0}

VARIABLES
  rules,      \* Engine.rules
  sink,       \* Engine.sink
  pc,         \* where each caller is in its call
  op,         \* which of Evaluate and Decide the caller is in
  query,      \* the call's sql, username, database
  seq,        \* QueryMeta.Seq of the call: the caller's query counter
  snapRules,  \* the local variable rules
  snapSink,   \* the local variable sink
  idx,        \* the loop index, from 1
  dec,        \* the decision computed last
  sent,       \* events passed to sinks by each caller, in order
  installed,  \* history: every rule list installed, oldest first
  from,       \* history: number of lists installed when the call began
  ledger      \* history: every decision made, with the call it answers

engineVars == <<rules, sink>>
callVars == <<pc, op, query, seq, snapRules, snapSink, idx, dec, sent>>
historyVars == <<installed, from, ledger>>
vars == <<rules, sink, pc, op, query, seq, snapRules, snapSink, idx, dec, sent,
          installed, from, ledger>>

Goto(c, label) == pc' = [pc EXCEPT ![c] = label]
-----------------------------------------------------------------------------
(* New: any rule list, no sink, nobody calling yet.                        *)
Init ==
  /\ rules \in RuleSets
  /\ sink = NoSink
  /\ pc = [c \in Callers |-> "idle"]
  /\ op = [c \in Callers |-> "evaluate"]
  /\ query = [c \in Callers |-> CHOOSE q \in Queries : TRUE]
  /\ seq = [c \in Callers |-> 0]
  /\ snapRules = [c \in Callers |-> <<>>]
  /\ snapSink = [c \in Callers |-> NoSink]
  /\ idx = [c \in Callers |-> 1]
  /\ dec = [c \in Callers |-> DefaultAllow]
  /\ sent = [c \in Callers |-> <<>>]
  /\ installed = <<rules>>
  /\ from = [c \in Callers |-> 1]
  /\ ledger = {}

(* SetSink(s), s possibly nil.                                             *)
SetSink(s) ==
  /\ sink' = s
  /\ UNCHANGED <<rules, callVars, historyVars>>

(* Reload(rs): the whole list is replaced in one store.                    *)
Reload(rs) ==
  /\ Len(installed) < MaxInstalls
  /\ rules' = rs
  /\ installed' = Append(installed, rs)
  /\ UNCHANGED <<sink, callVars, from, ledger>>

(* A caller enters Evaluate or Decide with its next query.                 *)
Call(c, o, q) ==
  /\ pc[c] = "idle"
  /\ seq[c] < MaxCalls
  /\ op' = [op EXCEPT ![c] = o]
  /\ query' = [query EXCEPT ![c] = q]
  /\ seq' = [seq EXCEPT ![c] = @ + 1]
  /\ from' = [from EXCEPT ![c] = Len(installed)]
  /\ Goto(c, "enter")
  /\ UNCHANGED <<engineVars, snapRules, snapSink, idx, dec, sent, installed, ledger>>

(* Faulty variant: the loop starts before the first rule.                  *)
SnapshotOffByOne(c) ==
  /\ pc[c] = "enter"
  /\ snapRules' = [snapRules EXCEPT ![c] = rules]
  /\ snapSink' = [snapSink EXCEPT ![c] = IF op[c] = "evaluate" THEN sink ELSE NoSink]
  /\ idx' = [idx EXCEPT ![c] = 0]
  /\ Goto(c, "scan")
  /\ UNCHANGED <<engineVars, op, query, seq, dec, sent, historyVars>>

(* The read-locked section of Evaluate (rules and sink) or Decide (rules). *)
Snapshot(c) ==
  /\ pc[c] = "enter"
  /\ snapRules' = [snapRules EXCEPT ![c] = rules]
  /\ snapSink' = [snapSink EXCEPT ![c] = IF op[c] = "evaluate" THEN sink ELSE NoSink]
  /\ idx' = [idx EXCEPT ![c] = 1]
  /\ Goto(c, "scan")
  /\ UNCHANGED <<engineVars, op, query, seq, dec, sent, historyVars>>

(* The call has its decision d.                                            *)
Conclude(c, d) ==
  /\ dec' = [dec EXCEPT ![c] = d]
  /\ ledger' = ledger \cup {[caller |-> c, seq |-> seq[c], query |-> query[c],
                             from |-> from[c], upto |-> Len(installed), dec |-> d]}
  /\ Goto(c, "decided")
  /\ UNCHANGED <<engineVars, op, query, seq, snapRules, snapSink, idx, sent,
                 installed, from>>

(* Faulty variant: the loop reads e.rules itself instead of its snapshot.  *)
ScanShared(c) ==
  /\ pc[c] = "scan"
  /\ \/ /\ idx[c] <= Len(rules)
        /\ Matches(rules[idx[c]], query[c])
        /\ Conclude(c, DecisionOf(rules[idx[c]]))
     \/ /\ idx[c] <= Len(rules)
        /\ ~Matches(rules[idx[c]], query[c])
        /\ idx' = [idx EXCEPT ![c] = @ + 1]
        /\ UNCHANGED <<engineVars, pc, op, query, seq, snapRules, snapSink, dec,
                       sent, historyVars>>
     \/ /\ idx[c] > Len(rules)
        /\ Conclude(c, DefaultAllow)

(* One iteration of the loop over the snapshot, or the statement after it. *)
Scan(c) ==
  /\ pc[c] = "scan"
  /\ \/ /\ idx[c] <= Len(snapRules[c])
        /\ Matches(snapRules[c][idx[c]], query[c])
        /\ Conclude(c, DecisionOf(snapRules[c][idx[c]]))
     \/ /\ idx[c] <= Len(snapRules[c])
        /\ ~Matches(snapRules[c][idx[c]], query[c])
        /\ idx' = [idx EXCEPT ![c] = @ + 1]
        /\ UNCHANGED <<engineVars, pc, op, query, seq, snapRules, snapSink, dec,
                       sent, historyVars>>
     \/ /\ idx[c] > Len(snapRules[c])
        /\ Conclude(c, DefaultAllow)

(* Faulty variant: the sink is read when it is called, not with the rules. *)
CallSinkLate(c) ==
  sent' = IF sink # NoSink /\ dec[c].action # "ignore"
          THEN [sent EXCEPT ![c] = Append(@, [seq |-> seq[c], query |-> query[c],
                                              dec |-> dec[c], sink |-> sink])]
          ELSE sent

(* Faulty variant: the event is built from the rules of the moment it is   *)
(* sent, not from the decision that was enforced.                          *)
CallSinkReevaluating(c) ==
  LET d == FirstMatch(rules, query[c]) IN
  sent' = IF snapSink[c] # NoSink /\ d.action # "ignore"
          THEN [sent EXCEPT ![c] = Append(@, [seq |-> seq[c], query |-> query[c],
                                              dec |-> d, sink |-> snapSink[c]])]
          ELSE sent

(* Calling the sink held in snapSink, if there is one and the action is    *)
(* not ignore.                                                             *)
CallSink(c) ==
  sent' = IF snapSink[c] # NoSink /\ dec[c].action # "ignore"
          THEN [sent EXCEPT ![c] = Append(@, [seq |-> seq[c], query |-> query[c],
                                              dec |-> dec[c], sink |-> snapSink[c]])]
          ELSE sent

(* Evaluate emits and returns; Decide returns and its caller holds the     *)
(* decision.                                                               *)
Return(c) ==
  /\ pc[c] = "decided"
  /\ \/ op[c] = "evaluate" /\ CallSink(c) /\ Goto(c, "idle")
     \/ op[c] = "decide" /\ sent' = sent /\ Goto(c, "held")
  /\ UNCHANGED <<engineVars, op, query, seq, snapRules, snapSink, idx, dec, historyVars>>

(* Emit: the read-locked section, then the call of the sink with the       *)
(* action and rule of the earlier Decide.                                  *)
EmitSnapshot(c) ==
  /\ pc[c] = "held"
  /\ snapSink' = [snapSink EXCEPT ![c] = sink]
  /\ Goto(c, "emit")
  /\ UNCHANGED <<engineVars, op, query, seq, snapRules, idx, dec, sent, historyVars>>

EmitReturn(c) ==
  /\ pc[c] = "emit"
  /\ CallSink(c)
  /\ Goto(c, "idle")
  /\ UNCHANGED <<engineVars, op, query, seq, snapRules, snapSink, idx, dec, historyVars>>

(* A prepare-time block check: no event for this decision.                 *)
DropHeld(c) ==
  /\ pc[c] = "held"
  /\ Goto(c, "idle")
  /\ UNCHANGED <<engineVars, op, query, seq, snapRules, snapSink, idx, dec, sent,
                 historyVars>>

Next ==
  \/ \E s \in Sinks \cup {NoSink} : SetSink(s)
  \/ \E rs \in RuleSets : Reload(rs)
  \/ \E c \in Callers, o \in {"evaluate", "decide"}, q \in Queries : Call(c, o, q)
  \/ \E c \in Callers : Snapshot(c)
  \/ \E c \in Callers : Scan(c)
  \/ \E c \in Callers : Return(c)
  \/ \E c \in Callers : EmitSnapshot(c)
  \/ \E c \in Callers : EmitReturn(c)
  \/ \E c \in Callers : DropHeld(c)

Spec == Init /\ [][Next]_vars
-----------------------------------------------------------------------------
Labels == {"idle", "enter", "scan", "decided", "held", "emit"}

Event == [seq : Nat, query : Queries, dec : Decision, sink : Sinks]

Entry == [caller : Callers, seq : Nat, query : Queries, from : Nat, upto : Nat,
          dec : Decision]

(* Type invariant of the engine and its callers' locals.                   *)
TypeOK ==
  /\ rules \in RuleSets
  /\ sink \in Sinks \cup {NoSink}
  /\ pc \in [Callers -> Labels]
  /\ op \in [Callers -> {"evaluate", "decide"}]
  /\ query \in [Callers -> Queries]
  /\ seq \in [Callers -> 0..MaxCalls]
  /\ snapRules \in [Callers -> RuleSets \cup {<<>>}]
  /\ snapSink \in [Callers -> Sinks \cup {NoSink}]
  /\ idx \in [Callers -> Nat \ {0}]
  /\ dec \in [Callers -> Decision]
  /\ sent \in [Callers -> Seq(Event)]
  /\ installed \in Seq(RuleSets)
  /\ from \in [Callers -> Nat]
  /\ ledger \subseteq Entry

(* Every decision is the first-match decision of one whole rule list that  *)
(* was installed at some moment of the call: a Reload in the middle of the *)
(* loop never mixes two lists, and no call uses a list replaced before it  *)
(* began (Evaluate, Decide and Reload).                                    *)
FreshDecision ==
  \A e \in ledger :
    \E v \in e.from .. e.upto : e.dec = FirstMatch(installed[v], e.query)

(* What a sink receives is what was decided: each event carries the        *)
(* decision the same caller got for the same query, however many reloads   *)
(* happened between Decide and Emit; ignored queries produce no event, and *)
(* a caller's events carry strictly increasing sequence numbers, so none   *)
(* is sent twice.                                                          *)
EventFidelity ==
  \A c \in Callers : \A k \in DOMAIN sent[c] :
    LET ev == sent[c][k] IN
    /\ \E e \in ledger : /\ e.caller = c /\ e.seq = ev.seq
                         /\ e.query = ev.query /\ e.dec = ev.dec
    /\ ev.dec.action # "ignore"
    /\ \A j \in DOMAIN sent[c] : j < k => sent[c][j].seq < ev.seq

(* The strengthening that makes the two invariants above inductive.        *)
(* History: rules is the newest list installed, and no call begins before  *)
(* the first one.                                                          *)
HistoryInv ==
  /\ installed # <<>>
  /\ rules = installed[Len(installed)]
  /\ \A c \in Callers : from[c] \in 1 .. Len(installed)
  /\ \A e \in ledger : e.from >= 1 /\ e.upto <= Len(installed)

(* A scanning caller works on a list installed during its call, and no     *)
(* rule it has passed matches.                                             *)
ScanInv ==
  \A c \in Callers : pc[c] = "scan" =>
    /\ idx[c] <= Len(snapRules[c]) + 1
    /\ \A j \in 1 .. (idx[c] - 1) : ~Matches(snapRules[c][j], query[c])
    /\ \E v \in from[c] .. Len(installed) : installed[v] = snapRules[c]

(* A caller past its loop has its decision in the ledger, and the event of *)
(* its current query is not sent while it is busy.                         *)
HeldInv ==
  \A c \in Callers :
    /\ pc[c] \in {"decided", "held", "emit"} =>
         \E e \in ledger : /\ e.caller = c /\ e.seq = seq[c]
                            /\ e.query = query[c] /\ e.dec = dec[c]
    /\ \A k \in DOMAIN sent[c] :
         /\ sent[c][k].seq <= seq[c]
         /\ pc[c] # "idle" => sent[c][k].seq < seq[c]

IInv == TypeOK /\ HistoryInv /\ ScanInv /\ HeldInv /\ FreshDecision /\ EventFidelity
-----------------------------------------------------------------------------
(***************************************************************************)
(* The engine implements the decision service: the moment of decision is   *)
(* the read-locked section, the loop that follows is invisible.            *)
(***************************************************************************)
Status == [c \in Callers |-> IF pc[c] = "enter" THEN "asked"
                             ELSE IF pc[c] \in {"scan", "decided"} THEN "answered"
                             ELSE pc[c]]
Answer == [c \in Callers |-> IF pc[c] = "scan" THEN FirstMatch(snapRules[c], query[c])
                             ELSE dec[c]]

Service == INSTANCE DecisionService WITH status <- Status, answer <- Answer,
                                         target <- snapSink

(* Every behaviour of the engine is one of the decision service, in which  *)
(* a call is decided in one instant from the rules and the sink of that    *)
(* instant, and then emits exactly the event this decision calls for.      *)
ServiceSpec == Service!Spec
=============================================================================
