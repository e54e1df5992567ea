--------------------------- MODULE DecisionService ---------------------------
(***************************************************************************)
(* What the engine promises its callers (the contracts of Evaluate,        *)
(* Decide, Emit, Reload and SetSink in src/engine/engine.go): a call is    *)
(* decided in one instant by the first matching rule of the list installed *)
(* at that instant; Evaluate also fixes the sink at that instant and emits *)
(* exactly one event, unless the action is ignore or there is no sink;     *)
(* Decide emits nothing, and a later Emit sends the held decision.         *)
(***************************************************************************)
EXTENDS Rules

CONSTANTS Callers, Queries, RuleSets, Sinks, NoSink

VARIABLES rules, sink, status, op, query, seq, answer, target, sent

svcVars == <<rules, sink, status, op, query, seq, answer, target, sent>>

Become(c, label) == status' = [status EXCEPT ![c] = label]

Init ==
  /\ rules \in RuleSets
  /\ sink = NoSink
  /\ status = [c \in Callers |-> "idle"]
  /\ op \in [Callers -> {"evaluate", "decide"}]
  /\ query \in [Callers -> Queries]
  /\ seq = [c \in Callers |-> 0]
  /\ answer \in [Callers -> Decision]
  /\ target = [c \in Callers |-> NoSink]
  /\ sent = [c \in Callers |-> <<>>]

SetSink(s) ==
  /\ sink' = s
  /\ UNCHANGED <<rules, status, op, query, seq, answer, target, sent>>

Reload(rs) ==
  /\ rules' = rs
  /\ UNCHANGED <<sink, status, op, query, seq, answer, target, sent>>

Ask(c, o, q) ==
  /\ status[c] = "idle"
  /\ op' = [op EXCEPT ![c] = o]
  /\ query' = [query EXCEPT ![c] = q]
  /\ seq' = [seq EXCEPT ![c] = @ + 1]
  /\ Become(c, "asked")
  /\ UNCHANGED <<rules, sink, answer, target, sent>>

(* The instant of decision.                                                *)
Answer(c) ==
  /\ status[c] = "asked"
  /\ answer' = [answer EXCEPT ![c] = FirstMatch(rules, query[c])]
  /\ target' = [target EXCEPT ![c] = IF op[c] = "evaluate" THEN sink ELSE NoSink]
  /\ Become(c, "answered")
  /\ UNCHANGED <<rules, sink, op, query, seq, sent>>

Event(c) == [seq |-> seq[c], query |-> query[c], dec |-> answer[c], sink |-> target[c]]

Deliver(c) ==
  sent' = IF target[c] # NoSink /\ answer[c].action # "ignore"
          THEN [sent EXCEPT ![c] = Append(@, Event(c))]
          ELSE sent

Return(c) ==
  /\ status[c] = "answered"
  /\ \/ op[c] = "evaluate" /\ Deliver(c) /\ Become(c, "idle")
     \/ op[c] = "decide" /\ sent' = sent /\ Become(c, "held")
  /\ UNCHANGED <<rules, sink, op, query, seq, answer, target>>

(* Emit fixes the sink in one instant and then calls it.                   *)
Emit(c) ==
  /\ status[c] = "held"
  /\ target' = [target EXCEPT ![c] = sink]
  /\ Become(c, "emit")
  /\ UNCHANGED <<rules, sink, op, query, seq, answer, sent>>

EmitReturn(c) ==
  /\ status[c] = "emit"
  /\ Deliver(c)
  /\ Become(c, "idle")
  /\ UNCHANGED <<rules, sink, op, query, seq, answer, target>>

Drop(c) ==
  /\ status[c] = "held"
  /\ Become(c, "idle")
  /\ UNCHANGED <<rules, sink, op, query, seq, answer, target, sent>>

Next ==
  \/ \E s \in Sinks \cup {NoSink} : SetSink(s)
  \/ \E rs \in RuleSets : Reload(rs)
  \/ \E c \in Callers, o \in {"evaluate", "decide"}, q \in Queries : Ask(c, o, q)
  \/ \E c \in Callers : Answer(c) \/ Return(c) \/ Emit(c) \/ EmitReturn(c) \/ Drop(c)

Spec == Init /\ [][Next]_svcVars
=============================================================================
