----------------------------- MODULE Statements -----------------------------
(***************************************************************************)
(* MySQL prepared statements (src/protocol/mysql/stmt.go): the registry of *)
(* one proxied connection and the extractors that feed it, used by the two *)
(* goroutines of the proxy.  Going up, the client's COM_STMT_PREPARE is    *)
(* remembered, a COM_STMT_EXECUTE looked up and a COM_STMT_CLOSE deleted   *)
(* before they are forwarded; going down, a prepare-OK is registered       *)
(* before it is forwarded.  Proxy, client and server are not part of the   *)
(* library.  The client waits for the answer to each command but           *)
(* COM_STMT_CLOSE, which has none and may be sent at any time, so that one *)
(* goroutine deletes while the other registers.  The server gives an       *)
(* identifier it does not use, and forgets all of them when the connection *)
(* is reset, by a command the library does not know.                       *)
(***************************************************************************)
EXTENDS Naturals, Sequences, Functions

CONSTANTS
  Sqls,      \* SQL texts the client prepares, as byte strings
  Ids,       \* identifiers the server may give
  Nothing,   \* what a function returns with ok = false
  MaxSends   \* bound: commands the client sends

Byte == 0 .. 255
FitsUint32(n) == n \div 16777216 \in Byte

ASSUME StatementsAssumption ==
  /\ Sqls \subseteq Seq(Byte) \ {<<>>}
  /\ Ids \subseteq Nat /\ \A id \in Ids : FitsUint32(id)
  /\ Nothing \notin Seq(Byte) \cup Nat
  /\ MaxSends \in Nat

VARIABLES
  stmts,      \* StmtRegistry.stmts
  prepareSql, \* proxy: text of the COM_STMT_PREPARE that waits for its answer
  checked,    \* proxy: what Lookup returned for the COM_STMT_EXECUTE in flight
  up, down,   \* proxy: the payload each goroutine has handled, not yet forwarded
  toProxy, toServer, fromServer, toClient,  \* payloads on the wire
  known,      \* client: identifiers it has received, not closed, not reset
  busy,       \* client: it waits for an answer
  sends,      \* client: commands sent
  open,       \* server: text of each open statement
  runs,       \* history: what was checked and what ran, per execution
  orphaned    \* history: identifiers registered when the server forgot them

proxyVars == <<prepareSql, checked, up, down>>
wireVars == <<toProxy, toServer, fromServer, toClient>>
clientVars == <<known, busy, sends>>
serverVars == <<open, runs>>
vars == <<stmts, prepareSql, checked, up, down, toProxy, toServer, fromServer, toClient,
          known, busy, sends, open, runs, orphaned>>
-----------------------------------------------------------------------------
ComStmtPrepare == 22
ComStmtExecute == 23
ComStmtClose == 25

(* binary.LittleEndian.Uint32(payload[1:5]).                               *)
StmtId(payload) ==
  payload[2] + 256 * (payload[3] + 256 * (payload[4] + 256 * payload[5]))

(* Faulty variant: the command byte is left in the text.                   *)
ExtractPrepareSQLWhole(payload) ==
  IF Len(payload) < 2 \/ payload[1] # ComStmtPrepare THEN Nothing ELSE payload

ExtractPrepareSQL(payload) ==
  IF Len(payload) < 2 \/ payload[1] # ComStmtPrepare THEN Nothing ELSE Tail(payload)

ParseStmtPrepareOK(payload) ==
  IF Len(payload) < 12 \/ payload[1] # 0 THEN Nothing ELSE StmtId(payload)

ExtractStmtExecuteID(payload) ==
  IF Len(payload) < 10 \/ payload[1] # ComStmtExecute THEN Nothing ELSE StmtId(payload)

ExtractStmtCloseID(payload) ==
  IF Len(payload) < 5 \/ payload[1] # ComStmtClose THEN Nothing ELSE StmtId(payload)

(* Faulty variant: the first text of an identifier stays.                  *)
RegisterOnce(id, sql) ==
  stmts' = [i \in DOMAIN stmts \cup {id} |-> IF i \in DOMAIN stmts THEN stmts[i] ELSE sql]

(* Faulty variant: COM_STMT_CLOSE is not taken notice of.                  *)
DeleteNothing(id) == stmts' = stmts

(* The three operations of the registry, each under its mutex.             *)
Register(id, sql) ==
  stmts' = [i \in DOMAIN stmts \cup {id} |-> IF i = id THEN sql ELSE stmts[i]]

Lookup(id) == IF id \in DOMAIN stmts THEN stmts[id] ELSE Nothing

Delete(id) == stmts' = Restrict(stmts, DOMAIN stmts \ {id})
-----------------------------------------------------------------------------
Init ==
  /\ stmts = <<>>
  /\ prepareSql = Nothing /\ checked = Nothing /\ up = <<>> /\ down = <<>>
  /\ toProxy = <<>> /\ toServer = <<>> /\ fromServer = <<>> /\ toClient = <<>>
  /\ known = {} /\ busy = FALSE /\ sends = 0
  /\ open = <<>> /\ runs = {} /\ orphaned = {}

(* The upstream goroutine handles the client's next payload.               *)
HandleUp ==
  LET m == Head(toProxy)
      executed == ExtractStmtExecuteID(m)
      closed == ExtractStmtCloseID(m)
  IN  /\ toProxy # <<>> /\ up = <<>>
      /\ prepareSql' = IF closed = Nothing THEN ExtractPrepareSQL(m) ELSE prepareSql
      /\ checked' = IF executed = Nothing THEN checked ELSE Lookup(executed)
      /\ IF closed = Nothing THEN stmts' = stmts ELSE Delete(closed)
      /\ orphaned' = orphaned \ {closed}
      /\ up' = m
      /\ toProxy' = Tail(toProxy)
      /\ UNCHANGED <<down, toServer, fromServer, toClient, clientVars, serverVars>>

ForwardUp ==
  /\ up # <<>> /\ up' = <<>>
  /\ toServer' = Append(toServer, up)
  /\ UNCHANGED <<stmts, prepareSql, checked, down, toProxy, fromServer, toClient, clientVars,
                 serverVars, orphaned>>

(* The downstream goroutine handles the server's next payload; the answer  *)
(* to a prepare is registered.                                             *)
HandleDown ==
  LET m == Head(fromServer)
      id == IF prepareSql = Nothing THEN Nothing ELSE ParseStmtPrepareOK(m)
  IN  /\ fromServer # <<>> /\ down = <<>>
      /\ IF id = Nothing THEN stmts' = stmts ELSE Register(id, prepareSql)
      /\ orphaned' = orphaned \ {id}
      /\ prepareSql' = Nothing
      /\ down' = m
      /\ fromServer' = Tail(fromServer)
      /\ UNCHANGED <<checked, up, toProxy, toServer, toClient, clientVars, serverVars>>

ForwardDown ==
  /\ down # <<>> /\ down' = <<>>
  /\ toClient' = Append(toClient, down)
  /\ UNCHANGED <<stmts, prepareSql, checked, up, toProxy, toServer, fromServer, clientVars,
                 serverVars, orphaned>>
-----------------------------------------------------------------------------
(* Client and server.                                                      *)
IdBytes(id) == <<id % 256, (id \div 256) % 256, (id \div 65536) % 256, id \div 16777216>>
PrepareCmd(sql) == <<ComStmtPrepare>> \o sql
ExecuteCmd(id) == <<ComStmtExecute>> \o IdBytes(id) \o <<0, 1, 0, 0, 0>>
CloseCmd(id) == <<ComStmtClose>> \o IdBytes(id)
ResetCmd == <<31>>
Truncated == {<<ComStmtPrepare>>} \cup {<<ComStmtExecute>> \o IdBytes(id) : id \in Ids}
PrepareOK(id) == <<0>> \o IdBytes(id) \o <<0, 0, 0, 0, 0, 0, 0>>
OKPacket == <<0, 0, 0, 2, 0, 0, 0>>
ErrPacket == <<255, 40, 4, 35, 52, 50, 48, 48, 48, 69, 114, 114>>

Send(m) ==
  /\ sends < MaxSends
  /\ sends' = sends + 1
  /\ toProxy' = Append(toProxy, m)
  /\ UNCHANGED <<stmts, proxyVars, toServer, fromServer, toClient, serverVars, orphaned>>

SendCommand ==
  /\ ~busy /\ busy' = TRUE
  /\ \E m \in {PrepareCmd(s) : s \in Sqls} \cup {ExecuteCmd(id) : id \in Ids} \cup Truncated :
       Send(m)
  /\ known' = known

SendClose ==
  /\ \E id \in known : Send(CloseCmd(id)) /\ known' = known \ {id}
  /\ busy' = busy

SendReset ==
  /\ ~busy /\ busy' = TRUE
  /\ Send(ResetCmd)
  /\ known' = {}

Receive ==
  /\ toClient # <<>> /\ toClient' = Tail(toClient)
  /\ busy' = FALSE
  /\ known' = known \cup {id \in Ids : Head(toClient) = PrepareOK(id)}
  /\ UNCHANGED <<stmts, proxyVars, toProxy, toServer, fromServer, sends, serverVars, orphaned>>

Answer(m) == fromServer' = Append(fromServer, m)

(* What the server does with a payload that is not one of the four.        *)
Refused(m) ==
  /\ m \in Truncated \/ (\E id \in Ids \ DOMAIN open : m = ExecuteCmd(id))
               \/ \E s \in Sqls : m = PrepareCmd(s)
  /\ Answer(ErrPacket)
  /\ UNCHANGED <<open, runs, orphaned>>

Prepared(m) ==
  \E s \in Sqls, id \in Ids \ DOMAIN open :
    /\ m = PrepareCmd(s)
    /\ open' = [i \in DOMAIN open \cup {id} |-> IF i = id THEN s ELSE open[i]]
    /\ Answer(PrepareOK(id))
    /\ UNCHANGED <<runs, orphaned>>

Executed(m) ==
  \E id \in DOMAIN open :
    /\ m = ExecuteCmd(id)
    /\ runs' = runs \cup {[checked |-> checked, ran |-> open[id]]}
    /\ Answer(OKPacket)
    /\ UNCHANGED <<open, orphaned>>

Closed(m) ==
  \E id \in Ids :
    /\ m = CloseCmd(id)
    /\ open' = Restrict(open, DOMAIN open \ {id})
    /\ UNCHANGED <<fromServer, runs, orphaned>>

Forgotten(m) ==
  /\ m = ResetCmd
  /\ open' = <<>>
  /\ orphaned' = orphaned \cup DOMAIN stmts
  /\ Answer(OKPacket)
  /\ runs' = runs

Serve ==
  /\ toServer # <<>> /\ toServer' = Tail(toServer)
  /\ LET m == Head(toServer)
     IN  Refused(m) \/ Prepared(m) \/ Executed(m) \/ Closed(m) \/ Forgotten(m)
  /\ UNCHANGED <<stmts, proxyVars, toProxy, toClient, clientVars>>

(* Nothing is on its way and nobody waits.                                 *)
Quiet ==
  /\ sends = MaxSends /\ ~busy
  /\ {up, down, toProxy, toServer, fromServer, toClient} = {<<>>}
  /\ UNCHANGED vars

Next ==
  \/ HandleUp
  \/ ForwardUp
  \/ HandleDown
  \/ ForwardDown
  \/ SendCommand
  \/ SendClose
  \/ SendReset
  \/ Receive
  \/ Serve
  \/ Quiet

Spec == Init /\ [][Next]_vars
-----------------------------------------------------------------------------
(* Type invariant of the registry, the proxy, the wire and both peers: the *)
(* registry holds texts the client prepared, under identifiers.            *)
TypeOK ==
  /\ DOMAIN stmts \subseteq Nat /\ \A id \in DOMAIN stmts : stmts[id] \in Sqls
  /\ {prepareSql, checked} \subseteq Sqls \cup {Nothing}
  /\ {up, down} \subseteq Seq(Byte)
  /\ {toProxy, toServer, fromServer, toClient} \subseteq Seq(Seq(Byte))
  /\ known \subseteq Ids /\ busy \in BOOLEAN /\ sends \in 0 .. MaxSends
  /\ DOMAIN open \subseteq Ids /\ \A id \in DOMAIN open : open[id] \in Sqls
  /\ runs \subseteq [checked : Sqls \cup {Nothing}, ran : Sqls]
  /\ orphaned \subseteq Nat

(* Whenever the server executes a prepared statement, Lookup has found it  *)
(* and the text it gave is the one that runs, also when identifiers are    *)
(* used again after a close or a reset (Register, Lookup, Delete).         *)
ChecksWhatRuns == \A r \in runs : r.checked = r.ran

(* The registry holds nothing but statements open at the server, with the  *)
(* server's text, and those a reset made the server forget: failed         *)
(* prepares leave nothing behind and closed statements do not pile up      *)
(* (ParseStmtPrepareOK, ExtractStmtCloseID, Delete).                       *)
FollowsServer ==
  \A id \in DOMAIN stmts :
    id \in orphaned \/ (id \in DOMAIN open /\ open[id] = stmts[id])

(***************************************************************************)
(* The strengthening that makes both inductive.  Handled: the payloads the *)
(* upstream goroutine has handled and the server not yet; Upward and       *)
(* Downward: all payloads on their way, the next to arrive first.          *)
(***************************************************************************)
Handled == IF up = <<>> THEN toServer ELSE Append(toServer, up)
Upward == Handled \o toProxy
Returned == IF down = <<>> THEN toClient ELSE Append(toClient, down)
Downward == Returned \o fromServer

Closes == {CloseCmd(id) : id \in Ids}
Commands == {PrepareCmd(s) : s \in Sqls} \cup {ExecuteCmd(id) : id \in Ids} \cup Truncated
            \cup {ResetCmd} \cup Closes
Answers == {PrepareOK(id) : id \in Ids} \cup {OKPacket, ErrPacket}

Has(queue, m) == \E i \in DOMAIN queue : queue[i] = m

WireInv ==
  /\ up \in Commands \cup {<<>>} /\ down \in Answers \cup {<<>>}
  /\ {toProxy, toServer} \subseteq Seq(Commands)
  /\ {toClient, fromServer} \subseteq Seq(Answers)

(* One command, closes apart, or one answer is on its way.                 *)
OneAtATime ==
  /\ \A i, j \in DOMAIN Upward : Upward[i] \notin Closes /\ Upward[j] \notin Closes => i = j
  /\ Len(Downward) <= 1
  /\ Downward # <<>> => busy
  /\ \A i \in DOMAIN Upward : Upward[i] \notin Closes => busy /\ Downward = <<>>

(* What the client may close, or is closing, the server has open: a        *)
(* statement is closed once, and not after a reset.                        *)
ClosesInv ==
  /\ known \subseteq DOMAIN open
  /\ \A i \in DOMAIN Upward, id \in Ids : Upward[i] = CloseCmd(id) =>
       /\ id \in DOMAIN open \ known
       /\ \A j \in DOMAIN Upward : Upward[j] = CloseCmd(id) => i = j
       /\ \A j \in DOMAIN Upward : Upward[j] = ResetCmd => i < j
  /\ Has(Upward, ResetCmd) => known = {}

(* The text remembered is that of the prepare under way, or just answered, *)
(* and nobody closes a statement whose identifier the client cannot know.  *)
PrepareInv ==
  /\ \A s \in Sqls : Has(Handled, PrepareCmd(s)) => prepareSql = s
  /\ \A id \in Ids : Has(Downward, PrepareOK(id)) =>
       id \in DOMAIN open \ known /\ ~Has(Upward, CloseCmd(id))
  /\ \A id \in Ids : Has(fromServer, PrepareOK(id)) => prepareSql = open[id]

(* The registry has every open statement but those being closed and the    *)
(* one just prepared.                                                      *)
RegistryInv ==
  /\ \A id \in DOMAIN open :
       \/ id \in DOMAIN stmts /\ stmts[id] = open[id]
       \/ Has(Handled, CloseCmd(id))
       \/ Has(fromServer, PrepareOK(id))
  /\ \A id \in Ids : Has(Handled, CloseCmd(id)) => id \notin DOMAIN stmts

(* An execution that will not find its statement closed has been checked.  *)
CheckInv ==
  \A i \in DOMAIN Handled, id \in DOMAIN open :
    Handled[i] = ExecuteCmd(id) =>
      \/ checked = open[id]
      \/ \E j \in 1 .. i - 1 : Handled[j] = CloseCmd(id)

FlowInv ==
  /\ OneAtATime /\ ClosesInv /\ PrepareInv /\ RegistryInv /\ CheckInv
  /\ FollowsServer /\ ChecksWhatRuns

IInv == TypeOK /\ WireInv /\ FlowInv
=============================================================================
