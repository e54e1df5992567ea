# Verification of dbfw-agent-core

dbfw-agent-core is the Go library the inline proxy and the passive tap of
DB-Firewall are built from: it frames and parses the wire protocols of MySQL,
PostgreSQL and MongoDB, decides every query with an ordered rule list, and
exchanges rules, events and heartbeats with a central console. This directory
holds TLA+ modules of its core, TLC runs on small instances, and TLAPS proofs
for all values of the constants. `PROJECT.json` lists the runs, maps every
definition to its source lines, and gives each property a faulty variant of the
code that violates it.

## 1. The system

| part | source | state | operations |
|---|---|---|---|
| rule engine | `engine/engine.go` | the rule slice and the sink, behind an RWMutex | `Evaluate`, `Decide`, `Emit` by connection goroutines; `Reload`, `SetSink` by the console client |
| default rules | `engine/*rules.go` | none (data) | three constant lists |
| console client | `console/client.go` | agent type, monitor flag, tickers, requests in flight | `Start` (poll, heartbeat, cancel), `fetchRules`, `convertRules`, `SetMode`, `Sink`, `pushEvent` |
| MySQL framing | `protocol/mysql/packet.go` | header buffer, fragments of the current packet | `ReadPacket` |
| MySQL statements | `protocol/mysql/stmt.go` | statement id to SQL, behind a Mutex | `Register`, `Lookup`, `Delete`, four extractors |
| MySQL parsers | `protocol/mysql/{command,handshake,capabilities,error}.go` | none | `ExtractQuery`, `ParseHandshakeResponse`, `ClientCapabilitiesFromHandshakeResponse`, `BuildErrorPacket` |
| PostgreSQL framing | `protocol/postgres/packet.go` | message being read | `ReadStartupBytes`, `ReadPacket`, `IsSSLRequest`, `BuildErrorResponse` |
| PostgreSQL parsers | `protocol/postgres/query.go` | none | `ExtractSQL`, `ParseParse`, `ParseBind`, `ParseExecute`, `ParseDataRow` |
| MongoDB framing | `protocol/mongodb/packet.go` | message being read | `ReadPacket` |
| MongoDB parsers | `protocol/mongodb/{bson,opmsg}.go` | none | `ParseTopLevel`, `FirstKeyValue`, `ExtractCommand`, `BuildBlockResponse` |
| prefix replay | `tlsutil/tlsutil.go` | prefix and offset | `PrefixedConn.Read` |
| fingerprints | `content/content.go` | key | `Fingerprint`, `FingerprintValues` |
| dialer, certificates | `backend/backend.go`, `tlsutil/tlsutil.go` | none | `Dial`, `GenerateSelfSignedCert` |

How they interact: a connection goroutine of the proxy (outside this library)
reads packets, extracts the query and calls the engine. The engine copies rules
and sink under a read lock and then works without it, so `Reload` and `SetSink`
interleave with its loop and with the call of the sink. The sink is the console
client's closure; it reads the client's mode without a lock and starts a
goroutine per event. A single goroutine in `Start` polls the console for rules,
gives them to `Reload` and sends heartbeats; each request blocks it for up to
the ten seconds of the HTTP timeout. What a connection learns at one moment is
used at a later one: the capabilities of a MySQL login say how every query of it
is read, and the values of a result row are fingerprinted so that the console can
find them again in an HTTP body the gateway saw.

What is hard to test here, and what `PROJECT.json` lists as hazards: a reload in
the middle of a decision or between a decision and its deferred event; tickers,
timeouts, failed polls and cancellation in one loop; mode changes that race the
sinks; events lost or delayed; packets cut at any byte, payloads at the fragment
limit, lengths at the limits and negative as int32; prefixes that end inside a
header; statement identifiers that are registered, closed and used again from two
goroutines; lengths of up to 64 bits in a login; BSON elements of every type in
front of the field that is looked for; sizes of answers added up by hand; rule
lists in which a statement matches an alert and a block; a cap on tokens.

What makes each part correct:

- engine: every decision is that of the first matching rule of one list that was
  installed during the call; every event reports what was decided, once;
- console client: rules never go back, new ones are enforced in bounded time,
  heartbeats keep coming, cancellation ends it, a connection never waits for it;
- statements: the text looked up for an execution is the text the server runs;
- parsers: the user, database and text they give are those the client sent, from
  any form the protocol allows, and damaged input is refused or gives at least no
  other user and no bytes the client did not send (a cut login is accepted without
  its database, or with the beginning of it: finding 4);
- default rules: a command a block rule is about is blocked, and its client gets
  an answer it can read;
- fingerprints: the longest distinct leaves are kept, and a value in both a row
  and a body gives both one token;
- framing: what is forwarded is exactly what was read, packets are reassembled
  from their fragments, messages have the length they announce, and no whole
  message is lost when the stream ends. The MySQL reader also tells a closed
  connection from a cut one; those of PostgreSQL and MongoDB do not.

## 2. Modules

| module | models | run by | proofs |
|---|---|---|---|
| `Rules` | rules, matching, first-match decision | all engine and agent runs | |
| `Engine` | the engine under concurrent callers | `MCEngine` | `EngineProofs` |
| `DecisionService` | what the engine promises (abstract) | `MCEngine` | `EngineProofs` |
| `ConsoleClient` | `Start` in time, against a console | `MCConsoleClient` | `ConsoleClientProofs` |
| `Agent` | console feed, engine, mode, sink and pushes composed | `MCAgent` | `AgentProofs` |
| `PacketReader` | MySQL `ReadPacket` on a `PrefixedConn` | `MCPacketReader` | `PacketReaderProofs` |
| `Statements` | MySQL statement registry and extractors between the two proxy goroutines | `MCStatements` | `StatementsProofs` |
| `ByteStrings` | searches and little-endian numbers | all parser runs | `ParserProofs` |
| `Bytes` | bytes of `Base` values, and a parser's refusal | all parser runs | |
| `PostgresMessages` | PostgreSQL parsers of texts and error answers | `MCPostgresQuery`, `MCInspection` | `ParserProofs` |
| `PostgresQuery` | the loop of `ParseDataRow` | `MCPostgresQuery` | `ParserProofs` |
| `Fingerprints` | tokens of a text | `MCPostgresQuery` | |
| `ResultTokens` | rows and bodies, parsed and fingerprinted | `MCPostgresQuery` | `ParserProofs` (its parser) |
| `MySQLCommand` | MySQL login, query and error packet | `MCInspection` | `ParserProofs` |
| `MongoCommand` | BSON, commands and error answer of MongoDB | `MCInspection` | `ParserProofs` |
| `DefaultRules` | the three default rule lists | `MCInspection` | `ParserProofs` |
| `Inspection` | from a client's bytes to decision and answer: the parsers, `DefaultRules` and `Rules` composed | `MCInspection` | `ParserProofs` |
| `Framers` | PostgreSQL and MongoDB readers | `MCFramers` | `FramersProofs` |
| `NumberLemmas` | nothing: quotients, and induction along the index of a loop or the places of a walk | | its own lemmas |

Definitions named "Faulty variant" are plausible bugs; no specification uses
them. `PROJECT.json` pairs each with the property that catches it.

**Engine.** `rules` and `sink` are the struct's fields. Per caller: `pc`, the
arguments, the local copies `snapRules` and `snapSink`, the loop index and the
decision. Each locked section is one action (`Reload`, `SetSink`, `Snapshot`,
`EmitSnapshot`) because it does nothing but load or store; each loop iteration
is one action (`Scan`), as is the call of the sink (`Return`, `EmitReturn`).
`installed`, `from` and `ledger` are history. A regular expression is the set of
texts it accepts, the slices of users and databases are sets, and
`strings.EqualFold` is equality under a folding function. The callers are
outside the library: each makes one call at a time and, after `Decide`, either
emits (`EmitSnapshot`) or drops the decision (`DropHeld`), the two uses the
comments of `Decide` and `Emit` describe.

**DecisionService.** A call is decided in one atomic step from the rules of that
instant. `Engine` maps to it with the decision taken at `Snapshot`: while a
caller scans, its abstract answer is already the first match of its snapshot.

**ConsoleClient.** One action per code segment between two blocking points of
`Start`; `Tick` lets one unit of time pass when the goroutine is blocked in the
select or in a request. Tickers hold one tick and drop others, as Go's do. A
request ends by its answer (`AnswerOk`, `AnswerBad`) or when its timeout is used
up. The console (external) publishes lists, becomes unhealthy and recovers; a
healthy one answers before the timeout. Requests do not carry `ctx`, so
cancellation is seen only in the select.

**Agent.** Polls, conversion and reload, decisions, `SetMode`, the sink and the
push goroutines together. `Evaluate` is one step, which the refinement of
`DecisionService` justifies. `SetMode` writes two fields without a lock: between
`SetModeBegin` and `SetModeEnd` a read may see the old or the new value, and of
the string also a mixture. `PushArrives` and `PushEnds` are independent, so a
push may end without having arrived, or arrive and end by timeout.

**PacketReader.** `ReadPrefix` and `ReadConn` are the two branches of
`PrefixedConn.Read` as called by `io.ReadFull`, the latter with any number of
bytes; `ReadEnd` and `ReadBroken` end the stream. `HeaderDone`, `FragmentDone`
and `PacketDone` are what `readFragment` and `ReadPacket` do in between. A byte
has `Base` values; `MaxPayloadLen` is `Base^3 - 1` as in the code with 256.

**Statements.** `Register`, `Lookup` and `Delete` are one step each because they
hold the mutex throughout; the extractors work on real bytes. The proxy is not
in the library, so its two goroutines are modelled from the comments in
`stmt.go`: upstream, the text of a prepare is kept, an execute is looked up and
a close deleted before the payload is forwarded (`HandleUp`, `ForwardUp`);
downstream, a prepare-OK is registered before it is forwarded (`HandleDown`,
`ForwardDown`). Both orders matter: a proxy that forwarded first could miss the
client's next command. The client waits for each answer but may close a
statement at any time; the server reuses identifiers and forgets all of them on
a reset. `Quiet` is the only way to rest, so the deadlock check also shows that
no answer gets lost.

**PostgresMessages, PostgresQuery.** The parsers of texts are operators on a
packet; a scan for a NUL is the smallest index that holds one. `ParseDataRow` is a loop with one
action per field (`Field`), left when no field remains or the next one is not
all there (`Leave`). The letters of a message are model bytes: NUL and others.

**Fingerprints, ResultTokens.** A text is a sequence of lines, because no
pattern matches across a newline; `strings.Join(values, "\n")` is then the
sequence of values itself. What an expression finds, lower case and the look of a
credential are operator parameters; a token is the tuple that is hashed. `Leaves`
is the double loop with its `seen` map, `Kept` the stable sort and the cap.
`ResultTokens` parses a row, fingerprints its values as the agent does and a body
as the gateway does (external, a port of the same grammar).

**MySQLCommand, MongoCommand.** One operator per function, on sequences of bytes
with indices from 1 (the code's offset 32 is 33). `ParseHandshakeResponse`
converts and adds lengths with `Wrap`, the two's complement of an int of eight
bytes; an index below the payload is `Panic`. The loops of `ParseTopLevel` and
`parseOpMsg` are the recursive functions `FieldsFrom` and `Section` on the offset. Names the code compares are
byte strings of the instance (`Name`), those whose length is added up by hand
spelled at full length.

**DefaultRules, Inspection.** The rules carry their names as patterns. SQL
expressions accept the texts that hold one of the instance's `Words`; for
MongoDB, whose texts have labelled parts, `MongoPattern` is what each expression
looks for. `Inspection` has one client packet per behaviour, on a MySQL
connection after its login: `Login`, `MySQLQuery`, `PostgresQuery` and
`MongoMessage` encode what the client means, damage it where the protocol is not
protected by its framing, and call the parser; `Decide` is the engine's first
match on the default list; `Answer` builds the error. That the agent reads no
query after an SSL request or under compression is how the comments of
`capabilities.go` describe it.

**Framers.** The three readers share their shape (header, check of the length,
body) and differ in the tables `HeaderLen`, `Uncounted`, `MsgLen`, `MinLen` and
`MaxLen`: `ReadStartupBytes` (postgres/packet.go 47-67), `ReadPacket`
(postgres/packet.go 20-45) and `ReadPacket` (mongodb/packet.go 34-59). `Int32`
is the conversion to a signed length at the modelled width. Which reader is
called next is the caller's choice (external): startup messages until one is not
an SSLRequest.

## 3. Runs

| run | checks | shows |
|---|---|---|
| `engine` | `TypeOK`, `FreshDecision`, `EventFidelity`, `ServiceSpec` | decisions and events are right under any reload and sink change; the engine implements `DecisionService` |
| `console` | `TypeOK`, `EnforcementLag`, `HeartbeatGap`, `RulesAdvance`, `StopsWhenCancelled`, `CatchesUp` | the waits of the loop are bounded; rules never go back; it ends on cancellation and recovers |
| `console_short_poll` | `EveryBeatSent` (violated) | finding 1 |
| `agent` | `TypeOK`, `EnforcesIntent`, `TruthfulEvents`, `AtMostOnce`, `Settles` | what the console means is enforced and reported, and nobody waits for the console |
| `mysql_reader` | `TypeOK`, `Verbatim`, `Reassembled`, `CleanEnd` | framing of MySQL streams cut anywhere |
| `mysql_truncated` | `TruncationIsUnexpected` (violated) | finding 2 |
| `statements` | `TypeOK`, `ChecksWhatRuns`, `FollowsServer` | what is looked up is what runs; no wrong or left-over entries |
| `postgres_query` | `TypeOK`, `SameText`, `Decodes`, `RowValues`, `KeepsLongest`, `Correlates` | the parsers agree with each other and invert the encodings; a row and a body that shows its values share tokens |
| `inspection` | `InspectTypeOK`, `LoginDecoded`, `OnlyWrapPanics`, `TextIsMeant`, `SqlCaught`, `MongoInspected`, `Answered` | what is checked is what the client sent, the default rules block it when they are meant to, and the client can read the answer |
| `login_length` | `LoginReturns` (violated) | finding 3 |
| `login_truncated` | `TruncatedRefused` (violated) | finding 4 |
| `framers` | `TypeOK`, `Verbatim`, `WellFramed`, `AllReturned` | framing of PostgreSQL and MongoDB streams cut anywhere, with nothing whole lost at the end |

Bounds. *Engine*: callers touch only their own locals and the shared fields, so
one caller against arbitrary reloads is enough (the theorems are for any number).
Two queries and three installed lists are enough for a decision
between two reloads, with lists of length 0, 2 and 3 that give the same query
different answers. *ConsoleClient*: units of five seconds with the code's 30s
and 10s and poll intervals of 5s, 15s, 20s, 25s and the default 60s, that is
below, between, at and above the one and two timeouts that matter; two
publications make one supersede another. *Agent*: one connection, two
queries, two publications (a disabled rule first, capitals, a pattern that does
not compile), two modes. *PacketReader*: bytes of one
bit, so a full fragment has seven; up to three fragments, each stream cut at
every place, four prefixes. *Statements*: two
texts, two identifiers (one above 255), six commands: enough to prepare, reset,
prepare again under the same identifier and execute, with closes in between.
*PostgresQuery, ResultTokens*: all payloads
of up to five bytes from NUL and two others, all rows of up to three columns, cut
everywhere, with counts off by one; two values that may stand for themselves in
either letter case or written together, a credential, seven bodies (two of them
empty) and caps of none, one and two.
*Inspection*: MySQL and PostgreSQL bytes of eight values, so an int has 24 bits and a length of
three needs a prefix; all combinations of the four flags that matter, two users,
authentication data of five lengths, every cut, and ten lengths that do not fit,
around zero, the payload's end and both ends of an int. SQL texts of up to three
of three words, one of which a block rule, one a pair of which another, and one
an alert rule looks for. MongoDB bytes of 64 values; documents with an element of
every type in front of the database and behind it, nested documents and arrays,
document sequences, every cut, and every byte replaced by the least and the
greatest.
*Framers*: bytes of one bit, so lengths are 0 to 15
and signed from 8 on; the limits lie inside that range.

Fairness. `console`: time passes, the goroutine runs, and a ready
case of a `select` is not passed over for ever, since Go picks among ready cases
at random; a healthy console answers. `agent`: the calling goroutine runs
and a push ends, at the latest by the timeout of the HTTP client. No fairness is
assumed of the console otherwise. Deadlock is checked in every run: where a run
may come to rest (a closed connection) the module has a stuttering action for
it, and in the others a sink, the health of the console or the mode can always
change.

## 4. Findings

1. `Start` is described as running background goroutines and sending "a
   heartbeat every 30s" (console/client.go 65-67), but it is one loop: when the
   poll interval is shorter than a slow poll takes, polls follow each other and
   heartbeat ticks are dropped. `HeartbeatGap` shows that it holds, with a delay
   of at most two timeouts, when the interval is at least two timeouts. Between
   one and two timeouts it need not: a poll and a heartbeat are then due at once
   whenever a slow request ends, and `select` may prefer the poll every time.
2. "A truncated packet surfaces as io.ErrUnexpectedEOF (wrapped)"
   (mysql/packet.go 61-62), but a stream that ends right after a header or before
   a continuation header surfaces as a wrapped `io.EOF`. `CleanEnd` shows what
   does hold: the bare `io.EOF` appears only between two packets.
3. `ParseHandshakeResponse` promises "ok=false on truncated or malformed input"
   (mysql/handshake.go 24), but it adds a 64-bit length to its offset unchecked
   (line 63): where the sum does not fit an int (the length itself may, as the
   largest int does) it wraps around to a negative offset, which
   passes the test of line 81 and panics in line 82. `OnlyWrapPanics` shows that
   this is the only such case, `LoginDecoded` that every other damaged login
   is refused or gives the same user and capabilities.
4. The same promise, "ok=false on truncated ... input", does not
   hold for a login cut behind its user name: inside the authentication data it
   is accepted without a database, and inside the database name with the part
   that arrived. `LoginDecoded` shows that it never gives another user, nor a
   database that is not the beginning of the client's.

Three more comments disagree with the code in what a pure function returns. No
property claims what they say, and lemmas of `ParserProofs` prove what the code
does instead, for every input of the kind:

5. `ExtractSQL` "Returns "", false if the packet type is not a query or the payload
   is malformed" (postgres/query.go 33), but it takes a text that runs to the end
   of the payload without its terminator, in both messages (`UnterminatedQuery`,
   `UnterminatedParse`). `ParseParse` refuses such a message; `SameText` shows that
   the two agree on every message it accepts.
6. `FingerprintValues` is described as "concatenating their per-value tokens up to
   maxN" (content.go 101-102) and credentials as values that "are never
   fingerprinted" (40-41), but it fingerprints the joined text: one value that
   looks like a credential leaves the whole row without tokens
   (`CredentialTakesRow`), and the cap keeps the longest of all columns rather
   than the first. `KeepsLongest` shows what `Fingerprint` does of one text,
   `Correlates` what that leaves of correlation.
7. `ExtractCommand` "Returns nil, false for server responses or unparseable
   packets" (mongodb/opmsg.go 42), but an OP_QUERY whose document is cut gives a
   command without a name (`CutOpQuery`). An OP_MSG cut in its body is refused
   (`MongoInspected`).

Observations that no comment contradicts, visible in what the properties allow.
`HasEmptyFilter` searches the body for the bytes of an empty document: other
bytes of that form also count (`MongoCaught` leaves deletes and updates
open in that direction), and filters in document sequences are not seen
(`MassOperation` is about the body). Among values of
equal length the cap keeps the first met, so that a row and a body that list them
in another order may share none (`Room` in `Correlates`). The PostgreSQL and
MongoDB readers return the bare `io.EOF` of a closed connection also for a stream
that ends between a header and its body.

## 5. Proofs

All proofs are for arbitrary constants under the named assumptions of the
modules, which TLC evaluates in the runs of these modules. Apart from the types
of the constants they say:

- `ClientAssumption`: the heartbeat interval is at least three request timeouts
  (30s and 10s in the code);
- `ReaderAssumption`, `FramersAssumption`: at least two byte values, and limits
  the length field can express;
- `StatementsAssumption`: identifiers are 32-bit, texts are not empty;
- `QueryAssumption`: field counts of 16 bits and
  values shorter than 2^31, which is all the PostgreSQL format can express;
- `AgentAssumption`: a pattern compiles or does not, and actions have a
  lower-case form;
- `BytesAssumption`: an even number of byte values;
- `InspectionAssumption`: at least eight of them, 64 with MongoDB; names, texts
  and authentication data without a length hold no NUL, as their formats demand;
  the bitmap of a client is that of its flags; the length of authentication data
  fits the byte, or the two bytes of a length-encoded integer, it is announced
  with, a login fits an int and an error its packet; and
  `ok`, `errmsg` and `code` have the lengths `buildErrorBSON` adds up;
- `RegexpAssumption`: every default rule has an expression;
- markers such as `Nothing` are not values of the kind they stand in for.

- `EngineProofs!TypeCorrect`, `DecisionsAreFresh`, `EventsAreFaithful`. The
  inductive invariant `Engine!IInv` adds three facts: `HistoryInv` (the current
  list is the newest installed, and no call reaches back before the first),
  `ScanInv` (a scanning caller works on a list installed since its call began
  and has passed no matching rule, so that the rule it stops at is the first)
  and `HeldInv` (a caller past its loop has its decision in the ledger and has
  not yet sent the event of its current query). The two properties are not
  inductive without them: they speak of finished calls only.
- `EngineProofs!Refinement`: `Spec => ServiceSpec`. `Snapshot` maps to the
  service's `Answer`, `Scan` to a stutter, because by `ScanInv` the decision it
  reaches is the first match of the snapshot, and the other actions to their
  namesakes.
- `ConsoleClientProofs!TypeCorrect`, `RulesNeverGoBack`: `LoopInv` adds that a
  request is in flight only in `fetch` and `beat`, that running tickers have time
  left, and that an answer about to be installed is not older than what is
  enforced.
- `PacketReaderProofs!ReaderIsVerbatim`: `StreamInv` adds that the connection is
  read only after the whole prefix, that buffers are empty between calls, and
  that `raw` starts with its header. The core is `NextBytes`: what either branch
  of `PrefixedConn.Read` returns extends the consumed part of the wire.
- `PacketReaderProofs!TypeCorrect`, `EndIsClean`, on top of the same invariant.
  The bound on `raw` needs `BodyInv` (a body is never longer than its header
  announces), which holds because appending to a body leaves the length read from
  its header alone (`LengthKept`). The place of EOF needs that `raw` holds a
  header whenever a body is read.
- `FramersProofs!TypeCorrect`, `FramersAreVerbatim`, `MessagesAreWellFramed`,
  `NothingIsLost`: `BufferInv` says how much of a message each state of a call
  holds, and that its length was accepted once the body is read; `PhaseInv` says
  from the last message which reader is next. Without the first, the limits and
  what remains at the end are not inductive, without the second the order of
  readers. `NothingIsLost` also uses that the readers are verbatim: what is not yet
  returned is the buffer and the unread bytes (`RestIs`).
  Two lemmas carry the proof: the bytes of a body do not change the length its
  header announced (`LengthOfHeader`), and a startup message of its announced
  length is an SSLRequest exactly when it announces eight bytes (`SSLRequestIs`).

- `ConsoleClientProofs!HeartbeatsInTime`: `BeatInv`. With a poll interval of at
  least two timeouts a heartbeat tick waits for at most one fetch, because the
  rule tick that could delay it again comes only when that fetch is over; so
  the next heartbeat tick finds the channel empty. The invariant relates the
  two tickers, the request in flight and the time since the last heartbeat.
- `ConsoleClientProofs!RulesInTime`: `LagInv` says that the time a publication
  has waited and the most it can still wait (`Wait`, by place in the loop) stay
  below the bound. `Wait` drops by one with every tick of time and does not grow
  in any step. It rests on two facts about late requests (`SecondBeatInv`,
  `LateInv`); `BeatEvery >= 3 * Timeout` is needed here, since otherwise
  heartbeats alone could keep the loop busy.
- `AgentProofs!TypeCorrect`, `IntentIsEnforced`, `EventsAreTruthful`,
  `EventsArriveOnce`: `FeedInv` (the engine holds a whole conversion of one
  publication), `ModeInv` (in a call during which no `SetMode` runs the mode is
  that of the call's beginning, and a chosen level is truthful before the event
  is built) and `PushInv` (only a decided query that was not ignored is in the sink
  or pushed; it has at most one push, none after its event
  was received except the one that delivered it). That conversion keeps the
  intent of a list of any length is an induction along the loop of
  `convertRules` (`ConversionKeepsIntent`).
- `PacketReaderProofs!PacketsAreReassembled`: `FragmentsInv` says that the
  buffers hold some number of full fragments, their headers, and each payload
  byte at its place. That one more full fragment extends it and that the short
  one completes the wire form is arithmetic on `MaxPayloadLen` with a variable
  `Base`, carried by `OneMore` and the quotients of `NumberLemmas`.
- `StatementsProofs!TypeCorrect`, `ChecksAreTrue`, `RegistryFollows`. First, the
  extractors invert the encodings for every 32-bit identifier and distinguish the
  commands. Then `FlowInv` over what is on the wire in both directions:
  `OneAtATime` (one command, closes apart, or one answer is under way),
  `ClosesInv` (a close names a statement open at the server, once, and precedes a
  reset), `PrepareInv` (the remembered text is that of the prepare under way),
  `RegistryInv` (the registry has every open statement but those being closed and
  the one just prepared) and `CheckInv` (an execution under way was checked,
  unless a close goes ahead of it). `ChecksWhatRuns` speaks of the moment the
  server executes; without these it says nothing about how it got there.
- `ParserProofs!TextsAgree`, `ParsersDecode`: facts about the operators on
  every payload; `FirstNul` and `CStringIs` say what `cstring` finds, and
  `Terminated` puts the strings and terminators together again.
- `ParserProofs!TypeCorrect`, `RowsAreRead`: `LoopInv` and `RowInv` say
  that after `i` fields the position is where the encoding of column `i + 1`
  starts and that the values are those of the first `i` columns. `Encoded` and
  `Signs` give the length back that four bytes hold, -1 for a NULL; `ColumnsGrow`
  and `PayloadIs` that a cut payload is the beginning of the encoded row;
  `LastWhole` that the loop is left exactly at the last column that is announced
  and whole. By the lemma `TokensKeepParsing` all four also hold of
  `ResultTokens`.
- `ParserProofs!InspectTypeCorrect`, `LoginsAreRead`, `PanicsAreWraps`,
  `TextsAreMeant`, `SqlIsCaught`, `AnswersAreRead`. The invariant `InspectInv`
  adds `StageInv` to the properties: what a connection has got and not yet got at
  each stage, and that a query is read only after a whole login, whose
  capabilities are then those the query is read by. The rest is about the
  operators, for every byte base:
  - numbers (`LittleInverts`): what `PutLittle` puts is what `Little` reads, by
    induction along the bytes;
  - logins: everything that arrives of one begins with its head (`BeginsLike`),
    so that `AnyLogin` finds the user in it or refuses it, and the offset behind
    the authentication data is outside the payload only when the length wraps
    (`PastAuthIs`); `SentParts` gives the place of each part of a whole one. In a
    cut one that offset is where it is in the whole one, or behind the last byte
    (`PastSent`), so the database is what arrived of the client's (`CutLogin`);
  - queries: `QueryRead` and `SQLRead`, one case for each form of a query;
  - default lists: a list is its blocks and then its alerts (`ListOf`), so the
    first match is a block if any block matches (`EvaluateIs`);
  - answers: the packets of MySQL and PostgreSQL byte by byte (`MySQLAnswer`,
    `PostgresAnswer`). For MongoDB, `IsErrorDoc` says what `buildErrorBSON` puts
    at which place, and the client's walk is followed element by element
    (`ErrorRead`);
  - the loop of `ParseTopLevel` moves on at every element, so the recursive
    function that models it is what its definition says on every document
    (`FieldsDef`, by `WalkExists`); the loop of `parseOpMsg` ends in a body or
    nothing on every payload, damaged ones included (`SectionIs`, by
    `WalkInduction`), and the text made of it has only the labels of
    `ToRuleString` (`Labelled`).

Only model-checked, and why:

- the liveness properties: fairness is out of the prover's reach;
- `KeepsLongest` and `Correlates`: the tokens of a text are selected, sorted and
  capped by library operators (`SelectSeq`, `SetToSortSeq`, `FlattenSeq`) whose
  definitions the provers cannot unfold;
- `MongoInspected` (`MongoDecoded`, the text, and `MongoCaught`, the decision): a
  document is put together with `FlattenSeq` from any number of elements of any
  type, and its nested documents are searched as bytes. What is proved instead is that the walk ends and advances as defined
  on every document, and what it reads from the error document;
- the violated properties of section 4, which are refuted by a trace.

## 6. Plan

All parts with logic of their own are modelled. Every safety property of the
engine, the console client, the agent, the framers, the statements, the MySQL and
PostgreSQL parsers, the default SQL lists and the error answers is proved. Left
for proof are `KeepsLongest`, `Correlates` and `MongoInspected`; they would need
sorting and flattening written as recursive functions along an index, with an
induction over the elements of a document.

## 7. Not modelled

- `backend.Dial` and `GenerateSelfSignedCert`: I/O and key generation without
  state or order.
- What the regular expressions of the default SQL rules and of the token classes
  accept: parameters of the models. That the Lua port in the gateway has the same
  grammar is taken for granted.
- Names that imitate labels: `ToRuleString` writes one flat text, and the
  expressions `HAS:\$where`, `HAS:\$(function|accumulator)` and
  `\bEMPTY_FILTER\b` are not anchored, so that a collection named `EMPTY_FILTER`
  is blocked. `MongoPattern` matches labelled parts and assumes that names are
  words in one letter case that hold no label; "only then" in `MongoInspected`
  rests on it.
- The hashes of `content`: taken to be injective.
- `Command.String` and the wording of messages, events and logs.
- PostgreSQL portals and statements by name: the library parses their messages
  (`ParseParse`, `ParseBind`, `ParseExecute`) but the map from names to texts is
  kept by the proxy, which is not in this repository.
