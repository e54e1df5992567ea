--------------------------- MODULE MCConsoleClient ---------------------------
(***************************************************************************)
(* ConsoleClient in units of five seconds: heartbeats every 30s, requests  *)
(* that time out after 10s.                                                *)
(***************************************************************************)
EXTENDS ConsoleClient

FiveSeconds(s) == s \div 5

(* None given (so 60s), 5s, less than a request may take, 15s, between one *)
(* and two request timeouts, 20s, exactly two, and 25s.                    *)
MCPollIntervals == {FiveSeconds(s) : s \in {0, 5, 15, 20, 25}}
MCShortPolls == {FiveSeconds(5)}
MCDefaultPoll == FiveSeconds(60)
MCBeatEvery == FiveSeconds(30)
MCTimeout == FiveSeconds(10)
=============================================================================
