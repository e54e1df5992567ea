SPECIFICATION FairSpec
CONSTANTS
  PollIntervals <- MCPollIntervals
  DefaultPoll <- MCDefaultPoll
  BeatEvery <- MCBeatEvery
  Timeout <- MCTimeout
  MaxPublish = 2
INVARIANTS TypeOK EnforcementLag HeartbeatGap
PROPERTIES RulesAdvance StopsWhenCancelled CatchesUp
