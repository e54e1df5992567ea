SPECIFICATION Spec
CONSTANTS
  PollIntervals <- MCShortPolls
  DefaultPoll <- MCDefaultPoll
  BeatEvery <- MCBeatEvery
  Timeout <- MCTimeout
  MaxPublish = 2
INVARIANT EveryBeatSent
