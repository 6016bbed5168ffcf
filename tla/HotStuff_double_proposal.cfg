SPECIFICATION Spec
CONSTANTS
  Keys <- TwoKeys
  Stakes <- EqualStakes
  Block <- MCBlock
  Genesis <- MCGenesis
  Round <- MCRound
  Parent <- MCParent
  Ancestors <- MCAncestors
  Payload <- MCPayload
  Digest = {"d"}
  EmptyRounds = 0
  ChannelCapacity = 1
  MaxRound = 2
  Timers <- EarlyTimers
  MaxRestarts = 0
INVARIANTS
  VoteOnce
  TimeoutReportsVotes
  AggregatorClean
CHECK_DEADLOCK FALSE
