SPECIFICATION SpecOnce
CONSTANTS
  Keys <- TwoKeys
  Stakes <- EqualStakes
  Block <- MCBlock
  Genesis <- MCGenesis
  Round <- MCRound
  Parent <- MCParent
  Ancestors <- MCAncestors
  Payload <- MCPayload
  Digest = {"d"}
  EmptyRounds = 5
  ChannelCapacity = 1
  MaxRound = 2
  Timers <- FirstTimers
  MaxRestarts = 0
INVARIANTS
  DigestsKept
CHECK_DEADLOCK FALSE
