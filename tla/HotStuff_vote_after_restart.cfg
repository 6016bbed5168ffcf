SPECIFICATION Spec
CONSTANTS
  Keys <- TwoKeys
  Stakes <- EqualStakes
  Block <- MCBlock
  Genesis <- MCGenesis
  Round <- MCRound
  Parent <- MCParent
  Ancestors <- MCAncestors
  Payload <- MCPayload
  Digest = {"d"}
  EmptyRounds = 5
  ChannelCapacity = 1
  MaxRound = 2
  Timers = {}
  MaxRestarts = 1
INVARIANTS
  VoteOnce
CHECK_DEADLOCK FALSE
