SPECIFICATION Spec
CONSTANTS
  Keys <- TwoKeys
  Stakes <- MajorStakes
  Block <- MCBlock
  Genesis <- MCGenesis
  Round <- MCRound
  Parent <- MCParent
  Ancestors <- MCAncestors
  Payload <- MCPayload
  Digest = {"d"}
  EmptyRounds = 1
  ChannelCapacity = 1
  MaxRound = 3
  Timers = {}
  MaxRestarts = 1
INVARIANTS
  Inv
  StoreClosed
  PayloadAvailable
CHECK_DEADLOCK FALSE
