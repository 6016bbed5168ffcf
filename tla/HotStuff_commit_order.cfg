SPECIFICATION Spec
CONSTANTS
  Keys <- OneKeys
  Stakes <- OneStakes
  Block <- MCBlock
  Genesis <- MCGenesis
  Round <- MCRound
  Parent <- MCParent
  Ancestors <- MCAncestors
  Payload <- MCPayload
  Digest = {}
  EmptyRounds = 7
  ChannelCapacity = 1
  MaxRound = 7
  Timers <- AllTimers
  MaxRestarts = 0
INVARIANTS
  CommitsInChainOrder
CHECK_DEADLOCK FALSE
