SPECIFICATION Spec
CONSTANTS
  Keys <- OneKeys
  Stakes <- OneStakes
  Block <- MCBlock
  Genesis <- MCGenesis
  Round <- MCRound
  Parent <- MCParent
  Ancestors <- MCAncestors
  Payload <- MCPayload
  Digest = {}
  EmptyRounds = 5
  ChannelCapacity = 1
  MaxRound = 6
  Timers <- AllTimers
  MaxRestarts = 0
INVARIANTS
  CommitsWholeChain
  Agreement
PROPERTY FollowsProtocol
CHECK_DEADLOCK FALSE
