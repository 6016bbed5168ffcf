SPECIFICATION Spec
CONSTANTS
  Keys <- ThreeKeys
  Stakes <- LastStakes
  Block <- MCBlock
  Genesis <- MCGenesis
  Round <- MCRound
  Parent <- MCParent
  Ancestors <- MCAncestors
  Payload <- MCPayload
  Digest = {}
  EmptyRounds = 5
  ChannelCapacity = 1
  MaxRound = 3
  Timers <- LastTwoTimers
  MaxRestarts = 0
INVARIANTS
  TypeOK
  Agreement
  ChosenIsFinal
  CertificatesBacked
  StoreClosed
  RoundAfterQC
PROPERTY Monotone
CHECK_DEADLOCK FALSE
