SPECIFICATION Spec
CONSTANTS
  Keys <- ThreeKeys
  Stakes <- EqualStakes
  Block <- Blocks
  Genesis = "g"
  Round <- BlockRound
  Parent <- BlockParent
  Ancestors <- BlockAncestors
  Digest = {"d"}
  Payload <- BlockPayload
  EmptyRounds = 5
  Me = "a"
  PeerStore <- PeerStores
  OnDisk <- Disks
  Proposed = {"b3", "y4"}
  GcDepth = 1
  SyncRetryNodes = 3
  ChannelCapacity = 2
  MaxFutures = 2
  MaxLosses = 1
INVARIANTS
  TypeOK
  OneFutureEach
  MissingParentsRequested
  NobodyWaitsForStored
PROPERTIES
  StoresInOrder
  ParentsArrive
CHECK_DEADLOCK FALSE
