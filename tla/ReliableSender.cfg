\* Three messages, two cuts and a crash of the peer.
CONSTANTS
    MaxMessages = 3
    MaxConnections = 3
    MaxCrashes = 1
    ChannelCapacity = 2
SPECIFICATION Spec
INVARIANTS
    TypeOK
    NothingLost
    AcksMatchPending
    AckedIsDelivered
PROPERTIES
    KeepsPromise
    EventuallyAcked
CHECK_DEADLOCK FALSE
