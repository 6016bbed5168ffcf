\* A client on each of two nodes, both needed for a quorum, one timeout.
CONSTANTS
    n1 = n1
    n2 = n2
    c1 = c1
    c2 = c2
    Nodes = {n1, n2}
    Clients = {c1, c2}
    home <- OneEach
    quorum_size = 2
    ObsidoCapacity = 1
    MaxEpoch = 1
    MaxFetches = 1
    MaxTimeouts = 1
    MaxDuplicates = 0
SPECIFICATION FairSpec
INVARIANTS
    TypeOK
    EpochsEndByQuorum
    
    VotersHaveWeights

    
CHECK_DEADLOCK FALSE
