\* Two clients of one node; each can end the epoch, and the other is late.
CONSTANTS
    n1 = n1
    n2 = n2
    c1 = c1
    c2 = c2
    Nodes = {n1}
    Clients = {c1, c2}
    home <- Together
    quorum_size = 1
    ObsidoCapacity = 1
    MaxEpoch = 0
    MaxFetches = 2
    MaxTimeouts = 0
    MaxDuplicates = 1
SPECIFICATION Spec
INVARIANTS
    EpochsEndByQuorum
    ClientsFollow
CHECK_DEADLOCK FALSE
