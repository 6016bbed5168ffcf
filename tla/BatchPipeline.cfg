SPECIFICATION Spec
CONSTANTS
  Keys <- ThreeKeys
  Stakes <- FirstStakes
  Me = "a"
  BatchSize = 2
  ChannelCapacity = 1
  MaxTransactions = 3
  MaxMakes = 1
  MayCrash = {"c"}
INVARIANTS
  TypeOK
  TransactionsKept
  DigestsAvailable
PROPERTIES
  LinksUsed
  TransactionsArrive
CHECK_DEADLOCK FALSE
