\* Every call, every datagram that fails, the update thread and the drop.
CONSTANTS
  Universes <- OneIllegal
  Legal <- TwoUniverses
  NumberMod = 3
  Terminations = 2
  PollPeriod = 1
  AdvertInterval = 2
  FailingSends <- AllKinds
  SendCalls <- ManySends
  UserCalls <- Calling
  NoSync = NoSync
SPECIFICATION FairSpec
CHECK_DEADLOCK FALSE
INVARIANTS TypeOK NextNumberFollows AdvertsOnTime
PROPERTIES ConsecutiveNumbers DeregisteredWasTerminated DropReturns
