\* Finding: a termination that fails loses the next sequence number.
CONSTANTS
  Universes <- TwoUniverses
  Legal <- TwoUniverses
  NumberMod = 4
  Terminations = 3
  PollPeriod = 1
  AdvertInterval = 2
  FailingSends <- AllKinds
  SendCalls <- OneSend
  UserCalls <- Terminating
  NoSync = NoSync
SPECIFICATION Spec
CHECK_DEADLOCK FALSE
PROPERTY NumbersAreKept
