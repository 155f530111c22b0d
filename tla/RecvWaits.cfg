\* Deadlines, timeouts, merging and staleness: one source, one universe.
CONSTANTS
  s1 = s1  s2 = s2  u1 = u1  u2 = u2  y1 = y1  disc = disc  bad = bad
  Sources <- OneSource
  Universes <- AllUniverses
  DataUniverses <- U1
  SyncUniverses <- Y1
  Platform <- Unix6
  DiscoveryUniverse = disc
  NoSync = NoSync
  NoSource = NoSource
  SeqMod = 2
  DiscardLower <- Lowest
  DiscardUpper = 0
  Timeout = 2
  SourceLimit = 2
  Unlimited = Unlimited
  AnnounceModes = {FALSE}
  Forever = Forever
  RecvTimeouts = {0, 1, 3, Forever}
  ListenCalls <- ListenU1
  MuteCalls <- MuteOther
  UserCalls <- WaitingCalls
  MergeFns = {"default", "htp"}
  DataPackets <- Mergeable
  DiscoveryPackets <- NoThing
  MaxPages = 2
SPECIFICATION FairSpec
INVARIANTS TypeOK RecvMeetsDeadline TimeoutsSeenInTime ReleasedDataIsFresh HeldDataIsReleasable
PROPERTIES HtpNeverLowers RecvReturns
