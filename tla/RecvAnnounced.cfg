\* Finding: a timed-out stream may stay unannounced behind a live one.
CONSTANTS
  s1 = s1  s2 = s2  u1 = u1  u2 = u2  y1 = y1  disc = disc  bad = bad
  Sources <- TwoSources
  Universes <- AllUniverses
  DataUniverses <- U1
  SyncUniverses <- Y1
  Platform <- Unix6
  DiscoveryUniverse = disc
  NoSync = NoSync
  NoSource = NoSource
  SeqMod = 2
  DiscardLower <- Lowest
  DiscardUpper = 0
  Timeout = 2
  SourceLimit = 2
  Unlimited = Unlimited
  AnnounceModes = {TRUE, FALSE}
  Forever = Forever
  RecvTimeouts = {Forever}
  ListenCalls <- ListenU1Y1
  MuteCalls <- NoThing
  UserCalls <- AnnounceCalls
  MergeFns = {"default"}
  DataPackets <- Held
  DiscoveryPackets <- NoThing
  MaxPages = 2
SPECIFICATION FairSpec
PROPERTY AnnouncedTimeoutIsDetected
