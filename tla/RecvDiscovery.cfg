\* Discovery pages of two sources, in any order and number, and what ends streams.
CONSTANTS
  s1 = s1  s2 = s2  u1 = u1  u2 = u2  y1 = y1  disc = disc  bad = bad
  Sources <- TwoSources
  Universes <- AllUniverses
  DataUniverses <- U1
  SyncUniverses <- Y1
  Platform <- Windows6
  DiscoveryUniverse = disc
  NoSync = NoSync
  NoSource = NoSource
  SeqMod = 2
  DiscardLower <- Lowest
  DiscardUpper = 0
  Timeout = 1
  SourceLimit = 2
  Unlimited = Unlimited
  AnnounceModes = {FALSE}
  Forever = Forever
  RecvTimeouts = {Forever}
  ListenCalls <- ListenDiscovery
  MuteCalls <- MuteDiscovery
  UserCalls <- DiscoveryCalls
  MergeFns <- NoThing
  DataPackets <- Unlistened
  DiscoveryPackets <- Adverts
  MaxPages = 3
SPECIFICATION Spec
INVARIANTS DiscoveredSourcesComplete JoinedGroupsCanBeLeft
