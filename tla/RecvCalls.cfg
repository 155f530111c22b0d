\* Calls of the user between packets: listening, muting, announcing, resetting, dropping.
CONSTANTS
  s1 = s1  s2 = s2  u1 = u1  u2 = u2  y1 = y1  disc = disc  bad = bad
  Sources <- TwoSources
  Universes <- AllUniverses
  DataUniverses <- U1
  SyncUniverses <- Y1
  Platform <- Windows4
  DiscoveryUniverse = disc
  NoSync = NoSync
  NoSource = NoSource
  SeqMod = 2
  DiscardLower <- Lowest
  DiscardUpper = 0
  Timeout = 1
  SourceLimit = 2
  Unlimited = Unlimited
  AnnounceModes = {TRUE, FALSE}
  Forever = Forever
  RecvTimeouts = {Forever}
  ListenCalls <- ListenU1Y1
  MuteCalls <- U1
  UserCalls <- CallsBetween
  MergeFns <- NoThing
  DataPackets <- DataEnded
  DiscoveryPackets <- NoThing
  MaxPages = 2
SPECIFICATION Spec
SYMMETRY Symmetry
CHECK_DEADLOCK FALSE
INVARIANT HeldDataIsLatest
PROPERTIES TrackerSpec NoSilentTimeout GroupsFollowUniverses
