\* Timeouts dropped silently: three sources, a limit of two, one universe for data and sync.
CONSTANTS
  s1 = s1  s2 = s2  s3 = s3  u1 = u1  u2 = u2
  Sources <- ThreeSources
  Universes <- OneUniverse
  DataUniverses <- OneUniverse
  SyncUniverses <- OneUniverse
  SeqMod = 4
  DiscardLower <- Lower
  DiscardUpper = 0
  Timeout = 2
  SourceLimit = 2
  Unlimited = Unlimited
  AnnounceModes = {FALSE}
SPECIFICATION Spec
SYMMETRY Symmetry
INVARIANTS TypeOK NoEmptySource SourceLimitRespected CheckLeavesNothingTimedOut RefusalMeansLimitReached
PROPERTIES StreamsMoveForward LiveEntriesPersist
