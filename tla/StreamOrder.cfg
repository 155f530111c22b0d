\* A stream through a bad network, among others, with timeouts announced or not.
CONSTANTS
  s1 = s1  s2 = s2  u1 = u1  u2 = u2
  Sources <- TwoSources
  Universes <- TwoUniverses
  DataUniverses <- TwoUniverses
  SyncUniverses <- NoUniverse
  SeqMod = 4
  DiscardLower <- Lower
  DiscardUpper = 0
  Timeout = 1
  SourceLimit = 2
  Unlimited = Unlimited
  AnnounceModes = {TRUE, FALSE}
  src = s1
  uni = u1
  Terminations = 2
  Overtake = 2
  Others <- OtherStreams
  OtherNumbers <- EvenNumbers
  MaxSent = 5
  InFlight = 2
  Repeats = 1
SPECIFICATION FairSpec
PROPERTIES InOrder DiscardedOnlyAfterBurst EndedStreamIsForgotten AnnouncedTimeoutIsExact
