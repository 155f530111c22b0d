\* Adverts of one to three pages: a datagram is lost or a send fails.
CONSTANTS
  Universes <- TwoUniverses
  PerPage = 1
  cid = cid
  Timeout = 1
  AdvertInterval = 2
  Terminations = 1
  Faults = 1
  MaxPages = 4
SPECIFICATION FairSpec
INVARIANTS TypeOK CompleteAdvertIsListed ListedWasAdvertised
PROPERTY EventuallyListed
