\* Finding: after one lost page a complete advert is not listed.
CONSTANTS
  Universes <- TwoUniverses
  PerPage = 1
  cid = cid
  Timeout = 1
  AdvertInterval = 2
  Terminations = 1
  Faults = 1
  MaxPages = 4
SPECIFICATION Spec
INVARIANT WholeAdvertIsListed
