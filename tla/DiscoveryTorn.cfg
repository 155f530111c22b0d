\* Finding: after one lost page the pages of two adverts are listed together.
CONSTANTS
  Universes <- TwoUniverses
  PerPage = 1
  cid = cid
  Timeout = 1
  AdvertInterval = 2
  Terminations = 1
  Faults = 1
  MaxPages = 4
SPECIFICATION Spec
INVARIANT OnlyAdvertsAreListed
