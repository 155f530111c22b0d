\* Every packet a source makes of its calls and settings.
CONSTANTS
  E131_SOURCE_NAME_FIELD_LENGTH = 2
  E131_MAX_PRIORITY = 1
  E131_MAX_MULTICAST_UNIVERSE = 3
  E131_DISCOVERY_UNIVERSE = 4
  UNIVERSE_CHANNEL_CAPACITY = 2
  DISCOVERY_UNI_PER_PAGE = 2
  E131_PDU_FLAGS = 100
  Cids <- OneCid
  Names <- AnyName
  DataLists <- UpToThree
  UniverseLists <- Lists
  SyncAddresses <- Addresses
  Priorities <- AnyPriority
  E131_DEFAULT_PRIORITY = 1
  Registered <- Adverts
SPECIFICATION Spec
INVARIANTS TypeOK PackNeverFails CallIsCovered
PROPERTY UnderstoodAsSent
