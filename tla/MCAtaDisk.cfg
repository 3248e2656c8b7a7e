SPECIFICATION FairSpec
CONSTANTS
  Clients = {"kernel"}
  BASE = 2
  WORDS = 2
  Sectors <- TwoWords
  Own <- AllSectors
INVARIANT ProtocolKept
PROPERTIES ImplementsSectorStore CallsReturn
