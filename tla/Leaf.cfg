SPECIFICATION Spec
CONSTANTS
  NoRead = NoRead
  NoIntent = NoIntent
  KeyLen = 2
  MaxScript = 104
  MaxValue = 112
  PrefixLen = 8
  MaxControlBlock = 8
  Tapscript = 192
  ActualBufAt = 98
  Byte <- MCByte
  ChunkSizes <- MCChunkSizes
  Maps <- MCMaps
  Lies <- MCLies
  Expected <- MCExpected
  Intents <- MCIntents
INVARIANTS
  LeafTypeOK
  HonestReadSucceeds
  PrefixGenerated
  AppChallengersInOrder
  PegInsDistinct
  TimelocksReadBack
  ClaimerExact
  LeafInItsOwnFlow
  ShownTimelockEnforced
  AssertBoundToIntent
PROPERTIES
  ReaderImplementsRead
  ReadEnds
