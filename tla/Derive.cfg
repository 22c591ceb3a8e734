\* Two-chunk contexts over two byte values; nothing is ever loaded.
SPECIFICATION Spec
CONSTANTS
  Zero = Zero
  NoTxid = NoTxid
  p1 = p1
  p2 = p2
  Paths = {p1, p2}
  Keys <- MCKeys
  ValidKeys <- MCValidKeys
  DepositorKeyAt <- MCDepositorKeyAt
  Vouts = {0, 1}
  AppNames = {a1, a2}
  ContextBytes = {b0, b1}
  MaxContext = 2
  MaxVaults = 1
  MaxKeepers = 1
  MaxChallengers = 1
  HostScalars <- NoScalars
  HostGroups <- NoRecords
  HostKeys <- NoRecords
  MaxBatch = 1
  Psbts <- StreamPsbts
INVARIANTS
  RootConfinement
  StreamIntact
  DerivedFromWhatWasSent
