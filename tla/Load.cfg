\* Every order of loading, restarting and refusing intents of one or two
\* groups, one or two keepers and one challenger, two records per APDU.
SPECIFICATION Spec
CONSTANTS
  Zero = Zero
  NoTxid = NoTxid
  p1 = p1
  p2 = p2
  Paths = {p1, p2}
  Keys <- MCKeys
  ValidKeys <- MCValidKeys
  DepositorKeyAt <- MCDepositorKeyAt
  Vouts = {0, 1, 2}
  AppNames = {a1}
  ContextBytes = {b0}
  MaxContext = 1
  MaxVaults = 2
  MaxKeepers = 2
  MaxChallengers = 1
  HostScalars <- LoadScalars
  HostGroups <- LoadGroups
  HostKeys <- LoadKeys
  MaxBatch = 2
  Psbts <- StreamPsbts
INVARIANTS
  TypeOK
  IdleIsClean
  CommitmentsBound
  ApprovedIntentInForce
  ApprovedIntentWellFormed
  LoadCursor
PROPERTIES
  RefusalEndsSession
