\* sign_custom_inputs.c:262
SPECIFICATION Spec
CONSTANTS
  Zero = Zero
  NoTxid = NoTxid
  p1 = p1
  p2 = p2
  Paths = {p1}
  Keys <- MCKeys
  ValidKeys <- MCValidKeys
  DepositorKeyAt <- MCDepositorKeyAt
  Vouts = {0, 1}
  AppNames = {a1}
  ContextBytes = {b0}
  MaxContext = 1
  MaxVaults = 1
  MaxKeepers = 1
  MaxChallengers = 1
  HostScalars <- RouteScalars
  HostGroups <- RouteGroups
  HostKeys <- SignKeys
  MaxBatch = 2
  Psbts <- OneChallenger
INVARIANT
  NoPayoutOncePerChallenger
