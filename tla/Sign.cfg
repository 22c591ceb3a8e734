\* One approved intent (two vaults, one keeper, one challenger) and the PSBTs
\* of its ceremony, replayed and aborted in every order.
SPECIFICATION Spec
CONSTANTS
  Zero = Zero
  NoTxid = NoTxid
  p1 = p1
  p2 = p2
  Paths = {p1}
  Keys <- MCKeys
  ValidKeys <- MCValidKeys
  DepositorKeyAt <- MCDepositorKeyAt
  Vouts = {0, 1}
  AppNames = {a1}
  ContextBytes = {b0}
  MaxContext = 1
  MaxVaults = 2
  MaxKeepers = 1
  MaxChallengers = 1
  HostScalars <- SignScalars
  HostGroups <- SignGroups
  HostKeys <- SignKeys
  MaxBatch = 2
  Psbts <- SignPsbts
INVARIANTS
  WithinAllowance
  MasksMatchSignatures
PROPERTIES
  BudgetNeverRestored
  KeepsBudget
