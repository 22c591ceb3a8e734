SPECIFICATION Spec
CONSTANTS
  Word = 1048576
  HalfWord = 65536
  CoinType = 0
  MaxKeepers = 2
  MaxChallengers = 2
  MaxVaults = 2
  MaxRate = 100
  MaxPrepeginFee = 1000
  MaxMoney = 900000
  ValidKeys = {5}
  Tags <- MCTags
  HostValues <- MCHostValues
  PrePegIns <- MCPrePegIns
  HtlcValues <- MCHtlcValues
  Payouts <- MCPayouts
  NoPayouts <- MCNoPayouts
INVARIANTS
  FundsTypeOK
  ScalarsAsSent
  GroupsAsSent
  CommissionCovered
  PrePegInLayout
  HtlcsSpendable
  PayoutPossible
  FeesWithinBounds
