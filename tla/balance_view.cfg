CONSTANTS
  Wallets <- MCWallets
  First = "alice"
  Refresh <- MCRefresh
  BlockTime <- MCBlockTime
  MaxFetches = 3
  MaxTransfers = 1
  MaxLost = 2
SPECIFICATION LiveSpec
INVARIANT TypeOK
INVARIANT LoadingIsTrue
INVARIANT ShowsLastRefresh
PROPERTY LoadingEnds
CHECK_DEADLOCK FALSE
