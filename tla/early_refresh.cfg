CONSTANTS
  Wallets <- MCWallets
  First = "alice"
  Refresh <- MCRefresh
  BlockTime <- MCBlockTime
  MaxFetches = 3
  MaxTransfers = 1
  MaxLost = 2
SPECIFICATION Spec
INVARIANT RefreshSeesTransfer
CHECK_DEADLOCK FALSE
