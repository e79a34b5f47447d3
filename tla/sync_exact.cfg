CONSTANTS
  Alice = Alice
  Bob = Bob
  Ext = Ext
  NoOne = NoOne
  UsdcToken = UsdcToken
  OtherToken = OtherToken
  Zero = NoOne
  USDC = UsdcToken
  Addr <- MCAddr
  Custody <- MCCustody
  Genesis <- MCGenesis
  Transfers <- Mixed
  MaxEvents = 3
  MaxBlocks = 3
  StartingBlock = 0
  MaxFaults = 1
SPECIFICATION Spec
INVARIANT TypeOK
INVARIANT BalanceIsPast
INVARIANT ExactAtRest
INVARIANT AppliedInOrder
INVARIANT PipelineInOrder
PROPERTY MirrorsChain
CHECK_DEADLOCK FALSE
