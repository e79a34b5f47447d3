CONSTANTS
  Alice = Alice
  Bob = Bob
  Ext = Ext
  NoOne = NoOne
  UsdcToken = UsdcToken
  OtherToken = OtherToken
  Zero = NoOne
  USDC = UsdcToken
  Addr <- MCAddr
  Custody <- MCCustody
  Genesis <- MCGenesis
  Transfers <- Payments
  MaxEvents = 2
  MaxBlocks = 3
  StartingBlock = 0
  MaxFaults = 0
SPECIFICATION Spec
INVARIANT BalanceReadFromNode
CHECK_DEADLOCK FALSE
