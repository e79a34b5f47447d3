CONSTANTS
  Alice = Alice
  Bob = Bob
  Ext = Ext
  NoOne = NoOne
  UsdcToken = UsdcToken
  OtherToken = OtherToken
  Zero = NoOne
  USDC = UsdcToken
  Addr <- MCAddr
  Custody <- MCCustody
  Genesis <- MCGenesis
  Transfers <- Payments
  MaxEvents = 2
  MaxBlocks = 3
  StartingBlock = 1
  MaxFaults = 2
SPECIFICATION FairSpec
INVARIANT NothingSkipped
PROPERTY EventuallyApplied
CHECK_DEADLOCK FALSE
