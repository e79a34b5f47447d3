CONSTANTS
  Alice = Alice
  Bob = Bob
  Ext = Ext
  r1 = r1
  r2 = r2
  r3 = r3
  r4 = r4
  Addr <- MCAddr
  Keys <- MCKeys
  Opening <- MCOpening
  Wrap = 4
  Tip = 1
  BaseFees = {1, 2}
  Requests = {r1, r2, r3, r4}
  Intent <- Rivalry
  MaxFaults = 1
SPECIFICATION Spec
INVARIANT TypeOK
 
INVARIANT NextInLine
INVARIANT BroadcastIsKept
PROPERTY PaysOnlyOnRequest
CHECK_DEADLOCK FALSE
