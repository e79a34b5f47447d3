CONSTANTS
  CrcText <- MCCrcText
  MaxDigits = 9
  Amounts <- MCAmounts
  Requests = {"coffee", "dinner", "dust", "lower", "seven decimals", "euro", "network", "address",
    "negative", "memo 95", "memo 96", "zeros", "too long"}
  Request <- MCRequest
  PageRequests = {"dinner", "dust"}
  Slips <- MCSlips
  Capacity = 300
  MaxAsks = 2
  MaxClicks = 1
  MaxEdits = 0
  MaxLost = 0
SPECIFICATION Spec
INVARIANT TypeOK
INVARIANT PaidAsIssued
INVARIANT SameAsDirect
CHECK_DEADLOCK FALSE
