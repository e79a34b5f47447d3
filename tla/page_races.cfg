CONSTANTS
  CrcText <- MCCrcText
  MaxDigits = 9
  Amounts <- MCAmounts
  Requests = {"dinner", "dust"}
  Request <- MCRequest
  PageRequests = {"dinner", "dust"}
  Slips <- OneSlip
  Capacity = 300
  MaxAsks = 2
  MaxClicks = 2
  MaxEdits = 1
  MaxLost = 1
SPECIFICATION LiveSpec
INVARIANT PaidWasPreviewed
INVARIANT OverlapNeedsEdit
INVARIANT PaidAgainAfterLoss
INVARIANT QRIsLastAsked
PROPERTY ButtonsComeBack
CHECK_DEADLOCK FALSE
