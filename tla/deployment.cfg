CONSTANTS
  Alice = Alice
  Bob = Bob
  Int32 <- MCInt32
  Numeral <- MCNumeral
  Custody <- MCCustody
  Requests = {Pay1}
  Deployments <- MCDeployments
  MaxEnds = 2
SPECIFICATION FairSpec
INVARIANT TypeOK
INVARIANT UpIsComplete
INVARIANT AnswersAreTrue
PROPERTY ComesUp
PROPERTY Stops
CHECK_DEADLOCK FALSE
