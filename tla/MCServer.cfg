\* Start-up failures, the signal and two requests in every order.
CONSTANTS
  r1 = r1
  r2 = r2
  Requests <- MCRequests
  Statements = 2
SPECIFICATION FairSpec
INVARIANTS
  ClosedInOrder
  NilMeansGraceful
PROPERTIES
  NoTransactionCut
  ProcessEnds
