\* Violation: the loser of a race for an attempt answers 500.
CONSTANTS
  r1 = r1
  r2 = r2
  r3 = r3
  i1 = i1
  i2 = i2
  Requests <- MCRequests2
  Invoices <- MCInvoices1
  Profiles <- MCNoProfile
  GatewayOutcomes <- MCOutcomes
  MaxFaults = 0
SPECIFICATION Spec
INVARIANT
  DuplicateAttemptServed
