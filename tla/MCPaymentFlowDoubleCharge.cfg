\* Violation: the rollback of a charged attempt erases its reservation.
CONSTANTS
  r1 = r1
  r2 = r2
  r3 = r3
  i1 = i1
  i2 = i2
  Requests <- MCRequests2
  Invoices <- MCInvoices1
  Profiles <- MCNoProfile
  GatewayOutcomes <- MCOutcomes
  MaxFaults = 1
SPECIFICATION Spec
INVARIANT
  NoDuplicateGatewayCall
