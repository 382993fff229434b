\* Three requests on one invoice and a pool of one or two connections.
CONSTANTS
  r1 = r1
  r2 = r2
  r3 = r3
  i1 = i1
  Requests <- MCRequests
  Invoices <- MCInvoices
  Profiles <- MCProfiles
  GatewayOutcomes <- MCOutcomes
  PoolSizes <- MCPools
  MaxFaults = 1
SPECIFICATION FairPooledSpec
INVARIANT
  ConnectionsAccounted
PROPERTIES
  EveryRequestAnswered
  RequestedBillingConcludes
