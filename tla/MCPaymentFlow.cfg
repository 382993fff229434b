\* Three requests, every fault profile, any two faults; a second invoice where
\* the profile makes one matter.
CONSTANTS
  r1 = r1
  r2 = r2
  r3 = r3
  i1 = i1
  i2 = i2
  Requests <- MCRequests3
  Invoices <- MCInvoices2
  Profiles <- FaultProfiles
  GatewayOutcomes <- MCOutcomes
  MaxFaults = 2
SPECIFICATION Spec
SYMMETRY Symmetry
CONSTRAINT SecondInvoiceForAppend
INVARIANTS
  TypeOK
  AttemptLedger
  SettledTogether
  ReservationExclusive
  OutboxTruthful
  RepliesTruthful
  GatewayOutcomeKept
  OneCallPerAttemptWithoutFaults
PROPERTIES
  HistoryAppendOnly
  ImplementsSettlement
