\* Three commands of any release and direction over the rows of up to two payments.
CONSTANTS
  c1 = c1
  c2 = c2
  c3 = c3
  i1 = i1
  i2 = i2
  Commands <- MCCommands
  Invoices <- MCInvoices
  Releases = {4, 6, 7, 8}
  MaxPayments = 2
  MaxFaults = 1
CHECK_DEADLOCK FALSE
SPECIFICATION Spec
SYMMETRY Symmetry
INVARIANTS
  CleanMeansApplied
  RowsConsistent
  StuckByRowsOnly
PROPERTIES
  ExitTruthful
  UpgradeKeepsRows
