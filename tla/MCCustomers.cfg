\* Four requests on customers and invoices, racing, with one fault.
CONSTANTS
  r1 = r1
  r2 = r2
  r3 = r3
  r4 = r4
  d1 = d1
  d2 = d2
  wrongLength = wrongLength
  Requests <- MCRequests4
  RawDocuments <- MCRaw
  Documents <- MCDocuments
  Digits <- MCDigits
  Rejected = wrongLength
  MaxFaults = 1
SPECIFICATION Spec
SYMMETRY Symmetry
INVARIANTS
  DocumentOwnedOnce
  CreationAnswered
  OnlyStaleUpdateReactivates
  InvoicedCustomerWasActive
