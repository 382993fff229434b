\* Violation: an update that read the customer before its deactivation undoes it.
CONSTANTS
  r1 = r1
  r2 = r2
  r3 = r3
  r4 = r4
  d1 = d1
  d2 = d2
  wrongLength = wrongLength
  Requests <- MCRequests3
  RawDocuments <- MCRaw
  Documents <- MCDocuments
  Digits <- MCDigits
  Rejected = wrongLength
  MaxFaults = 0
SPECIFICATION Spec
INVARIANT
  DeactivationSticks
