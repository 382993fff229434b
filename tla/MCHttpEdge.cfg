\* Two requests of any route, input, id and outcome.
CONSTANTS
  r1 = r1
  r2 = r2
  Requests <- MCRequests
  ClientIds <- MCClientIds
  Drawn <- MCDrawn
SPECIFICATION Spec
SYMMETRY Symmetry
INVARIANTS
  OneTrueAnswer
  CategoryFitsStatus
  CountersComplete
  CorrelationKept
