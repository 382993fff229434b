\* Two goroutines, four events, one fault, each of the once-only faults armed.
CONSTANTS
  g1 = g1
  g2 = g2
  Goroutines <- MCGoroutines
  Names <- MCNames
  TopNames <- MCTopNames
  Handlers <- MCHandlers
  Consumes <- MCConsumes
  Publishes <- MCPublishes
  Module <- MCModule
  Transactional <- MCTransactional
  Wiring <- MCWiring
  BusOptions <- MCBusOptions
  MaxEvents = 4
  MaxFaults = 1
SPECIFICATION FairTracedSpec
INVARIANTS
  DeliveredInOrder
  AnswersTruthful
  FaultsOnce
  SpansNested
  FailuresTraced
  CountersAgree
PROPERTY
  PublishReturns
