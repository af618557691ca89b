SPECIFICATION Spec
CONSTANTS
  Document <- MCDocument
  Forbidden <- MCForbidden
  MaxPendingWrites = 2
  MaxFaults = 3
  Hello = Hello
  w1 = w1
  w2 = w2
  w3 = w3
INVARIANTS TypeOK ResultsMatchPipeline IdleMeansEmpty WrittenIsCommitted FailedIsDecided
PROPERTIES EveryWriteSettles ImplementsBackend
CHECK_DEADLOCK FALSE
