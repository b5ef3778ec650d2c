SPECIFICATION Spec
CONSTANTS
  Bytes = {0, 1, 2}
  Depth = 3
  NoResult = NoResult
INVARIANTS TypeOK RingConsistent
PROPERTIES ImplementsQueue
