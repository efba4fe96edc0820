SPECIFICATION Spec
CONSTANTS
  RUNS = 8
  BUFFER_SIZE = 3
CHECK_DEADLOCK FALSE
PROPERTIES
  ImplementsQueue
  BothEnd
