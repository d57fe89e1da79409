\* Two job tasks and the read loop write to one connection.
CONSTANTS
  t1 = t1
  t2 = t2
  Reader = reader
  Tasks <- MCTwoTasks
  MaxAttempts = 3
SPECIFICATION Spec
INVARIANTS OneWriter HalvesPresent
PROPERTIES Drains WritesEnd
