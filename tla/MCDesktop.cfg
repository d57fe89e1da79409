\* Two instances, three runs in turn, three presses of Ctrl+C.
CONSTANTS
  i1 = i1
  i2 = i2
  Instances <- MCInstances
  MaxRuns = 3
  MaxPresses = 3
SPECIFICATION FairSpec
INVARIANTS OwnedBridge NodeTakenDown
PROPERTY FirstRunEnds
